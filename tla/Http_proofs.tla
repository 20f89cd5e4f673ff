------------------------------ MODULE Http_proofs ----------------------------
(***************************************************************************)
(* TrackStream.tla holds for every word size, every chunk size, every file *)
(* size and every number in a header; HttpParser.tla for every stream,     *)
(* every cut of it and all limits; Router.tla for every table of routes    *)
(* and every request.                                                      *)
(***************************************************************************)
EXTENDS TrackStream, HttpParser, Router,
        FiniteSetTheorems, SequenceTheorems, WellFoundedInduction, TLAPS

\* A set of numbers that has 0, and with each its successor, has all.
LEMMA SetInduction ==
    ASSUME NEW T, 0 \in T, \A n \in Nat : n \in T => n + 1 \in T
    PROVE  Nat \subseteq T
<1> DEFINE R == OpToRel(<, Nat)
           U == {n \in Nat : n \notin T}
<1>1. IsWellFoundedOn(R, Nat)
  BY NatLessThanWellFounded
<1>2. \A x, y \in Nat : x < y => <<x, y>> \in R
  BY DEF OpToRel
<1>3. SUFFICES ASSUME U # {} PROVE FALSE
  OBVIOUS
<1> HIDE DEF R
<1>4. PICK n \in U : \A k \in U : ~(<<k, n>> \in R)
  BY <1>1, <1>3, WFMin
<1>5. n \in Nat /\ n # 0 /\ n \notin T
  OBVIOUS
<1>6. n - 1 \in Nat /\ n - 1 < n /\ (n - 1) + 1 = n
  BY <1>5
<1>7. n - 1 \notin U
  BY <1>2, <1>4, <1>5, <1>6
<1> QED BY <1>5, <1>6, <1>7

\* A set of numbers that is not empty has a least element.
LEMMA MinProperties ==
    ASSUME NEW S \in SUBSET Nat, S # {}
    PROVE  Min(S) \in S /\ \A x \in S : Min(S) <= x
<1> DEFINE R == OpToRel(<, Nat)
<1>1. IsWellFoundedOn(R, Nat)
  BY NatLessThanWellFounded
<1>2. \A x, y \in Nat : x < y => <<x, y>> \in R
  BY DEF OpToRel
<1> HIDE DEF R
<1>3. PICK n \in S : \A k \in S : ~(<<k, n>> \in R)
  BY <1>1, WFMin
<1>4. \A k \in S : n <= k
  <2>1. \A k \in S : k \in Nat
    OBVIOUS
  <2>2. \A k \in S : ~(k < n)
    BY <1>2, <1>3, <2>1
  <2> QED BY <2>1, <2>2
<1> QED BY <1>4 DEF Min

\* A set of numbers with a bound has a greatest element.
LEMMA MaxProperties ==
    ASSUME NEW n \in Nat, NEW S \in SUBSET (0..n), S # {}
    PROVE  Max(S) \in S /\ \A x \in S : Max(S) >= x
<1> DEFINE T == {n - x : x \in S}
<1>1. T \in SUBSET Nat /\ T # {}
  <2>1. \A x \in S : x \in Nat /\ n - x \in Nat
    OBVIOUS
  <2>2. \E x : x \in S
    OBVIOUS
  <2> QED BY <2>1, <2>2
<1>2. Min(T) \in T /\ \A y \in T : Min(T) <= y
  BY <1>1, MinProperties
<1>3. PICK x \in S : Min(T) = n - x
  BY <1>2
<1>4. \A y \in S : x >= y
  <2> TAKE y \in S
  <2>1. n - x <= n - y
    BY <1>2, <1>3
  <2> QED BY <2>1
<1> QED BY <1>4 DEF Max

\* A remainder changes nothing below the modulus.
LEMMA SmallMod ==
    ASSUME NEW m \in Nat, NEW x \in 0 .. m
    PROVE  x % (m + 1) = x
OBVIOUS

\* A satisfiable range is a nonempty window inside the resource.
LEMMA ParsedInside ==
    ASSUME NEW h \in Headers, NEW n \in 0 .. Uint64Max,
           parseRange(h, n).outcome = "Satisfiable"
    PROVE  /\ parseRange(h, n).start \in Nat
           /\ parseRange(h, n).end \in Nat
           /\ parseRange(h, n).start <= parseRange(h, n).end
           /\ parseRange(h, n).end < n
           /\ h.form \in {"suffix", "from", "fromTo"}
           /\ parseRange(h, n).start = requested(h, n).start
           /\ parseRange(h, n).end = clampEnd(requested(h, n).end, n)
           /\ startsInside(requested(h, n), n)
<1> DEFINE r == requested(h, n)
<1>1. /\ h.form # "absent" /\ h.form # "malformed" /\ n # 0
      /\ startsInside(r, n)
      /\ parseRange(h, n).start = r.start
      /\ parseRange(h, n).end = clampEnd(r.end, n)
  BY DEF parseRange, NotSatisfiable
<1>2. r.start \in Nat /\ r.end \in Int
  <2>1. CASE h.form = "suffix"
    BY <2>1, <1>1, BoundsAssumption DEF Headers, requested
  <2>2. CASE h.form = "from"
    BY <2>2, <1>1, BoundsAssumption DEF Headers, requested
  <2>3. CASE h.form = "fromTo"
    BY <2>3, <1>1, BoundsAssumption DEF Headers, requested
  <2> QED BY <1>1, <2>1, <2>2, <2>3 DEF Headers
<1>3. h.form \in {"suffix", "from", "fromTo"}
  BY <1>1 DEF Headers
<1>4. /\ r.start <= r.end /\ r.start < n
      /\ clampEnd(r.end, n) = IF r.end >= n THEN n - 1 ELSE r.end
  BY <1>1 DEF startsInside, clampEnd
<1>5. /\ clampEnd(r.end, n) \in Nat
      /\ r.start <= clampEnd(r.end, n)
      /\ clampEnd(r.end, n) < n
  BY <1>2, <1>4, BoundsAssumption
<1> QED BY <1>1, <1>2, <1>3, <1>5

\* The length of a satisfiable range does not wrap around, and the window it
\* describes is not empty and inside the resource.
LEMMA LengthInside ==
    ASSUME NEW h \in Headers, NEW n \in 0 .. Uint64Max,
           parseRange(h, n).outcome = "Satisfiable"
    PROVE  /\ length(parseRange(h, n)) = parseRange(h, n).end - parseRange(h, n).start + 1
           /\ length(parseRange(h, n)) \in Nat \ {0}
           /\ parseRange(h, n).start + length(parseRange(h, n)) <= n
<1> DEFINE s == parseRange(h, n).start
           e == parseRange(h, n).end
<1>1. s \in Nat /\ e \in Nat /\ s <= e /\ e < n
  BY ParsedInside
<1>2. length(parseRange(h, n)) = (e - s + 1) % (Uint64Max + 1)
  BY DEF length
<1> HIDE DEF s, e
<1>3. Uint64Max \in Nat /\ e - s + 1 \in 0 .. Uint64Max
  BY <1>1, BoundsAssumption
<1>4. (e - s + 1) % (Uint64Max + 1) = e - s + 1
  BY <1>3, SmallMod
<1>5. /\ e - s + 1 \in Nat \ {0}
      /\ s + (e - s + 1) <= n
  BY <1>1
<1> QED BY <1>2, <1>4, <1>5 DEF s, e

\* parseRange() selects what RFC 7233 selects.
LEMMA ParsedIsSelected ==
    ASSUME NEW h \in Headers, NEW n \in 0 .. Uint64Max,
           parseRange(h, n).outcome = "Satisfiable"
    PROVE  {i \in 0 .. n : parseRange(h, n).start <= i /\ i <= parseRange(h, n).end}
              = Selected(h, n)
<1> DEFINE r == requested(h, n)
           s == parseRange(h, n).start
           e == parseRange(h, n).end
<1>1. /\ s \in Nat /\ e \in Nat /\ s <= e /\ e < n
      /\ h.form \in {"suffix", "from", "fromTo"}
      /\ s = r.start
      /\ e = clampEnd(r.end, n)
  BY ParsedInside
<1>2. n \in Nat
  BY BoundsAssumption
<1>3. CASE h.form = "suffix"
  <2>1. /\ h.length \in Nat
        /\ r.start = (IF h.length > n THEN 0 ELSE n - h.length) /\ r.end = n - 1
    BY <1>3, BoundsAssumption DEF Headers, requested
  <2>2. Selected(h, n) = {i \in 0 .. n - 1 : i >= n - h.length}
    BY <1>3 DEF Selected
  <2>3. e = n - 1 /\ s = (IF h.length > n THEN 0 ELSE n - h.length)
    BY <1>1, <1>2, <2>1 DEF clampEnd
  <2> HIDE DEF r, s, e
  <2>4. {i \in 0 .. n : s <= i /\ i <= e} = {i \in 0 .. n - 1 : i >= n - h.length}
    BY <1>1, <1>2, <2>1, <2>3
  <2> QED BY <2>2, <2>4 DEF s, e
<1>4. CASE h.form = "from"
  <2>1. h.first \in Nat /\ r.start = h.first /\ r.end = n - 1
    BY <1>4, BoundsAssumption DEF Headers, requested
  <2>2. Selected(h, n) = {i \in 0 .. n - 1 : i >= h.first}
    BY <1>4 DEF Selected
  <2>3. e = n - 1 /\ s = h.first
    BY <1>1, <1>2, <2>1 DEF clampEnd
  <2> HIDE DEF r, s, e
  <2>4. {i \in 0 .. n : s <= i /\ i <= e} = {i \in 0 .. n - 1 : i >= h.first}
    BY <1>1, <1>2, <2>1, <2>3
  <2> QED BY <2>2, <2>4 DEF s, e
<1>5. CASE h.form = "fromTo"
  <2>1. h.first \in Nat /\ h.last \in Nat /\ r.start = h.first /\ r.end = h.last
    BY <1>5, BoundsAssumption DEF Headers, requested
  <2>2. Selected(h, n) = {i \in 0 .. n - 1 : h.first <= i /\ i <= h.last}
    BY <1>5 DEF Selected
  <2>3. e = (IF h.last >= n THEN n - 1 ELSE h.last) /\ s = h.first
    BY <1>1, <1>2, <2>1 DEF clampEnd
  <2> HIDE DEF r, s, e
  <2>4. {i \in 0 .. n : s <= i /\ i <= e} = {i \in 0 .. n - 1 : h.first <= i /\ i <= h.last}
    BY <1>1, <1>2, <2>1, <2>3
  <2> QED BY <2>2, <2>4 DEF s, e
<1> QED BY <1>1, <1>3, <1>4, <1>5

\* A header that parseRange() rejects selects nothing, unless a number in it is
\* too large.
LEMMA RejectedSelectsNothing ==
    ASSUME NEW h \in Headers, NEW n \in 0 .. Uint64Max,
           parseRange(h, n).outcome = "NotSatisfiable"
    PROVE  \/ Selected(h, n) = {}
           \/ h.form # "malformed" /\ ~numbersFit(h)
<1>1. n \in Nat
  BY BoundsAssumption
<1>2. /\ h.form # "absent"
      /\ \/ h.form = "malformed" \/ n = 0 \/ ~numbersFit(h)
         \/ h.form = "suffix" /\ h.length = 0
         \/ ~startsInside(requested(h, n), n)
  BY DEF parseRange
<1>3. CASE h.form = "malformed"
  BY <1>3 DEF Selected
<1>4. CASE h.form = "suffix"
  <2>1. /\ h.length \in Nat
        /\ requested(h, n).start = (IF h.length > n THEN 0 ELSE n - h.length)
        /\ requested(h, n).end = n - 1
    BY <1>4, BoundsAssumption DEF Headers, requested
  <2>2. Selected(h, n) = {i \in 0 .. n - 1 : i >= n - h.length}
    BY <1>4 DEF Selected
  <2>3. ~numbersFit(h) \/ n = 0 \/ h.length = 0
    BY <1>1, <1>2, <1>4, <2>1 DEF startsInside
  <2> QED BY <1>1, <1>4, <2>1, <2>2, <2>3
<1>5. CASE h.form = "from"
  <2>1. /\ h.first \in Nat
        /\ requested(h, n).start = h.first
        /\ requested(h, n).end = n - 1
    BY <1>5, BoundsAssumption DEF Headers, requested
  <2>2. Selected(h, n) = {i \in 0 .. n - 1 : i >= h.first}
    BY <1>5 DEF Selected
  <2>3. ~numbersFit(h) \/ n = 0 \/ h.first >= n
    BY <1>1, <1>2, <1>5, <2>1 DEF startsInside
  <2> QED BY <1>1, <1>5, <2>1, <2>2, <2>3
<1>6. CASE h.form = "fromTo"
  <2>1. /\ h.first \in Nat /\ h.last \in Nat
        /\ requested(h, n).start = h.first
        /\ requested(h, n).end = h.last
    BY <1>6, BoundsAssumption DEF Headers, requested
  <2>2. Selected(h, n) = {i \in 0 .. n - 1 : h.first <= i /\ i <= h.last}
    BY <1>6 DEF Selected
  <2>3. ~numbersFit(h) \/ n = 0 \/ h.first >= n \/ h.first > h.last
    BY <1>1, <1>2, <1>6, <2>1 DEF startsInside
  <2> QED BY <1>1, <1>6, <2>1, <2>2, <2>3
<1> QED BY <1>2, <1>3, <1>4, <1>5, <1>6 DEF Headers

-----------------------------------------------------------------------------

\* Before the handler has run nothing has been declared or sent.
Untouched == status = "waiting" => body = <<>> /\ finished = FALSE

\* While the body has not reported its end, what is left of the window is what
\* the Content-Length still promises.
NothingForgotten ==
    status \in {"200", "206"} /\ finished = FALSE => Len(body) + remaining = declared

\* The inductive invariant.
Inv == /\ TypeOK /\ Untouched /\ OpenRangeNeverFails
       /\ BodyInsideWindow /\ WindowIsSelection /\ NothingForgotten

LEMMA InitInv == Init => Inv
<1> SUFFICES ASSUME Init PROVE Inv
  OBVIOUS
<1>1. 0 \in Nat /\ <<>> \in Seq(Nat)
  OBVIOUS
<1>2. TypeOK
  BY <1>1, Zenon DEF Init, TypeOK
<1>3. status = "waiting" /\ body = <<>> /\ finished = FALSE
  BY DEF Init
<1> QED BY <1>2, <1>3
        DEF Inv, Untouched, OpenRangeNeverFails, BodyInsideWindow, WindowIsSelection,
            NothingForgotten

LEMMA RespondInv == ASSUME Inv, Respond PROVE Inv'
<1> DEFINE r    == parseRange(header, disk)
           from == IF r.outcome = "Satisfiable" THEN r.start ELSE 0
           len  == IF r.outcome = "Satisfiable" THEN length(r) ELSE disk
<1>1. /\ header \in Headers /\ disk \in Sizes /\ disk \in 0 .. Uint64Max /\ disk \in Nat
      /\ body = <<>> /\ status = "waiting"
  <2>1. header \in Headers /\ disk \in Sizes /\ body = <<>> /\ status = "waiting"
    BY Zenon DEF Inv, TypeOK, Untouched, Respond
  <2> QED BY <2>1, BoundsAssumption
<1>2. /\ size' = disk /\ header' = header /\ disk' = disk /\ body' = body
  BY DEF Respond
<1>3. r.outcome \in {"NoRangeHeader", "NotSatisfiable", "Satisfiable"}
  BY DEF parseRange, NotSatisfiable
<1>4. CASE r.outcome = "NotSatisfiable"
  <2>1. /\ status' = "416" /\ finished' = TRUE
        /\ UNCHANGED <<declared, start, cursor, remaining>>
    BY <1>4 DEF Respond
  <2>2. \/ Selected(header, disk) = {}
        \/ header.form # "malformed" /\ ~numbersFit(header)
    BY <1>1, <1>4, RejectedSelectsNothing
  <2>3. TypeOK'
    BY <1>1, <1>2, <2>1 DEF Inv, TypeOK
  <2>4. WindowIsSelection'
    BY <1>2, <2>1, <2>2 DEF WindowIsSelection
  <2> QED BY <2>1, <2>3, <2>4
          DEF Inv, Untouched, OpenRangeNeverFails, BodyInsideWindow, NothingForgotten
<1>5. ASSUME r.outcome # "NotSatisfiable"
      PROVE  /\ from \in Nat /\ len \in Nat /\ from + len <= disk
             /\ {i \in 0 .. disk : from <= i /\ i < from + len} = Selected(header, disk)
             /\ r.outcome = "Satisfiable" => len > 0
  <2>1. CASE r.outcome = "NoRangeHeader"
    <3>1. header.form = "absent"
      BY <2>1 DEF parseRange, NotSatisfiable
    <3>2. Selected(header, disk) = 0 .. disk - 1
      BY <3>1 DEF Selected
    <3>3. from = 0 /\ len = disk
      BY <2>1
    <3>4. {i \in 0 .. disk : 0 <= i /\ i < 0 + disk} = 0 .. disk - 1
      BY <1>1
    <3> QED BY <1>1, <2>1, <3>2, <3>3, <3>4
  <2>2. CASE r.outcome = "Satisfiable"
    <3>1. /\ length(r) = r.end - r.start + 1
          /\ length(r) \in Nat \ {0}
          /\ r.start + length(r) <= disk
      BY <1>1, <2>2, LengthInside
    <3>2. r.start \in Nat /\ r.end \in Nat
      BY <1>1, <2>2, ParsedInside
    <3>3. {i \in 0 .. disk : r.start <= i /\ i <= r.end} = Selected(header, disk)
      BY <1>1, <2>2, ParsedIsSelected
    <3>4. from = r.start /\ len = length(r)
      BY <2>2
    <3>5. \A i \in 0 .. disk : i <= r.end <=> i < r.start + length(r)
      BY <1>1, <3>1, <3>2
    <3> HIDE DEF r, from, len
    <3> QED BY <3>1, <3>2, <3>3, <3>4, <3>5
  <2> QED BY <1>3, <1>5, <2>1, <2>2
<1>6. CASE r.outcome # "NotSatisfiable"
  <2>1. /\ from \in Nat /\ len \in Nat /\ from + len <= disk
        /\ {i \in 0 .. disk : from <= i /\ i < from + len} = Selected(header, disk)
        /\ r.outcome = "Satisfiable" => len > 0
    BY <1>5, <1>6
  <2>2. ~outsideFile(from, len)
    <3> HIDE DEF from, len
    <3> QED BY <1>1, <1>2, <2>1 DEF outsideFile
  <2>3. /\ status' = IF r.outcome = "Satisfiable" THEN "206" ELSE "200"
        /\ declared' = len /\ start' = from
        /\ cursor' = from /\ remaining' = len
        /\ finished' = finished
    BY <1>6, <2>2 DEF Respond
  <2> HIDE DEF r, from, len
  <2>4. TypeOK'
    BY <1>1, <1>2, <2>1, <2>3 DEF Inv, TypeOK
  <2>5. BodyInsideWindow' /\ NothingForgotten'
    BY <1>1, <1>2, <2>1, <2>3 DEF BodyInsideWindow, NothingForgotten
  <2>6. WindowIsSelection'
    BY <1>2, <2>1, <2>3 DEF WindowIsSelection
  <2> QED BY <2>3, <2>4, <2>5, <2>6 DEF Inv, Untouched, OpenRangeNeverFails
<1> QED BY <1>4, <1>6

\* What one pull appends: a run of consecutive offsets.
LEMMA RunIsSeq ==
    ASSUME NEW n \in Nat, NEW from \in Nat
    PROVE  /\ [i \in 1 .. n |-> from + i - 1] \in Seq(Nat)
           /\ Len([i \in 1 .. n |-> from + i - 1]) = n
<1>1. \A i \in 1 .. n : from + i - 1 \in Nat
  OBVIOUS
<1>2. [i \in 1 .. n |-> from + i - 1] \in [1 .. n -> Nat]
  BY <1>1
<1> QED BY <1>2

\* A pull returns no more than the window has left, and nothing only at the end
\* of the file or of the window.
LEMMA PreadFacts ==
    ASSUME disk \in Nat, cursor \in Nat, remaining \in Nat, NEW n \in pread(wanted(remaining))
    PROVE  n \in Nat /\ n <= remaining /\ (n = 0 => disk <= cursor \/ remaining = 0)
  BY BoundsAssumption DEF pread, wanted, Min2

LEMMA PullInv == ASSUME Inv, Pull PROVE Inv'
<1>1. /\ header \in Headers /\ disk \in Nat /\ disk \in Sizes /\ size \in Sizes \cup {0}
      /\ size \in Nat
      /\ declared \in Nat /\ start \in Nat /\ cursor \in Nat /\ remaining \in Nat
      /\ body \in Seq(Nat) /\ finished \in BOOLEAN
      /\ status \in {"200", "206"} /\ Chunk \in Nat
  <2>1. /\ header \in Headers /\ disk \in Sizes /\ size \in Sizes \cup {0}
        /\ declared \in Nat /\ start \in Nat /\ cursor \in Nat /\ remaining \in Nat
        /\ body \in Seq(Nat) /\ finished \in BOOLEAN
        /\ status \in {"200", "206"}
    BY Zenon DEF Inv, TypeOK, Pull
  <2>2. disk \in Nat /\ size \in Nat /\ Chunk \in Nat
    BY <2>1, BoundsAssumption
  <2> QED BY <2>1, <2>2
<1>2. UNCHANGED <<header, disk, size, status, declared, start>>
  BY DEF Pull
<1>4. WindowIsSelection' /\ OpenRangeNeverFails' /\ Untouched'
  BY <1>1, <1>2 DEF Inv, WindowIsSelection, OpenRangeNeverFails, Untouched
<1>5. /\ cursor = start + Len(body) /\ Len(body) \in Nat
      /\ Len(body) <= declared /\ Len(body) + remaining <= declared
      /\ start + declared <= size
      /\ \A i \in DOMAIN body : body[i] = start + i - 1
      /\ finished = FALSE /\ Len(body) + remaining = declared
  <2>1. finished = FALSE
    BY <1>1 DEF Pull
  <2> QED BY <1>1, <2>1, LenProperties DEF Inv, BodyInsideWindow, NothingForgotten
<1>6. CASE finished' = TRUE
  <2>1. /\ finished' = TRUE /\ UNCHANGED <<cursor, body>>
        /\ remaining' \in Nat /\ remaining' <= remaining
    <3>1. CASE remaining = 0
      BY <1>1, <1>6, <3>1 DEF Pull
    <3>2. CASE remaining # 0
      <4>1. PICK n \in pread(wanted(remaining)) :
              IF n = 0 THEN endOfFile /\ UNCHANGED <<cursor, body>>
                       ELSE finished' = finished
        BY <3>2 DEF Pull
      <4>2. endOfFile /\ UNCHANGED <<cursor, body>>
        BY <1>5, <1>6, <4>1
      <4> QED BY <1>1, <4>2 DEF endOfFile
    <3> QED BY <3>1, <3>2
  <2>2. TypeOK'
    BY <1>1, <1>2, <2>1 DEF Inv, TypeOK
  <2>3. BodyInsideWindow'
    BY <1>1, <1>2, <1>5, <2>1 DEF BodyInsideWindow
  <2> QED BY <1>4, <2>1, <2>2, <2>3 DEF Inv, NothingForgotten
<1>7. CASE finished' # TRUE
  <2>9. PICK n \in pread(wanted(remaining)) :
          /\ n # 0 /\ cursor' = cursor + n /\ remaining' = remaining - n
          /\ body' = body \o [i \in 1 .. n |-> cursor + i - 1]
          /\ finished' = finished
    BY <1>7 DEF Pull, endOfFile
  <2> DEFINE run == [i \in 1 .. n |-> cursor + i - 1]
  <2>1. /\ cursor' = cursor + n /\ remaining' = remaining - n
        /\ body' = body \o run
        /\ finished' = finished
    BY <2>9
  <2>10. n \in Nat /\ n <= remaining
    BY <1>1, <2>9, PreadFacts
  <2>2. run \in Seq(Nat) /\ Len(run) = n
    BY <1>1, <2>10, RunIsSeq
  <2>3. \A i \in 1 .. n : run[i] = cursor + i - 1
    OBVIOUS
  <2> HIDE DEF run
  <2>4. /\ body \o run \in Seq(Nat)
        /\ Len(body \o run) = Len(body) + n
        /\ DOMAIN (body \o run) = 1 .. Len(body) + n
        /\ \A i \in 1 .. Len(body) + n :
              (body \o run)[i] = IF i <= Len(body) THEN body[i] ELSE run[i - Len(body)]
    <3>1. /\ body \o run \in Seq(Nat)
          /\ Len(body \o run) = Len(body) + Len(run)
          /\ \A i \in 1 .. Len(body) + Len(run) :
                (body \o run)[i] = IF i <= Len(body) THEN body[i] ELSE run[i - Len(body)]
      BY <1>1, <2>2, ConcatProperties
    <3>2. DOMAIN (body \o run) = 1 .. Len(body \o run)
      BY <3>1, LenProperties
    <3> QED BY <2>2, <3>1, <3>2
  <2>5. DOMAIN body = 1 .. Len(body)
    BY <1>1, LenProperties
  <2>6. TypeOK'
    <3>1. cursor' \in Nat /\ remaining' \in Nat
      BY <1>1, <2>10, <2>1
    <3>2. body' \in Seq(Nat) /\ finished' \in BOOLEAN
      BY <1>1, <2>1, <2>4, Zenon
    <3>3. /\ header' \in Headers /\ disk' \in Sizes /\ size' \in Sizes \cup {0}
          /\ declared' \in Nat /\ start' \in Nat /\ status' \in {"200", "206"}
      BY <1>1, <1>2
    <3> QED BY <3>1, <3>2, <3>3 DEF TypeOK
  <2>7. ASSUME NEW i \in 1 .. Len(body) + n
        PROVE  (body \o run)[i] = start + i - 1
    <3>1. CASE i <= Len(body)
      <4>1. i \in DOMAIN body
        BY <1>5, <2>5, <3>1
      <4> QED BY <1>5, <2>4, <3>1, <4>1
    <3>2. CASE ~(i <= Len(body))
      <4>1. i - Len(body) \in 1 .. n
        BY <2>10, <1>5, <3>2
      <4>2. run[i - Len(body)] = cursor + (i - Len(body)) - 1
        BY <2>3, <4>1
      <4>3. cursor + (i - Len(body)) - 1 = start + i - 1
        BY <1>1, <2>10, <1>5
      <4> QED BY <2>4, <3>2, <4>2, <4>3
    <3> QED BY <3>1, <3>2
  <2>8. BodyInsideWindow' /\ NothingForgotten'
    <3>1. Len(body') = Len(body) + n /\ DOMAIN body' = 1 .. Len(body) + n
      BY <2>1, <2>4
    <3>2. /\ cursor' = start' + Len(body') /\ Len(body') + remaining' = declared'
          /\ Len(body') <= declared' /\ start' + declared' <= size'
      <4> DEFINE sentSoFar == Len(body)
      <4>1. /\ sentSoFar \in Nat /\ cursor = start + sentSoFar
            /\ sentSoFar + remaining = declared /\ start + declared <= size
        BY <1>5
      <4>2. /\ Len(body') = sentSoFar + n /\ cursor' = cursor + n
            /\ remaining' = remaining - n /\ start' = start
            /\ declared' = declared /\ size' = size
        BY <1>2, <2>1, <3>1
      <4> HIDE DEF sentSoFar
      <4> QED BY <1>1, <2>10, <4>1, <4>2
    <3>3. \A i \in DOMAIN body' : body'[i] = start' + i - 1
      BY <1>2, <2>1, <2>7, <3>1
    <3>4. Len(body') + remaining' <= declared'
      BY <1>1, <1>2, <3>2
    <3> QED BY <3>2, <3>3, <3>4 DEF BodyInsideWindow, NothingForgotten
  <2> QED BY <1>4, <2>6, <2>8 DEF Inv
<1> QED BY <1>6, <1>7

LEMMA InvInductive == Inv /\ [Next]_vars => Inv'
<1> SUFFICES ASSUME Inv, [Next]_vars PROVE Inv'
  OBVIOUS
<1>1. CASE Refuse
  BY <1>1 DEF Inv, TypeOK, Untouched, OpenRangeNeverFails, BodyInsideWindow,
              WindowIsSelection, NothingForgotten, Refuse
<1>2. CASE Respond
  BY <1>2, RespondInv
<1>3. CASE Pull
  BY <1>3, PullInv
<1>6. CASE PullFails
  BY <1>6 DEF Inv, TypeOK, Untouched, OpenRangeNeverFails, BodyInsideWindow,
              WindowIsSelection, NothingForgotten, PullFails
<1>4. CASE FileChanges
  BY <1>4 DEF Inv, TypeOK, Untouched, OpenRangeNeverFails, BodyInsideWindow,
              WindowIsSelection, NothingForgotten, FileChanges
<1>5. CASE UNCHANGED vars
  BY <1>5 DEF Inv, TypeOK, Untouched, OpenRangeNeverFails, BodyInsideWindow,
              WindowIsSelection, NothingForgotten, vars
<1> QED BY <1>1, <1>2, <1>3, <1>4, <1>5, <1>6 DEF Next

\* For every header and every file, however it changes while it is sent: the
\* window declared is the one RFC 7233 selects, openRange() accepts it, and the
\* body is a prefix of it.
THEOREM StreamSafe == Spec => []WindowSound
<1>1. Inv => WindowSound
  BY DEF Inv, WindowSound
<1> QED BY <1>1, InitInv, InvInductive, PTL DEF Spec

\* A body ends before its Content-Length only if the file then ends at or
\* before the cursor.
THEOREM StreamWhole == Spec => ShortOnlyIfTruncated
<1>1. Inv /\ [Next]_vars =>
        [finished' /\ ~finished /\ status' \in {"200", "206"} =>
            Len(body) = declared \/ disk <= cursor]_vars
  <2> SUFFICES ASSUME Inv, Next, finished', finished = FALSE, status' \in {"200", "206"}
               PROVE  Len(body) = declared \/ disk <= cursor
    BY DEF Inv, TypeOK, vars
  <2>1. CASE Refuse \/ Respond \/ PullFails \/ FileChanges
    BY <2>1 DEF Refuse, Respond, PullFails, FileChanges
  <2>2. CASE Pull
    <3>1. remaining = 0 \/ 0 \in pread(wanted(remaining))
      BY <2>2 DEF Pull
    <3>2. /\ disk \in Nat /\ cursor \in Nat /\ remaining \in Nat /\ declared \in Nat
          /\ Len(body) \in Nat /\ Len(body) + remaining = declared
      <4>1. disk \in Sizes /\ cursor \in Nat /\ remaining \in Nat /\ declared \in Nat
        BY DEF Inv, TypeOK
      <4>2. body \in Seq(Nat) /\ Len(body) + remaining = declared
        BY <2>2 DEF Inv, TypeOK, NothingForgotten, Pull
      <4> QED BY <4>1, <4>2, LenProperties, BoundsAssumption
    <3>3. CASE remaining = 0
      BY <3>2, <3>3
    <3>4. CASE 0 \in pread(wanted(remaining))
      BY <3>2, <3>4, PreadFacts
    <3> QED BY <3>1, <3>3, <3>4
  <2> QED BY <2>1, <2>2 DEF Next
<1> QED BY <1>1, InitInv, InvInductive, PTL DEF Spec, ShortOnlyIfTruncated

-----------------------------------------------------------------------------
(* HttpParser                                                               *)

\* The symbols of all streams.
Symbol == UNION {{s[i] : i \in DOMAIN s} : s \in Streams}

\* The length that a Content-Length gives is a number, and finishHeaders() has
\* compared it with the limit before the body is waited for.
CountersSound ==
    /\ {"length", "bodyLength"} \subseteq DOMAIN cur
    /\ cur.length \in Nat \cup {NoLength}
    /\ state = "body" => cur.bodyLength \in 0..MaxBody

\* What next() has not taken yet is the end of what was fed: no piece is lost,
\* repeated or put out of order, however recv() cuts the stream and whatever
\* is erased from the front (HttpRequestParser.cpp:118, 153, 257).
BufferIsTail ==
    /\ fed <= Len(stream) /\ Len(buffer) <= fed
    /\ \A i \in 1..Len(buffer) : buffer[i] = stream[fed - Len(buffer) + i]

ParserIInv ==
    /\ stream \in Seq(Symbol) /\ buffer \in Seq(Symbol) /\ fed \in Nat
    /\ state \in {"requestLine", "headers", "body"}
    /\ CountersSound /\ BufferIsTail

\* The elements of a sequence from lo to hi.
LEMMA WindowProperties ==
    ASSUME NEW S, NEW s \in Seq(S), NEW lo \in Nat, NEW hi \in Nat,
           1 <= lo, lo <= hi + 1, hi <= Len(s)
    PROVE  /\ SubSeq(s, lo, hi) \in Seq(S) /\ Len(SubSeq(s, lo, hi)) = hi - lo + 1
           /\ \A i \in 1..hi - lo + 1 : SubSeq(s, lo, hi)[i] = s[lo + i - 1]
<1>1. \A i \in lo..hi : i \in 1..Len(s)
  BY LenProperties
<1>2. lo \in Int /\ hi \in Int /\ \A i \in lo..hi : s[i] \in S
  BY <1>1, ElementOfSeq
<1>3. PICK t : t = SubSeq(s, lo, hi)
  OBVIOUS
<1>4. /\ t \in Seq(S) /\ Len(t) = IF lo <= hi THEN hi - lo + 1 ELSE 0
      /\ \A i \in 1..hi - lo + 1 : t[i] = s[lo + i - 1]
  BY <1>2, <1>3, SubSeqProperties
<1>5. ~(lo <= hi) => hi - lo + 1 = 0
  OBVIOUS
<1> QED BY <1>3, <1>4, <1>5

\* What is left of a sequence when its first n elements are erased.
LEMMA EraseProperties ==
    ASSUME NEW S, NEW s \in Seq(S), NEW n \in 0..Len(s)
    PROVE  /\ erase(s, n) \in Seq(S) /\ Len(erase(s, n)) = Len(s) - n
           /\ \A i \in 1..Len(s) - n : erase(s, n)[i] = s[n + i]
<1>1. PICK lo, hi, t : lo = n + 1 /\ hi = Len(s) /\ t = SubSeq(s, lo, hi)
  OBVIOUS
<1>2. /\ lo \in Nat /\ hi \in Nat /\ 1 <= lo /\ lo <= hi + 1 /\ hi <= Len(s)
      /\ hi - lo + 1 = Len(s) - n /\ \A i \in 1..hi - lo + 1 : lo + i - 1 = n + i
  BY <1>1, LenProperties
<1>3. /\ t \in Seq(S) /\ Len(t) = hi - lo + 1
      /\ \A i \in 1..hi - lo + 1 : t[i] = s[lo + i - 1]
  BY <1>1, <1>2, WindowProperties
<1> QED BY <1>1, <1>2, <1>3 DEF erase

\* The first end of a line.
LEMMA PositionProperties ==
    ASSUME NEW S, NEW s \in Seq(S), found(s)
    PROVE  /\ position(s) \in Nat /\ position(s) + 2 <= Len(s)
           /\ position(s) + 1 \in Ends(s) /\ \A j \in Ends(s) : position(s) + 1 <= j
<1>1. Len(s) \in Nat /\ Ends(s) \subseteq 1..Len(s) - 1 /\ Ends(s) # {}
  BY LenProperties DEF Ends, found
<1>2. Min(Ends(s)) \in Ends(s) /\ \A j \in Ends(s) : Min(Ends(s)) <= j
  <2>1. Ends(s) \in SUBSET Nat
    BY <1>1
  <2> QED BY <1>1, <2>1, MinProperties
<1>3. position(s) = Min(Ends(s)) - 1
  BY DEF position, Min
<1>4. Min(Ends(s)) \in 1..Len(s) - 1
  BY <1>1, <1>2
<1>5. position(s) + 1 = Min(Ends(s))
  BY <1>3, <1>4
<1> QED BY <1>1, <1>2, <1>3, <1>4, <1>5

\* Taking a line or a body off the front leaves the end of what was fed.
LEMMA EraseKeepsTail ==
    ASSUME ParserIInv, NEW n \in 0..Len(buffer),
           buffer' = erase(buffer, n), UNCHANGED <<stream, fed>>
    PROVE  buffer' \in Seq(Symbol) /\ BufferIsTail'
<1>1. /\ stream \in Seq(Symbol) /\ buffer \in Seq(Symbol) /\ fed \in Nat
      /\ Len(buffer) \in Nat /\ Len(stream) \in Nat /\ BufferIsTail
  BY DEF ParserIInv
<1>3. /\ buffer' \in Seq(Symbol) /\ Len(buffer') = Len(buffer) - n
      /\ \A i \in 1 .. Len(buffer) - n : buffer'[i] = buffer[n + i]
  BY <1>1, EraseProperties
<1>4. \A i \in 1 .. Len(buffer) - n : buffer[n + i] = stream[fed - (Len(buffer) - n) + i]
  <2>. TAKE i \in 1 .. Len(buffer) - n
  <2>1. n + i \in 1 .. Len(buffer) /\ fed - Len(buffer) + (n + i) = fed - (Len(buffer) - n) + i
    BY <1>1
  <2>. QED
    BY <1>1, <2>1 DEF BufferIsTail
<1>5. fed' <= Len(stream') /\ Len(buffer') <= fed'
  BY <1>1, <1>3 DEF BufferIsTail
<1>6. \A i \in 1 .. Len(buffer') : buffer'[i] = stream'[fed' - Len(buffer') + i]
  BY <1>1, <1>3, <1>4
<1>. QED
  BY <1>3, <1>5, <1>6 DEF BufferIsTail

\* A new piece continues what was fed before.
LEMMA FeedKeepsTail ==
    ASSUME ParserIInv, NEW n \in Nat, feed(n)
    PROVE  /\ buffer' \in Seq(Symbol) /\ fed' \in Nat /\ BufferIsTail'
           /\ fed' = fed + n /\ Len(buffer') = Len(buffer) + n
<1>1. /\ stream \in Seq(Symbol) /\ buffer \in Seq(Symbol) /\ fed \in Nat
      /\ Len(buffer) \in Nat /\ Len(stream) \in Nat /\ BufferIsTail
  BY DEF ParserIInv
<1>. DEFINE piece == SubSeq(stream, fed + 1, fed + n)
<1>2. /\ fed + n <= Len(stream) /\ fed' = fed + n /\ stream' = stream
      /\ buffer' = buffer \o piece
  BY DEF feed
<1>4. /\ piece \in Seq(Symbol) /\ Len(piece) = n
      /\ \A i \in 1 .. n : piece[i] = stream[fed + i]
  <2>1. PICK lo, hi : lo = fed + 1 /\ hi = fed + n
    OBVIOUS
  <2>2. /\ lo \in Nat /\ hi \in Nat /\ 1 <= lo /\ lo <= hi + 1 /\ hi <= Len(stream)
        /\ hi - lo + 1 = n /\ \A i \in 1 .. n : lo + i - 1 = fed + i
    BY <1>1, <1>2, <2>1
  <2>3. /\ piece \in Seq(Symbol) /\ Len(piece) = hi - lo + 1
        /\ \A i \in 1 .. hi - lo + 1 : piece[i] = stream[lo + i - 1]
    BY <1>1, <2>1, <2>2, WindowProperties
  <2>. QED
    BY <2>2, <2>3
<1>. HIDE DEF piece
<1>5. /\ buffer \o piece \in Seq(Symbol) /\ Len(buffer \o piece) = Len(buffer) + n
      /\ \A i \in 1 .. Len(buffer) + n :
            (buffer \o piece)[i] = IF i <= Len(buffer) THEN buffer[i] ELSE piece[i - Len(buffer)]
  BY <1>1, <1>4, ConcatProperties
<1>6. \A i \in 1 .. Len(buffer) + n :
         (buffer \o piece)[i] = stream[fed + n - (Len(buffer) + n) + i]
  <2>. TAKE i \in 1 .. Len(buffer) + n
  <2>0. i \in Nat /\ fed + n - (Len(buffer) + n) + i = fed - Len(buffer) + i
    BY <1>1
  <2>1. CASE i <= Len(buffer)
    <3>1. i \in 1 .. Len(buffer)
      BY <1>1, <2>0, <2>1
    <3>2. buffer[i] = stream[fed - Len(buffer) + i]
      BY <1>1, <3>1 DEF BufferIsTail
    <3>. QED
      BY <1>5, <2>0, <2>1, <3>2
  <2>2. CASE ~(i <= Len(buffer))
    <3>1. i - Len(buffer) \in 1 .. n /\ fed + (i - Len(buffer)) = fed - Len(buffer) + i
      BY <1>1, <2>0, <2>2
    <3>2. piece[i - Len(buffer)] = stream[fed + (i - Len(buffer))]
      BY <1>4, <3>1
    <3>. QED
      BY <1>5, <2>0, <2>2, <3>1, <3>2
  <2>. QED
    BY <2>1, <2>2
<1>7. fed + n \in Nat /\ Len(buffer) + n <= fed + n
  BY <1>1 DEF BufferIsTail
<1>8. PICK b : b = buffer \o piece
  OBVIOUS
<1>9. /\ b \in Seq(Symbol) /\ Len(b) = Len(buffer) + n /\ buffer' = b
      /\ \A i \in 1 .. Len(b) : b[i] = stream[fed + n - Len(b) + i]
  BY <1>2, <1>5, <1>6, <1>8
<1>a. fed' = fed + n /\ stream' = stream /\ fed + n <= Len(stream) /\ Len(b) <= fed + n
  BY <1>2, <1>7, <1>9
<1>b. BufferIsTail'
  <2>1. fed' <= Len(stream') /\ Len(buffer') <= fed'
    BY <1>9, <1>a
  <2>2. \A i \in 1 .. Len(buffer') : buffer'[i] = stream'[fed' - Len(buffer') + i]
    BY <1>1, <1>9, <1>a
  <2>. QED
    BY <2>1, <2>2 DEF BufferIsTail
<1>. QED
  BY <1>7, <1>9, <1>a, <1>b

\* A return from next() changes nothing else.
LEMMA ReturnKeepsIInv ==
    ASSUME ParserIInv, NEW r, Return(r)
    PROVE  ParserIInv'
BY DEF ParserIInv, Return, CountersSound, BufferIsTail

\* The parser starts with nothing fed.
LEMMA InitParserIInv == ParserInit => ParserIInv
<1>. SUFFICES ASSUME ParserInit PROVE ParserIInv
  OBVIOUS
<1>1. stream \in Seq(Symbol)
  <2>1. stream \in Streams /\ stream \in Seq({stream[i] : i \in DOMAIN stream})
    BY ParserAssumption DEF ParserInit
  <2>2. {stream[i] : i \in DOMAIN stream} \subseteq Symbol
    BY <2>1 DEF Symbol
  <2>. QED
    BY <2>1, <2>2, SeqMonotonic
<1>2. Len(stream) \in Nat
  BY <1>1
<1>. QED
  BY <1>1, <1>2 DEF ParserInit, ParserIInv, CountersSound, BufferIsTail, Fresh

\* The loop of next(), a turn at a time.
LEMMA TurnKeepsIInv ==
    ASSUME ParserIInv, RequestLine \/ HeaderLine \/ EndOfHeaders \/ Body
    PROVE  ParserIInv'
<1>1. /\ stream \in Seq(Symbol) /\ buffer \in Seq(Symbol) /\ fed \in Nat
      /\ Len(buffer) \in Nat /\ CountersSound
  BY DEF ParserIInv
<1>2. ASSUME found(buffer)
      PROVE  position(buffer) + 2 \in 0 .. Len(buffer)
  BY <1>1, <1>2, PositionProperties
<1>3. ASSUME RequestLine
      PROVE  ParserIInv'
  <2>1. CASE \E r : Return(r)
    BY <2>1, ReturnKeepsIInv
  <2>2. CASE /\ found(buffer)
             /\ state' = "headers" /\ cur' = [Fresh EXCEPT !.line = lineOf(buffer)]
             /\ buffer' = erase(buffer, position(buffer) + 2)
             /\ UNCHANGED <<stream, fed, result, accepted>>
    <3>1. buffer' \in Seq(Symbol) /\ BufferIsTail'
      BY <1>2, <2>2, EraseKeepsTail
    <3>2. CountersSound'
      BY <2>2 DEF CountersSound, Fresh
    <3>. QED
      BY <1>1, <2>2, <3>1, <3>2 DEF ParserIInv
  <2>. QED
    BY <1>3, <2>1, <2>2 DEF RequestLine, NoLine
<1>4. ASSUME HeaderLine
      PROVE  ParserIInv'
  <2>1. CASE \E r : Return(r)
    BY <2>1, ReturnKeepsIInv
  <2>2. CASE /\ found(buffer) /\ state = "headers"
             /\ LET first == firstOf(lineOf(buffer))
                IN  cur' = [cur EXCEPT !.bytes = @ + position(buffer) + 2, !.count = @ + 1,
                              !.length = IF first \in DOMAIN Lengths THEN Lengths[first] ELSE @,
                              !.chunked = @ \/ first = "t"]
             /\ buffer' = erase(buffer, position(buffer) + 2)
             /\ UNCHANGED <<stream, fed, state, result, accepted>>
    <3>1. buffer' \in Seq(Symbol) /\ BufferIsTail'
      BY <1>2, <2>2, EraseKeepsTail
    <3>2. /\ DOMAIN cur' = DOMAIN cur
          /\ cur'.length = cur.length \/ \E c \in DOMAIN Lengths : cur'.length = Lengths[c]
      <4>1. PICK first : first = firstOf(lineOf(buffer))
        OBVIOUS
      <4>2. PICK bytes, count, chunked :
               cur' = [cur EXCEPT !.bytes = bytes, !.count = count,
                         !.length = IF first \in DOMAIN Lengths THEN Lengths[first] ELSE cur.length,
                         !.chunked = chunked]
        BY <2>2, <4>1
      <4>. QED
        BY <1>1, <4>2 DEF CountersSound
    <3>3. CountersSound'
      BY <1>1, <2>2, <3>2, ParserAssumption DEF CountersSound
    <3>. QED
      BY <1>1, <2>2, <3>1, <3>3 DEF ParserIInv
  <2>. QED
    BY <1>4, <2>1, <2>2 DEF HeaderLine, NoLine
<1>5. ASSUME EndOfHeaders
      PROVE  ParserIInv'
  <2>1. buffer' = erase(buffer, 2) /\ UNCHANGED <<stream, fed>> /\ found(buffer)
    BY <1>5, Zenon DEF EndOfHeaders
  <2>2. 2 \in 0 .. Len(buffer)
    BY <1>1, <2>1, PositionProperties
  <2>3. buffer' \in Seq(Symbol) /\ BufferIsTail'
    BY <2>1, <2>2, EraseKeepsTail
  <2>4. CountersSound' /\ state' \in {"headers", "body"}
    <3>1. CASE headersRefused
      BY <1>1, <1>5, <3>1 DEF EndOfHeaders, CountersSound
    <3>2. CASE ~headersRefused
      <4>1. /\ state' = "body"
            /\ cur' = [cur EXCEPT !.bodyLength = IF cur.length = NoLength THEN 0 ELSE cur.length]
        BY <1>5, <3>2 DEF EndOfHeaders
      <4>2. (IF cur.length = NoLength THEN 0 ELSE cur.length) \in 0 .. MaxBody
        BY <1>1, <3>2, ParserAssumption DEF headersRefused, CountersSound
      <4>. QED
        BY <1>1, <4>1, <4>2 DEF CountersSound
    <3>. QED
      BY <3>1, <3>2
  <2>. QED
    BY <1>1, <2>1, <2>3, <2>4 DEF ParserIInv
<1>6. ASSUME Body
      PROVE  ParserIInv'
  <2>1. CASE Len(buffer) < cur.bodyLength
    BY <1>6, <2>1, ReturnKeepsIInv DEF Body
  <2>2. CASE ~(Len(buffer) < cur.bodyLength)
    <3>1. /\ buffer' = erase(buffer, cur.bodyLength) /\ UNCHANGED <<stream, fed>>
          /\ state = "body" /\ state' = "requestLine" /\ cur' = Fresh
      BY <1>6, <2>2 DEF Body, bodyTaken
    <3>2. cur.bodyLength \in 0 .. Len(buffer)
      BY <1>1, <2>2, <3>1, ParserAssumption DEF CountersSound
    <3>3. buffer' \in Seq(Symbol) /\ BufferIsTail'
      BY <3>1, <3>2, EraseKeepsTail
    <3>. QED
      BY <1>1, <3>1, <3>3 DEF ParserIInv, CountersSound, Fresh
  <2>. QED
    BY <2>1, <2>2
<1>. QED
  BY <1>3, <1>4, <1>5, <1>6

LEMMA NextParserIInv == ParserIInv /\ [ParserNext]_parserVars => ParserIInv'
<1>. SUFFICES ASSUME ParserIInv, [ParserNext]_parserVars PROVE ParserIInv'
  OBVIOUS
<1>1. ASSUME NEW n \in 1 .. Len(stream), feed(n) PROVE ParserIInv'
  <2>1. buffer' \in Seq(Symbol) /\ fed' \in Nat /\ BufferIsTail'
    BY <1>1, FeedKeepsTail
  <2>. QED
    BY <1>1, <2>1 DEF ParserIInv, feed, CountersSound
<1>2. CASE next
  BY <1>2, ReturnKeepsIInv DEF next
<1>3. CASE UNCHANGED parserVars
  BY <1>3 DEF parserVars, ParserIInv, CountersSound, BufferIsTail
<1>. QED
  BY <1>1, <1>2, <1>3, TurnKeepsIInv DEF ParserNext

\* next() asks for more only below the limit of the part it is in.
LEMMA AsksBelowLimit ==
    ParserIInv /\ [ParserNext]_parserVars =>
        (result = "running" /\ result' = "needMoreData" =>
          Len(buffer) <= CASE state = "requestLine" -> MaxRequestLine
                           [] state = "headers" -> MaxHeaderBytes
                           [] state = "body" -> MaxBody)
<1>. SUFFICES ASSUME ParserIInv, [ParserNext]_parserVars,
                     result = "running", result' = "needMoreData"
              PROVE  Len(buffer) <= CASE state = "requestLine" -> MaxRequestLine
                                      [] state = "headers" -> MaxHeaderBytes
                                      [] state = "body" -> MaxBody
  OBVIOUS
<1>1. /\ buffer \in Seq(Symbol) /\ Len(buffer) \in Nat /\ CountersSound
      /\ MaxRequestLine \in Nat /\ MaxHeaderBytes \in Nat /\ MaxBody \in Nat
  BY ParserAssumption DEF ParserIInv
<1>2. ~(UNCHANGED parserVars) /\ ~next /\ \A n \in 1 .. Len(stream) : ~feed(n)
  BY DEF parserVars, next, Return, feed
<1>3. CASE RequestLine
  BY <1>1, <1>3 DEF RequestLine, NoLine, Return, tooLong
<1>4. CASE HeaderLine
  BY <1>1, <1>4 DEF HeaderLine, NoLine, Return, tooLong
<1>5. CASE EndOfHeaders
  BY <1>5 DEF EndOfHeaders
<1>6. CASE Body
  BY <1>1, <1>6 DEF Body, Return, CountersSound
<1>. QED
  BY <1>2, <1>3, <1>4, <1>5, <1>6 DEF ParserNext

\* What next() has not taken yet is the end of what was fed, so that a stream
\* cut anywhere is the same stream (HttpRequestParser.hpp:31).
THEOREM ParserReadsInOrder == ParserSpec => []BufferIsTail
<1>1. ParserIInv => BufferIsTail
  BY DEF ParserIInv
<1>. QED
  BY <1>1, InitParserIInv, NextParserIInv, PTL DEF ParserSpec

\* Whoever feeds a parser that keeps asking for more cannot make it hold more
\* than the limit of the part it is in (HttpRequestParser.hpp:69).
THEOREM ParserBuffersLittle == ParserSpec => BufferBounded
BY InitParserIInv, NextParserIInv, AsksBelowLimit, PTL DEF ParserSpec, BufferBounded

-----------------------------------------------------------------------------
(* HttpParser keeps to its reference, whatever was fed when.                *)

\* b is the beginning of s.
Begins(b, s) == Len(b) <= Len(s) /\ \A i \in 1..Len(b) : b[i] = s[i]

\* A complete line at the beginning is the line of the whole.
LEMMA LineOfBeginning ==
    ASSUME NEW S, NEW s \in Seq(S), NEW b \in Seq(S), Begins(b, s), found(b)
    PROVE  found(s) /\ position(s) = position(b) /\ lineOf(s) = lineOf(b)
<1>1. /\ Len(b) \in Nat /\ Len(s) \in Nat /\ Len(b) <= Len(s)
      /\ \A i \in 1..Len(b) : b[i] = s[i]
  BY LenProperties DEF Begins
<1>2. PICK p : p = position(b)
  OBVIOUS
<1>3. /\ p \in Nat /\ p + 2 <= Len(b) /\ p + 1 \in Ends(b) /\ \A j \in Ends(b) : p + 1 <= j
  BY <1>2, PositionProperties
<1>4. p + 1 \in Ends(s)
  BY <1>1, <1>3 DEF Ends
<1>5. found(s)
  BY <1>4 DEF found
<1>6. PICK q : q = position(s)
  OBVIOUS
<1>7. /\ q \in Nat /\ q + 2 <= Len(s) /\ q + 1 \in Ends(s) /\ \A j \in Ends(s) : q + 1 <= j
  BY <1>5, <1>6, PositionProperties
<1>8. q <= p
  BY <1>3, <1>4, <1>7
<1>9. q + 1 \in Ends(b)
  BY <1>1, <1>3, <1>7, <1>8 DEF Ends
<1>10. p = q
  BY <1>3, <1>7, <1>8, <1>9
<1>11. lineOf(s) = lineOf(b)
  <2>1. /\ 1 \in Nat /\ 1 <= 1 /\ 1 <= p + 1 /\ p <= Len(b) /\ p <= Len(s) /\ p - 1 + 1 = p
        /\ \A i \in 1..p : 1 + i - 1 = i /\ b[i] = s[i]
    BY <1>1, <1>3
  <2>2. PICK t, u : t = SubSeq(b, 1, p) /\ u = SubSeq(s, 1, p)
    OBVIOUS
  <2>3. t \in Seq(S) /\ Len(t) = p - 1 + 1 /\ \A i \in 1..p - 1 + 1 : t[i] = b[1 + i - 1]
    BY <1>3, <2>1, <2>2, WindowProperties
  <2>4. u \in Seq(S) /\ Len(u) = p - 1 + 1 /\ \A i \in 1..p - 1 + 1 : u[i] = s[1 + i - 1]
    BY <1>3, <2>1, <2>2, WindowProperties
  <2>5. \A i \in 1..Len(t) : t[i] = u[i]
    BY <2>1, <2>3, <2>4
  <2>6. t = u
    BY <2>3, <2>4, <2>5, SeqEqual
  <2> QED BY <1>2, <1>6, <1>10, <2>2, <2>6 DEF lineOf
<1> QED BY <1>2, <1>5, <1>6, <1>10, <1>11

\* Without a complete line at the beginning, the line of the whole ends behind it,
\* or with the CR that it ends with.
LEMMA NoLineInBeginning ==
    ASSUME NEW S, NEW s \in Seq(S), NEW b \in Seq(S), Begins(b, s), ~found(b), found(s)
    PROVE  /\ position(s) + 1 >= Len(b)
           /\ position(s) + 1 = Len(b) => b[Len(b)] = "CR"
<1>1. /\ Len(b) \in Nat /\ Len(s) \in Nat /\ Len(b) <= Len(s)
      /\ \A i \in 1..Len(b) : b[i] = s[i]
  BY LenProperties DEF Begins
<1>2. PICK q : q = position(s)
  OBVIOUS
<1>3. q \in Nat /\ q + 2 <= Len(s) /\ q + 1 \in Ends(s)
  BY <1>2, PositionProperties
<1>4. s[q + 1] = "CR" /\ s[q + 1 + 1] = "LF"
  BY <1>3 DEF Ends
<1>5. Ends(b) = {}
  BY DEF found
<1>6. q + 1 >= Len(b)
  <2> SUFFICES ASSUME q + 1 < Len(b) PROVE FALSE
    BY <1>1, <1>3
  <2>1. q + 1 \in 1..Len(b) /\ q + 1 + 1 \in 1..Len(b) /\ q + 1 \in 1..Len(b) - 1
    BY <1>1, <1>3
  <2>2. b[q + 1] = "CR" /\ b[q + 1 + 1] = "LF"
    BY <1>1, <1>4, <2>1
  <2>3. q + 1 \in Ends(b)
    BY <2>1, <2>2 DEF Ends
  <2> QED BY <1>5, <2>3
<1>7. q + 1 = Len(b) => b[Len(b)] = "CR"
  BY <1>1, <1>3, <1>4
<1> QED BY <1>2, <1>6, <1>7

-----------------------------------------------------------------------------
\* The turns of the reference, as the recursive function in parseWhole has them.
TurnTable(s, f) == [n \in 0..Len(s) + 1 |-> IF n = 0 THEN WholeInit ELSE turn(s, f[n - 1])]
TurnsOf(s) == CHOOSE f : f = TurnTable(s, f)

LEMMA TurnsExist ==
    ASSUME NEW S, NEW s \in Seq(S) PROVE TurnsOf(s) = TurnTable(s, TurnsOf(s))
<1> DEFINE Part(n, f) == [i \in 0..n |-> IF i = 0 THEN WholeInit ELSE turn(s, f[i - 1])]
           T == {n \in Nat : \E f : f = Part(n, f)}
<1>1. 0 \in T
  <2> PICK f : f = [i \in 0..0 |-> WholeInit]
    OBVIOUS
  <2>1. \A i \in 0..0 : i = 0
    OBVIOUS
  <2>2. Part(0, f) = [i \in 0..0 |-> WholeInit]
    BY <2>1
  <2> QED BY <2>2
<1>2. ASSUME NEW n \in Nat, n \in T PROVE n + 1 \in T
  <2> PICK f : f = Part(n, f)
    BY <1>2
  <2> PICK g : g = [i \in 0..n + 1 |-> IF i = n + 1 THEN turn(s, f[n]) ELSE f[i]]
    OBVIOUS
  <2>1. ASSUME NEW i \in 0..n + 1
        PROVE  g[i] = IF i = 0 THEN WholeInit ELSE turn(s, g[i - 1])
    <3>1. CASE i = n + 1
      <4>1. i # 0 /\ i - 1 = n /\ n \in 0..n + 1 /\ n # n + 1
        BY <3>1
      <4>2. g[i] = turn(s, f[n]) /\ g[n] = f[n]
        BY <3>1, <4>1
      <4> QED BY <4>1, <4>2
    <3>2. CASE i # n + 1
      <4>1. /\ i \in 0..n /\ i \in 0..n + 1
            /\ (i # 0 => i - 1 \in 0..n /\ i - 1 \in 0..n + 1 /\ i - 1 # n + 1)
        BY <3>2
      <4>2. g[i] = f[i] /\ (i # 0 => g[i - 1] = f[i - 1])
        BY <3>2, <4>1
      <4>3. f[i] = IF i = 0 THEN WholeInit ELSE turn(s, f[i - 1])
        BY <4>1
      <4> QED BY <4>2, <4>3
    <3> QED BY <3>1, <3>2
  <2>2. g = Part(n + 1, g)
    BY <2>1
  <2> QED BY <2>2
<1> HIDE DEF T
<1>3. Nat \subseteq T
  BY <1>1, <1>2, SetInduction
<1>4. Len(s) + 1 \in Nat
  BY LenProperties
<1>5. Len(s) + 1 \in T
  BY <1>3, <1>4
<1>6. PICK f : f = Part(Len(s) + 1, f)
  BY <1>5 DEF T
<1>7. f = TurnTable(s, f)
  BY <1>6 DEF TurnTable
<1> QED BY <1>7 DEF TurnsOf

LEMMA TurnsProperties ==
    ASSUME NEW S, NEW s \in Seq(S)
    PROVE  /\ TurnsOf(s)[0] = WholeInit
           /\ \A n \in 0..Len(s) : TurnsOf(s)[n + 1] = turn(s, TurnsOf(s)[n])
           /\ parseWhole(s) = TurnsOf(s)[Len(s) + 1]
<1>1. Len(s) \in Nat
  BY LenProperties
<1>2. PICK f : f = TurnsOf(s) /\ f = TurnTable(s, f)
  BY TurnsExist
<1>3. ASSUME NEW n \in 0..Len(s) + 1 PROVE f[n] = IF n = 0 THEN WholeInit ELSE turn(s, f[n - 1])
  BY <1>2 DEF TurnTable
<1>4. f[0] = WholeInit
  BY <1>1, <1>3
<1>5. ASSUME NEW n \in 0..Len(s) PROVE f[n + 1] = turn(s, f[n])
  <2>1. n + 1 \in 0..Len(s) + 1 /\ n + 1 # 0 /\ n + 1 - 1 = n
    BY <1>1
  <2> QED BY <1>3, <2>1
<1>6. parseWhole(s) = TurnsOf(s)[Len(s) + 1]
  BY DEF parseWhole, TurnsOf, TurnTable
<1> QED BY <1>2, <1>4, <1>5, <1>6

Message == [line : Seq(Symbol), body : Seq(Symbol)]

\* What the reference may have got so far of the stream s.
Config(s) == [at : 0..Len(s), part : {"request", "headers"}, line : Seq(Symbol),
              from : 0..Len(s), headers : Seq(Seq(Symbol)), requests : Seq(Message),
              end : {"none", "more", "error"}]

\* A turn either stops with the requests that there are, or takes something and
\* has one request more at most.
Goes(s, c, d) ==
    /\ d \in Config(s) /\ d.from <= d.at
    /\ \/ d.end # "none" /\ d.requests = c.requests
       \/ /\ d.end = "none" /\ d.at > c.at
          /\ d.requests = c.requests \/ \E m \in Message : d.requests = Append(c.requests, m)

LEMMA LineTyped ==
    ASSUME NEW S, NEW s \in Seq(S), found(s) PROVE lineOf(s) \in Seq(S)
<1>1. PICK p : p = position(s)
  OBVIOUS
<1>2. p \in Nat /\ p + 2 <= Len(s) /\ Len(s) \in Nat
  BY <1>1, PositionProperties, LenProperties
<1>3. 1 \in Nat /\ 1 <= 1 /\ 1 <= p + 1 /\ p <= Len(s)
  BY <1>2
<1> QED BY <1>1, <1>2, <1>3, WindowProperties DEF lineOf

\* The length that the headers give.
LEMMA LengthInNat ==
    ASSUME NEW S, NEW headers \in Seq(S) PROVE lengthIn(headers) \in Nat
<1>1. CASE lengthsIn(headers) = {}
  BY <1>1 DEF lengthIn
<1>2. CASE lengthsIn(headers) # {}
  <2>1. Len(headers) \in Nat /\ DOMAIN headers = 1..Len(headers)
    BY LenProperties
  <2>2. lengthsIn(headers) \in SUBSET (0..Len(headers))
    BY <2>1 DEF lengthsIn
  <2>3. Max(lengthsIn(headers)) \in lengthsIn(headers)
    BY <1>2, <2>1, <2>2, MaxProperties
  <2>4. firstOf(headers[Max(lengthsIn(headers))]) \in DOMAIN Lengths
    BY <2>3 DEF lengthsIn
  <2> QED BY <1>2, <2>4, ParserAssumption DEF lengthIn
<1> QED BY <1>1, <1>2

LEMMA StopGoes ==
    ASSUME NEW s \in Seq(Symbol), NEW c \in Config(s), c.from <= c.at,
           NEW end \in {"more", "error"}
    PROVE  Goes(s, c, Stop(c, end)) /\ Stop(c, end).end = end
BY DEF Goes, Stop, Config

\* A whole line at c.at is inside the stream.
LEMMA LineInside ==
    ASSUME NEW s \in Seq(Symbol), NEW at \in 0..Len(s), found(erase(s, at))
    PROVE  /\ position(erase(s, at)) \in Nat /\ at + position(erase(s, at)) + 2 \in 0..Len(s)
           /\ lineOf(erase(s, at)) \in Seq(Symbol)
<1>1. PICK rest : rest = erase(s, at)
  OBVIOUS
<1>2. rest \in Seq(Symbol) /\ Len(rest) = Len(s) - at /\ Len(s) \in Nat
  BY <1>1, EraseProperties, LenProperties
<1>3. position(rest) \in Nat /\ position(rest) + 2 <= Len(rest) /\ lineOf(rest) \in Seq(Symbol)
  BY <1>1, <1>2, PositionProperties, LineTyped
<1>4. at + position(rest) + 2 \in 0..Len(s)
  BY <1>2, <1>3
<1> QED BY <1>1, <1>3, <1>4

LEMMA RequestLineGoes ==
    ASSUME NEW s \in Seq(Symbol), NEW c \in Config(s), c.from <= c.at, c.end = "none"
    PROVE  Goes(s, c, takeRequestLine(s, c))
<1>1. PICK rest : rest = erase(s, c.at)
  OBVIOUS
<1>2. c.at \in 0..Len(s) /\ Len(s) \in Nat
  BY LenProperties DEF Config
<1>3. CASE \E end \in {"more", "error"} : takeRequestLine(s, c) = Stop(c, end)
  BY <1>3, StopGoes
<1>4. CASE found(rest) /\ ~(position(rest) > MaxRequestLine \/ ~requestLineOk(lineOf(rest)))
  <2>1. PICK p, line, a : p = position(rest) /\ line = lineOf(rest) /\ a = c.at + position(rest) + 2
    OBVIOUS
  <2>2. p \in Nat /\ a \in 0..Len(s) /\ a = c.at + p + 2 /\ line \in Seq(Symbol)
    BY <1>1, <1>2, <1>4, <2>1, LineInside
  <2>3. takeRequestLine(s, c) = [c EXCEPT !.at = a, !.from = a, !.part = "headers",
                                          !.line = line, !.headers = <<>>]
    BY <1>1, <1>4, <2>1 DEF takeRequestLine
  <2>4. <<>> \in Seq(Seq(Symbol)) /\ a > c.at
    BY <1>2, <2>2, EmptySeq
  <2>5. PICK d : d = takeRequestLine(s, c)
    OBVIOUS
  <2>6. d.at = a /\ d.requests = c.requests /\ d.end = "none" /\ d.from = a
    BY <2>3, <2>5 DEF Config
  <2>7. d \in Config(s)
    BY <2>2, <2>3, <2>4, <2>5 DEF Config
  <2> QED BY <2>2, <2>4, <2>5, <2>6, <2>7 DEF Goes
<1> QED BY <1>1, <1>3, <1>4 DEF takeRequestLine

LEMMA BodyGoes ==
    ASSUME NEW s \in Seq(Symbol), NEW c \in Config(s), c.from <= c.at, c.end = "none"
    PROVE  Goes(s, c, takeBody(s, c))
<1>1. PICK len : len = lengthIn(c.headers)
  OBVIOUS
<1>2. c.at \in 0..Len(s) /\ Len(s) \in Nat /\ len \in Nat
  BY <1>1, LenProperties, LengthInNat DEF Config
<1>3. CASE \E end \in {"more", "error"} : takeBody(s, c) = Stop(c, end)
  BY <1>3, StopGoes
<1>4. CASE ~(len > MaxBody \/ chunkedIn(c.headers)) /\ ~(c.at + 2 + len > Len(s))
  <2>1. PICK taken, a, m : /\ taken = SubSeq(s, c.at + 3, c.at + 2 + len)
                          /\ a = c.at + 2 + len /\ m = [line |-> c.line, body |-> taken]
    OBVIOUS
  <2>2. a \in 0..Len(s) /\ a > c.at
    BY <1>2, <1>4, <2>1
  <2>3. taken \in Seq(Symbol)
    <3>1. PICK lo, hi : lo = c.at + 3 /\ hi = c.at + 2 + len
      OBVIOUS
    <3>2. lo \in Nat /\ hi \in Nat /\ 1 <= lo /\ lo <= hi + 1 /\ hi <= Len(s)
      BY <1>2, <1>4, <3>1
    <3> QED BY <2>1, <3>1, <3>2, WindowProperties
  <2>4. m \in Message /\ Append(c.requests, m) \in Seq(Message)
    BY <2>1, <2>3, AppendProperties DEF Config, Message
  <2>5. takeBody(s, c) = [c EXCEPT !.at = a, !.part = "request",
                                   !.requests = Append(c.requests, m)]
    BY <1>1, <1>4, <2>1 DEF takeBody
  <2>6. PICK d : d = [c EXCEPT !.at = a, !.part = "request",
                               !.requests = Append(c.requests, m)]
    OBVIOUS
  <2>7. d.at = a /\ d.requests = Append(c.requests, m) /\ d.end = "none" /\ d.from = c.from
    BY <2>6 DEF Config
  <2>8. d \in Config(s)
    BY <2>2, <2>4, <2>6 DEF Config
  <2>9. d.from <= d.at /\ d.at > c.at
    BY <1>2, <2>2, <2>7 DEF Config
  <2> QED BY <2>4, <2>5, <2>6, <2>7, <2>8, <2>9 DEF Goes
<1> QED BY <1>1, <1>3, <1>4 DEF takeBody

LEMMA HeaderGoes ==
    ASSUME NEW s \in Seq(Symbol), NEW c \in Config(s), c.from <= c.at, c.end = "none"
    PROVE  Goes(s, c, takeHeader(s, c))
<1>1. PICK rest : rest = erase(s, c.at)
  OBVIOUS
<1>2. c.at \in 0..Len(s) /\ Len(s) \in Nat
  BY LenProperties DEF Config
<1>3. CASE \E end \in {"more", "error"} : takeHeader(s, c) = Stop(c, end)
  BY <1>3, StopGoes
<1>4. CASE takeHeader(s, c) = takeBody(s, c)
  BY <1>4, BodyGoes
<1>5. CASE /\ found(rest) /\ position(rest) # 0
           /\ takeHeader(s, c) = [c EXCEPT !.at = c.at + position(rest) + 2,
                                           !.headers = Append(c.headers, lineOf(rest))]
  <2>1. PICK p, line, a : p = position(rest) /\ line = lineOf(rest) /\ a = c.at + position(rest) + 2
    OBVIOUS
  <2>2. p \in Nat /\ a \in 0..Len(s) /\ a = c.at + p + 2 /\ line \in Seq(Symbol)
    BY <1>1, <1>2, <1>5, <2>1, LineInside
  <2>3. Append(c.headers, line) \in Seq(Seq(Symbol)) /\ a > c.at
    BY <1>2, <2>2, AppendProperties DEF Config
  <2>4. PICK d : d = [c EXCEPT !.at = a, !.headers = Append(c.headers, line)]
    OBVIOUS
  <2>5. /\ d.at = a /\ d.headers = Append(c.headers, line) /\ d.end = "none"
        /\ d.from = c.from /\ d.requests = c.requests
    BY <2>4 DEF Config
  <2>6. d \in Config(s)
    BY <2>2, <2>3, <2>4 DEF Config
  <2>7. d.from <= d.at /\ d.at > c.at
    BY <1>2, <2>2, <2>5 DEF Config
  <2> QED BY <1>5, <2>1, <2>4, <2>5, <2>6, <2>7 DEF Goes
<1> QED BY <1>1, <1>3, <1>4, <1>5 DEF takeHeader

LEMMA TurnGoes ==
    ASSUME NEW s \in Seq(Symbol), NEW c \in Config(s), c.from <= c.at
    PROVE  IF c.end = "none" THEN Goes(s, c, turn(s, c)) ELSE turn(s, c) = c
BY RequestLineGoes, HeaderGoes DEF turn

-----------------------------------------------------------------------------
\* r begins with q.
Extends(q, r) == Len(q) <= Len(r) /\ \A i \in 1..Len(q) : r[i] = q[i]

\* A configuration that has not stopped has taken one symbol per turn at least.
LEMMA TurnsTyped ==
    ASSUME NEW s \in Seq(Symbol)
    PROVE  \A n \in 0..Len(s) + 1 :
              /\ TurnsOf(s)[n] \in Config(s) /\ TurnsOf(s)[n].from <= TurnsOf(s)[n].at
              /\ TurnsOf(s)[n].end = "none" => TurnsOf(s)[n].at >= n
<1> PICK m : m = TurnsOf(s)
  OBVIOUS
<1> DEFINE T == {n \in Nat : n <= Len(s) + 1 =>
                    /\ m[n] \in Config(s) /\ m[n].from <= m[n].at
                    /\ m[n].end = "none" => m[n].at >= n}
<1>1. Len(s) \in Nat /\ m[0] = WholeInit /\ \A n \in 0..Len(s) : m[n + 1] = turn(s, m[n])
  BY LenProperties, TurnsProperties
<1>2. 0 \in T
  <2>1. <<>> \in Seq(Symbol) /\ <<>> \in Seq(Seq(Symbol)) /\ <<>> \in Seq(Message)
    BY EmptySeq
  <2>2. WholeInit \in Config(s) /\ WholeInit.from <= WholeInit.at /\ WholeInit.at >= 0
    BY <1>1, <2>1 DEF WholeInit, Config
  <2> QED BY <1>1, <2>2
<1>3. ASSUME NEW n \in Nat, n \in T PROVE n + 1 \in T
  <2> SUFFICES ASSUME n + 1 <= Len(s) + 1
               PROVE  /\ m[n + 1] \in Config(s) /\ m[n + 1].from <= m[n + 1].at
                      /\ m[n + 1].end = "none" => m[n + 1].at >= n + 1
    OBVIOUS
  <2>1. n \in 0..Len(s) /\ n <= Len(s) + 1
    BY <1>1
  <2>2. PICK c, d : c = m[n] /\ d = m[n + 1]
    OBVIOUS
  <2>3. d = turn(s, c) /\ c \in Config(s) /\ c.from <= c.at /\ (c.end = "none" => c.at >= n)
    BY <1>1, <1>3, <2>1, <2>2
  <2>4. CASE c.end = "none"
    <3>1. Goes(s, c, d)
      BY <2>3, <2>4, TurnGoes
    <3>2. d \in Config(s) /\ d.from <= d.at /\ (d.end = "none" => d.at > c.at)
      BY <3>1 DEF Goes
    <3>3. d.at \in Nat /\ c.at \in Nat
      BY <1>1, <2>3, <3>2 DEF Config
    <3> QED BY <2>2, <2>3, <2>4, <3>2, <3>3
  <2>5. CASE c.end # "none"
    BY <2>2, <2>3, <2>5, TurnGoes
  <2> QED BY <2>4, <2>5
<1> HIDE DEF T
<1>4. Nat \subseteq T
  BY <1>2, <1>3, SetInduction
<1>5. \A n \in 0..Len(s) + 1 : n \in Nat /\ n <= Len(s) + 1
  BY <1>1
<1> QED BY <1>4, <1>5 DEF T

\* The requests of a turn are the first ones of the whole, and all of them once
\* it has stopped.
LEMMA TurnsGrow ==
    ASSUME NEW s \in Seq(Symbol), NEW k \in 0..Len(s) + 1, NEW c, c = TurnsOf(s)[k]
    PROVE  /\ Extends(c.requests, parseWhole(s).requests)
           /\ c.end # "none" => parseWhole(s) = c
<1> PICK m : m = TurnsOf(s)
  OBVIOUS
<1> DEFINE T == {n \in Nat : k + n <= Len(s) + 1 =>
                    /\ Extends(c.requests, m[k + n].requests)
                    /\ c.end # "none" => m[k + n] = c}
<1>1. /\ Len(s) \in Nat /\ k \in Nat /\ k <= Len(s) + 1 /\ c = m[k]
      /\ \A n \in 0..Len(s) : m[n + 1] = turn(s, m[n])
      /\ parseWhole(s) = m[Len(s) + 1]
  BY LenProperties, TurnsProperties
<1>2. 0 \in T
  <2>1. c.requests \in Seq(Message)
    BY <1>1, TurnsTyped DEF Config
  <2>2. Extends(c.requests, c.requests)
    BY <2>1, LenProperties DEF Extends
  <2>3. k + 0 = k
    BY <1>1
  <2> QED BY <1>1, <2>2, <2>3
<1>3. ASSUME NEW n \in Nat, n \in T PROVE n + 1 \in T
  <2> SUFFICES ASSUME k + (n + 1) <= Len(s) + 1
               PROVE  /\ Extends(c.requests, m[k + (n + 1)].requests)
                      /\ c.end # "none" => m[k + (n + 1)] = c
    OBVIOUS
  <2>1. /\ k + n \in 0..Len(s) /\ k + n \in 0..Len(s) + 1 /\ k + n <= Len(s) + 1
        /\ k + (n + 1) = k + n + 1
    BY <1>1
  <2>2. PICK a, b : a = m[k + n] /\ b = m[k + (n + 1)]
    OBVIOUS
  <2>3. /\ b = turn(s, a) /\ Extends(c.requests, a.requests) /\ (c.end # "none" => a = c)
        /\ a \in Config(s) /\ a.from <= a.at
    BY <1>1, <1>3, <2>1, <2>2, TurnsTyped
  <2>4. CASE a.end # "none"
    BY <2>2, <2>3, <2>4, TurnGoes
  <2>5. CASE a.end = "none"
    <3>1. Goes(s, a, b)
      BY <2>3, <2>5, TurnGoes
    <3>2. b.requests = a.requests \/ \E x \in Message : b.requests = Append(a.requests, x)
      BY <3>1 DEF Goes
    <3>3. CASE b.requests = a.requests
      BY <2>2, <2>3, <2>5, <3>3
    <3>4. CASE \E x \in Message : b.requests = Append(a.requests, x)
      <4>1. PICK x \in Message : b.requests = Append(a.requests, x)
        BY <3>4
      <4>2. PICK p, q, r : p = c.requests /\ q = a.requests /\ r = b.requests
        OBVIOUS
      <4>3. q \in Seq(Message) /\ p \in Seq(Message)
        BY <1>1, <2>3, <4>2, TurnsTyped DEF Config
      <4>4. /\ Len(q) \in Nat /\ Len(p) \in Nat /\ Len(r) = Len(q) + 1
            /\ \A i \in 1..Len(q) : r[i] = q[i]
        BY <4>1, <4>2, <4>3, LenProperties, AppendProperties
      <4>5. Len(p) <= Len(q) /\ \A i \in 1..Len(p) : q[i] = p[i]
        BY <2>3, <4>2 DEF Extends
      <4>6. Extends(p, r)
        BY <4>4, <4>5 DEF Extends
      <4> QED BY <2>2, <2>3, <2>5, <4>2, <4>6
    <3> QED BY <3>2, <3>3, <3>4
  <2> QED BY <2>4, <2>5
<1> HIDE DEF T
<1>4. Nat \subseteq T
  BY <1>2, <1>3, SetInduction
<1>5. Len(s) + 1 - k \in Nat /\ k + (Len(s) + 1 - k) = Len(s) + 1
  BY <1>1
<1>6. /\ Extends(c.requests, m[k + (Len(s) + 1 - k)].requests)
      /\ c.end # "none" => m[k + (Len(s) + 1 - k)] = c
  BY <1>1, <1>4, <1>5 DEF T
<1> QED BY <1>1, <1>5, <1>6

\* What next() knows of the headers is what the reference's headers say.
HeadersMatch(c) ==
    /\ c.part = "headers" /\ cur.line = c.line /\ cur.bytes = c.at - c.from
    /\ cur.count = Len(c.headers) /\ Len(c.headers) <= MaxHeaderCount
    /\ (cur.chunked <=> chunkedIn(c.headers))
    /\ cur.length = IF lengthsIn(c.headers) = {} THEN NoLength ELSE lengthIn(c.headers)

\* The parser is where the reference with c is; in the body it has taken the blank
\* line already, that the reference takes together with the body.
Where(c) ==
    \/ state = "requestLine" /\ c.part = "request" /\ c.at = fed - Len(buffer)
    \/ state = "headers" /\ HeadersMatch(c) /\ c.at = fed - Len(buffer)
    \/ /\ state = "body" /\ HeadersMatch(c) /\ c.at + 2 = fed - Len(buffer)
       /\ found(erase(stream, c.at)) /\ position(erase(stream, c.at)) = 0
       /\ lengthIn(c.headers) <= MaxBody /\ ~chunkedIn(c.headers)
       /\ cur.bodyLength = lengthIn(c.headers)

Matches(c) == c.end = "none" /\ c.requests = accepted /\ (result # "error" => Where(c))

Progress == [line : Seq(Symbol), length : Nat \cup {NoLength}, chunked : BOOLEAN,
             bytes : Int, count : Nat, bodyLength : Nat]

ParsedIInv ==
    /\ ParserIInv /\ stream \in Streams /\ cur \in Progress
    /\ ErrorsOfStream
    /\ \E k \in 0..Len(stream) : Matches(TurnsOf(stream)[k])

\* What a turn of next() does to a parser that matches c, where d is what the
\* reference does next.
Outcome(c, d) ==
    /\ \/ Matches(c)' /\ (result' = "error" => d.end = "error" \/ AtTheLimit')
       \/ Matches(d)' /\ result' # "error"
    /\ result' = "needMoreData" /\ fed = Len(stream) => d.end = "more"

\* What a header line says of the body.
LEMMA LengthsOfAppend ==
    ASSUME NEW hs \in Seq(Seq(Symbol)), NEW line \in Seq(Symbol), NEW gs, gs = Append(hs, line)
    PROVE  /\ firstOf(line) \in DOMAIN Lengths =>
                 lengthsIn(gs) # {} /\ lengthIn(gs) = Lengths[firstOf(line)]
           /\ firstOf(line) \notin DOMAIN Lengths =>
                 lengthsIn(gs) = lengthsIn(hs) /\ lengthIn(gs) = lengthIn(hs)
           /\ chunkedIn(gs) <=> chunkedIn(hs) \/ firstOf(line) = "t"
<1>1. PICK n : n = Len(hs)
  OBVIOUS
<1>2. /\ n \in Nat /\ DOMAIN hs = 1..n /\ gs \in Seq(Seq(Symbol)) /\ Len(gs) = n + 1
      /\ \A i \in 1..n : gs[i] = hs[i] /\ gs[n + 1] = line
  BY <1>1, LenProperties, AppendProperties
<1>3. DOMAIN gs = 1..n + 1 /\ gs[n + 1] = line
  BY <1>1, <1>2, LenProperties, AppendProperties
<1>4. /\ DOMAIN gs = DOMAIN hs \cup {n + 1} /\ n + 1 \notin DOMAIN hs
      /\ \A i \in DOMAIN hs : gs[i] = hs[i]
  BY <1>2, <1>3
<1>5. chunkedIn(gs) <=> chunkedIn(hs) \/ firstOf(line) = "t"
  BY <1>3, <1>4 DEF chunkedIn
<1>6. ASSUME firstOf(line) \in DOMAIN Lengths
      PROVE  lengthsIn(gs) # {} /\ lengthIn(gs) = Lengths[firstOf(line)]
  <2>1. n + 1 \in lengthsIn(gs) /\ lengthsIn(gs) \in SUBSET (0..n + 1)
    BY <1>2, <1>3, <1>6 DEF lengthsIn
  <2>2. PICK i : i = Max(lengthsIn(gs))
    OBVIOUS
  <2>3. i \in lengthsIn(gs) /\ i >= n + 1
    <3>1. n + 1 \in Nat /\ lengthsIn(gs) # {}
      BY <1>2, <2>1
    <3> QED BY <2>1, <2>2, <3>1, MaxProperties
  <2>4. i = n + 1
    BY <1>2, <2>1, <2>3
  <2> QED BY <1>3, <2>1, <2>2, <2>4 DEF lengthIn
<1>7. ASSUME firstOf(line) \notin DOMAIN Lengths
      PROVE  lengthsIn(gs) = lengthsIn(hs) /\ lengthIn(gs) = lengthIn(hs)
  <2>1. lengthsIn(gs) = lengthsIn(hs)
    BY <1>3, <1>4, <1>7 DEF lengthsIn
  <2>2. CASE lengthsIn(hs) = {}
    BY <2>1, <2>2 DEF lengthIn
  <2>3. CASE lengthsIn(hs) # {}
    <3>1. lengthsIn(hs) \in SUBSET (0..n)
      BY <1>2 DEF lengthsIn
    <3>2. Max(lengthsIn(hs)) \in lengthsIn(hs)
      BY <1>2, <2>3, <3>1, MaxProperties
    <3>3. Max(lengthsIn(hs)) \in DOMAIN hs
      BY <3>2 DEF lengthsIn
    <3>4. gs[Max(lengthsIn(hs))] = hs[Max(lengthsIn(hs))]
      BY <1>4, <3>3
    <3> QED BY <2>1, <3>4 DEF lengthIn
  <2> QED BY <2>1, <2>2, <2>3
<1> QED BY <1>5, <1>6, <1>7

LEMMA EmptyHeaders == lengthsIn(<<>>) = {} /\ ~chunkedIn(<<>>)
BY DEF lengthsIn, chunkedIn

\* What is buffered is the beginning of what is left of the stream.
LEMMA BufferBegins ==
    ASSUME ParserIInv, NEW at, at = fed - Len(buffer)
    PROVE  /\ at \in 0..Len(stream) /\ erase(stream, at) \in Seq(Symbol)
           /\ Len(erase(stream, at)) = Len(stream) - at
           /\ Begins(buffer, erase(stream, at))
           /\ fed = Len(stream) => erase(stream, at) = buffer
<1>1. /\ stream \in Seq(Symbol) /\ buffer \in Seq(Symbol) /\ fed \in Nat
      /\ Len(buffer) \in Nat /\ Len(stream) \in Nat /\ fed <= Len(stream) /\ Len(buffer) <= fed
      /\ \A i \in 1..Len(buffer) : buffer[i] = stream[at + i]
  BY LenProperties DEF ParserIInv, BufferIsTail
<1>2. at \in 0..Len(stream)
  BY <1>1
<1>3. PICK rest : rest = erase(stream, at)
  OBVIOUS
<1>4. /\ rest \in Seq(Symbol) /\ Len(rest) = Len(stream) - at
      /\ \A i \in 1..Len(stream) - at : rest[i] = stream[at + i]
  <2>1. stream \in Seq(Symbol) /\ at \in 0..Len(stream)
    BY <1>1, <1>2
  <2> QED BY <1>3, <2>1, EraseProperties
<1>5. Len(buffer) <= Len(rest) /\ \A i \in 1..Len(buffer) : i \in 1..Len(stream) - at
  BY <1>1, <1>4
<1>6. Begins(buffer, rest)
  BY <1>1, <1>4, <1>5 DEF Begins
<1>7. ASSUME fed = Len(stream) PROVE rest = buffer
  <2>1. Len(rest) = Len(buffer)
    BY <1>1, <1>4, <1>7
  <2> QED BY <1>1, <1>4, <1>6, <2>1, SeqEqual DEF Begins
<1> QED BY <1>2, <1>3, <1>4, <1>6, <1>7

\* What is left of the buffer when n of it are taken.
LEMMA TakenFromBuffer ==
    ASSUME ParserIInv, NEW n \in 0..Len(buffer), buffer' = erase(buffer, n), fed' = fed
    PROVE  fed' - Len(buffer') = fed - Len(buffer) + n
<1>1. buffer \in Seq(Symbol) /\ fed \in Nat /\ Len(buffer) \in Nat
  BY LenProperties DEF ParserIInv
<1>2. Len(buffer') = Len(buffer) - n
  BY <1>1, EraseProperties
<1> QED BY <1>1, <1>2

LEMMA ReturnMatches ==
    ASSUME NEW c, Matches(c), result = "running", NEW r, Return(r)
    PROVE  Matches(c)' /\ result' = r /\ (AtTheLimit' <=> AtTheLimit)
BY DEF Matches, Where, HeadersMatch, Return, AtTheLimit

LEMMA RequestLineMatches ==
    ASSUME ParsedIInv, RequestLine, NEW c \in Config(stream), c.from <= c.at, Matches(c),
           NEW d, d = turn(stream, c)
    PROVE  Outcome(c, d)
<1>1. /\ state = "requestLine" /\ result = "running" /\ c.end = "none" /\ c.part = "request"
      /\ c.at = fed - Len(buffer) /\ c.requests = accepted
  BY DEF RequestLine, Matches, Where
<1>2. PICK rest : rest = erase(stream, c.at)
  OBVIOUS
<1>3. /\ ParserIInv /\ stream \in Seq(Symbol) /\ buffer \in Seq(Symbol) /\ fed \in Nat
      /\ Len(buffer) \in Nat /\ Len(stream) \in Nat /\ MaxRequestLine \in Nat
  BY LenProperties, ParserAssumption DEF ParsedIInv, ParserIInv
<1>4. /\ c.at \in 0..Len(stream) /\ rest \in Seq(Symbol) /\ Len(rest) = Len(stream) - c.at
      /\ Begins(buffer, rest) /\ (fed = Len(stream) => rest = buffer)
  BY <1>1, <1>2, <1>3, BufferBegins
<1>5. d = takeRequestLine(stream, c)
  BY <1>1 DEF turn
<1>6. CASE ~found(buffer) /\ Return(IF tooLong(MaxRequestLine) THEN "error" ELSE "needMoreData")
  <2>1. /\ Matches(c)' /\ (AtTheLimit' <=> AtTheLimit)
        /\ result' = IF tooLong(MaxRequestLine) THEN "error" ELSE "needMoreData"
    BY <1>1, <1>6, ReturnMatches
  <2>2. ASSUME tooLong(MaxRequestLine), ~AtTheLimit PROVE d.end = "error"
    <3>1. Len(buffer) > MaxRequestLine
      BY <2>2 DEF tooLong
    <3>2. Len(buffer) = MaxRequestLine + 1 => buffer[Len(buffer)] # "CR"
      BY <1>1, <2>2 DEF AtTheLimit
    <3>3. CASE found(rest)
      <4>1. position(rest) \in Nat
        BY <1>4, <3>3, PositionProperties
      <4>2. /\ position(rest) + 1 >= Len(buffer)
            /\ position(rest) + 1 = Len(buffer) => buffer[Len(buffer)] = "CR"
        BY <1>3, <1>4, <1>6, <3>3, NoLineInBeginning
      <4>3. position(rest) > MaxRequestLine
        BY <1>3, <3>1, <3>2, <4>1, <4>2
      <4> QED BY <1>2, <1>5, <3>3, <4>3 DEF takeRequestLine, Stop, Config
    <3>4. CASE ~found(rest)
      <4>1. Len(rest) \in Nat /\ Len(buffer) <= Len(rest)
        BY <1>4, LenProperties DEF Begins
      <4>2. ~(Len(rest) <= MaxRequestLine)
        BY <1>3, <3>1, <4>1
      <4>3. ASSUME Len(rest) = MaxRequestLine + 1, rest[Len(rest)] = "CR" PROVE FALSE
        <5>1. Len(buffer) = Len(rest) /\ Len(buffer) \in 1..Len(buffer)
          BY <1>3, <3>1, <4>1, <4>3
        <5>2. buffer[Len(buffer)] = rest[Len(rest)]
          BY <1>4, <5>1 DEF Begins
        <5> QED BY <3>2, <4>3, <5>1, <5>2
      <4> QED BY <1>2, <1>5, <3>4, <4>2, <4>3 DEF takeRequestLine, Stop, Config
    <3> QED BY <3>3, <3>4
  <2>3. ASSUME ~tooLong(MaxRequestLine), fed = Len(stream) PROVE d.end = "more"
    <3>1. rest = buffer /\ ~found(rest) /\ Len(rest) <= MaxRequestLine
      BY <1>3, <1>4, <1>6, <2>3 DEF tooLong
    <3> QED BY <1>2, <1>5, <3>1 DEF takeRequestLine, Stop, Config
  <2> QED BY <2>1, <2>2, <2>3 DEF Outcome
<1>7. ASSUME found(buffer)
      PROVE  /\ found(rest) /\ position(rest) = position(buffer) /\ lineOf(rest) = lineOf(buffer)
             /\ position(buffer) \in Nat /\ position(buffer) + 2 \in 0..Len(buffer)
  <2>1. position(buffer) \in Nat /\ position(buffer) + 2 <= Len(buffer)
    BY <1>3, <1>7, PositionProperties
  <2>2. position(buffer) + 2 \in 0..Len(buffer)
    BY <1>3, <2>1
  <2> QED BY <1>3, <1>4, <1>7, <2>1, <2>2, LineOfBeginning
<1>8. CASE /\ found(buffer) /\ Return("error")
           /\ position(buffer) > MaxRequestLine \/ ~requestLineOk(lineOf(buffer))
  <2>1. Matches(c)' /\ result' = "error"
    BY <1>1, <1>8, ReturnMatches
  <2>2. d.end = "error"
    BY <1>2, <1>5, <1>7, <1>8 DEF takeRequestLine, Stop, Config
  <2> QED BY <2>1, <2>2 DEF Outcome
<1>9. CASE /\ found(buffer)
           /\ position(buffer) <= MaxRequestLine /\ requestLineOk(lineOf(buffer))
           /\ state' = "headers" /\ cur' = [Fresh EXCEPT !.line = lineOf(buffer)]
           /\ buffer' = erase(buffer, position(buffer) + 2)
           /\ UNCHANGED <<stream, fed, result, accepted>>
  <2>1. PICK p, line, a : p = position(buffer) /\ line = lineOf(buffer) /\ a = c.at + p + 2
    OBVIOUS
  <2>2. fed' - Len(buffer') = a
    <3>1. fed' - Len(buffer') = fed - Len(buffer) + (p + 2)
      BY <1>3, <1>7, <1>9, <2>1, TakenFromBuffer
    <3> QED BY <1>1, <1>3, <1>7, <1>9, <2>1, <3>1
  <2>3. d = [c EXCEPT !.at = a, !.from = a, !.part = "headers", !.line = line, !.headers = <<>>]
    <3>1. ~(position(rest) > MaxRequestLine)
      BY <1>3, <1>7, <1>9
    <3> QED BY <1>2, <1>5, <1>7, <1>9, <2>1, <3>1 DEF takeRequestLine
  <2>4. /\ d.at = a /\ d.from = a /\ d.part = "headers" /\ d.line = line /\ d.headers = <<>>
        /\ d.requests = c.requests /\ d.end = c.end
    BY <2>3 DEF Config
  <2>5. /\ cur'.line = line /\ cur'.length = NoLength /\ cur'.chunked = FALSE
        /\ cur'.bytes = 0 /\ cur'.count = 0
    BY <1>9, <2>1 DEF Fresh
  <2>6. a - a = 0 /\ Len(<<>>) = 0 /\ 0 <= MaxHeaderCount
    BY <1>1, <1>3, <1>7, <1>9, <2>1, ParserAssumption
  <2>7. HeadersMatch(d)'
    BY <2>4, <2>5, <2>6, EmptyHeaders DEF HeadersMatch
  <2>8. Matches(d)' /\ result' = "running"
    BY <1>1, <1>9, <2>2, <2>4, <2>7 DEF Matches, Where
  <2> QED BY <2>8 DEF Outcome
<1> QED BY <1>6, <1>8, <1>9 DEF RequestLine, NoLine

\* What the next line in the buffer is to the reference.
LEMMA LineInRest ==
    ASSUME ParserIInv, NEW at, at = fed - Len(buffer), NEW rest, rest = erase(stream, at),
           found(buffer)
    PROVE  /\ found(rest) /\ position(rest) = position(buffer) /\ lineOf(rest) = lineOf(buffer)
           /\ position(buffer) \in Nat /\ position(buffer) + 2 \in 0..Len(buffer)
           /\ lineOf(buffer) \in Seq(Symbol)
<1>1. /\ buffer \in Seq(Symbol) /\ Len(buffer) \in Nat
      /\ rest \in Seq(Symbol) /\ Begins(buffer, rest)
  BY BufferBegins, LenProperties DEF ParserIInv
<1>2. position(buffer) \in Nat /\ position(buffer) + 2 <= Len(buffer)
  BY <1>1, PositionProperties
<1>3. position(buffer) + 2 \in 0..Len(buffer)
  BY <1>1, <1>2
<1> QED BY <1>1, <1>2, <1>3, LineOfBeginning, LineTyped

LEMMA HeaderLineMatches ==
    ASSUME ParsedIInv, HeaderLine, NEW c \in Config(stream), c.from <= c.at, Matches(c),
           NEW d, d = turn(stream, c)
    PROVE  Outcome(c, d)
<1>1. /\ state = "headers" /\ result = "running" /\ c.end = "none" /\ c.part = "headers"
      /\ c.at = fed - Len(buffer) /\ c.requests = accepted /\ HeadersMatch(c)
  BY DEF HeaderLine, Matches, Where, HeadersMatch
<1>2. PICK rest : rest = erase(stream, c.at)
  OBVIOUS
<1>3. /\ ParserIInv /\ stream \in Seq(Symbol) /\ buffer \in Seq(Symbol) /\ fed \in Nat
      /\ Len(buffer) \in Nat /\ Len(stream) \in Nat /\ MaxHeaderBytes \in Nat \ {0}
      /\ MaxHeaderCount \in Nat
  BY LenProperties, ParserAssumption DEF ParsedIInv, ParserIInv
<1>4. /\ c.at \in 0..Len(stream) /\ rest \in Seq(Symbol) /\ Len(rest) = Len(stream) - c.at
      /\ Begins(buffer, rest) /\ (fed = Len(stream) => rest = buffer)
  BY <1>1, <1>2, <1>3, BufferBegins
<1>5. d = takeHeader(stream, c) /\ c.from \in Nat /\ c.at \in Nat
  BY <1>1, <1>3 DEF turn, Config
<1>6. CASE ~found(buffer) /\ Return(IF tooLong(MaxHeaderBytes) THEN "error" ELSE "needMoreData")
  <2>1. /\ Matches(c)' /\ result' = IF tooLong(MaxHeaderBytes) THEN "error" ELSE "needMoreData"
    BY <1>1, <1>6, ReturnMatches
  <2>2. ASSUME tooLong(MaxHeaderBytes) PROVE d.end = "error"
    <3>1. Len(buffer) > MaxHeaderBytes
      BY <2>2 DEF tooLong
    <3>2. CASE found(rest)
      <4>1. PICK p : p = position(rest)
        OBVIOUS
      <4>2. p \in Nat /\ p + 1 >= Len(buffer)
        BY <1>3, <1>4, <1>6, <3>2, <4>1, PositionProperties, NoLineInBeginning
      <4>3. p # 0 /\ c.at + p + 2 - c.from > MaxHeaderBytes
        BY <1>3, <1>5, <3>1, <4>2
      <4>4. d = Stop(c, "error")
        BY <1>2, <1>3, <1>5, <3>2, <4>1, <4>2, <4>3 DEF takeHeader
      <4> QED BY <4>4 DEF Stop, Config
    <3>3. CASE ~found(rest)
      <4>1. Len(rest) \in Nat /\ Len(buffer) <= Len(rest)
        BY <1>4, LenProperties DEF Begins
      <4>2. Len(rest) > MaxHeaderBytes
        BY <1>3, <3>1, <4>1
      <4> QED BY <1>2, <1>5, <3>3, <4>2 DEF takeHeader, Stop, Config
    <3> QED BY <3>2, <3>3
  <2>3. ASSUME ~tooLong(MaxHeaderBytes), fed = Len(stream) PROVE d.end = "more"
    <3>1. rest = buffer /\ ~found(rest) /\ ~(Len(rest) > MaxHeaderBytes)
      BY <1>3, <1>4, <1>6, <2>3 DEF tooLong
    <3> QED BY <1>2, <1>5, <3>1 DEF takeHeader, Stop, Config
  <2> QED BY <2>1, <2>2, <2>3 DEF Outcome
<1>7. PICK p, line, a, hs : /\ p = position(buffer) /\ line = lineOf(buffer)
                            /\ a = c.at + p + 2 /\ hs = c.headers
  OBVIOUS
<1>8. ASSUME found(buffer)
      PROVE  /\ found(rest) /\ position(rest) = p /\ lineOf(rest) = line
             /\ p \in Nat /\ p + 2 \in 0..Len(buffer) /\ line \in Seq(Symbol)
  BY <1>1, <1>2, <1>3, <1>7, <1>8, LineInRest
<1>9. ASSUME p \in Nat
      PROVE headerRefused(p, line) <=> \/ a - c.from > MaxHeaderBytes
                                       \/ Len(hs) = MaxHeaderCount \/ ~headerOk(line)
  <2>1. cur.bytes = c.at - c.from /\ cur.count = Len(hs) /\ Len(hs) <= MaxHeaderCount
    BY <1>1, <1>7 DEF HeadersMatch
  <2>2. Len(hs) \in Nat
    BY <1>7, LenProperties DEF Config
  <2>3. /\ a - c.from = cur.bytes + p + 2
        /\ (cur.count + 1 > MaxHeaderCount <=> Len(hs) = MaxHeaderCount)
    BY <1>3, <1>5, <1>7, <1>9, <2>1, <2>2
  <2> QED BY <2>3 DEF headerRefused
<1>10. CASE found(buffer) /\ p > 0 /\ headerRefused(p, line) /\ Return("error")
  <2>1. Matches(c)' /\ result' = "error"
    BY <1>1, <1>10, ReturnMatches
  <2>2. p # 0 /\ position(rest) # 0
    BY <1>8, <1>10
  <2>3. d.end = "error"
    BY <1>2, <1>5, <1>7, <1>8, <1>9, <1>10, <2>2 DEF takeHeader, Stop, Config
  <2> QED BY <2>1, <2>3 DEF Outcome
<1>11. CASE /\ found(buffer) /\ p > 0 /\ ~headerRefused(p, line)
            /\ LET first == firstOf(line)
               IN  cur' = [cur EXCEPT !.bytes = @ + p + 2, !.count = @ + 1,
                              !.length = IF first \in DOMAIN Lengths THEN Lengths[first] ELSE @,
                              !.chunked = @ \/ first = "t"]
            /\ buffer' = erase(buffer, p + 2)
            /\ UNCHANGED <<stream, fed, state, result, accepted>>
  <2>1. fed' - Len(buffer') = a
    <3>1. fed' - Len(buffer') = fed - Len(buffer) + (p + 2)
      BY <1>3, <1>8, <1>11, TakenFromBuffer
    <3> QED BY <1>1, <1>3, <1>7, <1>8, <1>11, <3>1
  <2>2. PICK gs : gs = Append(hs, line)
    OBVIOUS
  <2>3. d = [c EXCEPT !.at = a, !.headers = gs]
    <3>1. position(rest) # 0
      BY <1>8, <1>11
    <3> QED BY <1>2, <1>5, <1>7, <1>8, <1>9, <1>11, <2>2, <3>1 DEF takeHeader
  <2>4. /\ d.at = a /\ d.from = c.from /\ d.part = "headers" /\ d.line = c.line /\ d.headers = gs
        /\ d.requests = c.requests /\ d.end = c.end
    BY <1>1, <2>3 DEF Config
  <2>5. PICK first : first = firstOf(line)
    OBVIOUS
  <2>6. /\ cur'.line = cur.line /\ cur'.bytes = cur.bytes + p + 2 /\ cur'.count = cur.count + 1
        /\ cur'.length = IF first \in DOMAIN Lengths THEN Lengths[first] ELSE cur.length
        /\ cur'.chunked <=> cur.chunked \/ first = "t"
    BY <1>11, <2>5 DEF ParsedIInv, Progress
  <2>7. /\ hs \in Seq(Seq(Symbol)) /\ line \in Seq(Symbol) /\ Len(hs) \in Nat
        /\ Len(gs) = Len(hs) + 1
    BY <1>7, <1>8, <1>11, <2>2, LenProperties, AppendProperties DEF Config
  <2>8. /\ first \in DOMAIN Lengths => lengthsIn(gs) # {} /\ lengthIn(gs) = Lengths[first]
        /\ first \notin DOMAIN Lengths =>
              lengthsIn(gs) = lengthsIn(hs) /\ lengthIn(gs) = lengthIn(hs)
        /\ chunkedIn(gs) <=> chunkedIn(hs) \/ first = "t"
    <3>1. hs \in Seq(Seq(Symbol)) /\ line \in Seq(Symbol) /\ gs = Append(hs, line)
      BY <2>2, <2>7
    <3>2. /\ firstOf(line) \in DOMAIN Lengths =>
                lengthsIn(gs) # {} /\ lengthIn(gs) = Lengths[firstOf(line)]
          /\ firstOf(line) \notin DOMAIN Lengths =>
                lengthsIn(gs) = lengthsIn(hs) /\ lengthIn(gs) = lengthIn(hs)
          /\ chunkedIn(gs) <=> chunkedIn(hs) \/ firstOf(line) = "t"
      BY ONLY <3>1, LengthsOfAppend
    <3> QED BY <2>5, <3>2
  <2>9. cur'.length = IF lengthsIn(gs) = {} THEN NoLength ELSE lengthIn(gs)
    BY <1>1, <1>7, <2>6, <2>8 DEF HeadersMatch
  <2>10. cur'.chunked <=> chunkedIn(gs)
    BY <1>1, <1>7, <2>6, <2>8 DEF HeadersMatch
  <2>11. cur'.bytes = a - c.from
    BY <1>1, <1>5, <1>7, <1>8, <1>11, <2>6 DEF HeadersMatch
  <2>12. cur'.count = Len(gs) /\ Len(gs) <= MaxHeaderCount
    <3>1. Len(hs) # MaxHeaderCount
      BY <1>8, <1>9, <1>11
    <3> QED BY <1>1, <1>3, <1>7, <2>6, <2>7, <3>1 DEF HeadersMatch
  <2>13. cur'.line = d.line
    BY <1>1, <2>4, <2>6 DEF HeadersMatch
  <2>14. HeadersMatch(d)'
    BY <2>4, <2>9, <2>10, <2>11, <2>12, <2>13 DEF HeadersMatch
  <2>15. Matches(d)' /\ result' = "running"
    BY <1>1, <1>11, <2>1, <2>4, <2>14 DEF Matches, Where
  <2> QED BY <2>15 DEF Outcome
<1> QED BY <1>6, <1>7, <1>10, <1>11 DEF HeaderLine, NoLine

\* The blank line ends the headers: the reference stops if they are refused, and
\* otherwise takes it together with the body.
LEMMA EndOfHeadersMatches ==
    ASSUME ParsedIInv, EndOfHeaders, NEW c \in Config(stream), c.from <= c.at, Matches(c),
           NEW d, d = turn(stream, c)
    PROVE  Outcome(c, d)
<1>1. /\ state = "headers" /\ result = "running" /\ c.end = "none" /\ c.part = "headers"
      /\ c.at = fed - Len(buffer) /\ c.requests = accepted /\ HeadersMatch(c)
  BY DEF EndOfHeaders, Matches, Where, HeadersMatch
<1>2. PICK rest : rest = erase(stream, c.at)
  OBVIOUS
<1>3. /\ ParserIInv /\ stream \in Seq(Symbol) /\ fed \in Nat /\ buffer \in Seq(Symbol)
      /\ Len(buffer) \in Nat /\ c.headers \in Seq(Seq(Symbol)) /\ MaxBody \in Nat
  BY LenProperties, ParserAssumption DEF ParsedIInv, ParserIInv, Config
<1>4. found(rest) /\ position(rest) = 0 /\ 2 \in 0..Len(buffer)
  <2>1. found(buffer) /\ position(buffer) = 0
    BY DEF EndOfHeaders
  <2> QED BY <1>1, <1>2, <1>3, <2>1, LineInRest
<1>5. d = takeBody(stream, c)
  BY <1>1, <1>2, <1>4 DEF turn, takeHeader
<1>6. /\ cur.chunked <=> chunkedIn(c.headers)
      /\ cur.length = IF lengthsIn(c.headers) = {} THEN NoLength ELSE lengthIn(c.headers)
  BY <1>1 DEF HeadersMatch
<1>7. /\ lengthIn(c.headers) \in Nat /\ NoLength \notin Nat
      /\ lengthsIn(c.headers) = {} => lengthIn(c.headers) = 0
  BY <1>3, LengthInNat, ParserAssumption DEF lengthIn
<1>8. headersRefused <=> chunkedIn(c.headers) \/ lengthIn(c.headers) > MaxBody
  <2>1. CASE lengthsIn(c.headers) = {}
    BY <1>3, <1>6, <1>7, <2>1 DEF headersRefused
  <2>2. CASE lengthsIn(c.headers) # {}
    BY <1>3, <1>6, <1>7, <2>2 DEF headersRefused
  <2> QED BY <2>1, <2>2
<1>9. buffer' = erase(buffer, 2) /\ UNCHANGED <<stream, fed, accepted>>
  BY Zenon DEF EndOfHeaders
<1>10. CASE headersRefused
  <2>1. result' = "error"
    BY <1>10 DEF EndOfHeaders
  <2>2. Matches(c)'
    BY <1>1, <1>9, <2>1 DEF Matches
  <2>3. d.end = "error"
    BY <1>5, <1>8, <1>10 DEF takeBody, Stop, Config
  <2> QED BY <2>1, <2>2, <2>3 DEF Outcome
<1>11. CASE ~headersRefused
  <2>1. /\ state' = "body" /\ result' = result
        /\ cur' = [cur EXCEPT !.bodyLength = IF cur.length = NoLength THEN 0 ELSE cur.length]
    BY <1>11 DEF EndOfHeaders
  <2>2. /\ cur'.bodyLength = (IF cur.length = NoLength THEN 0 ELSE cur.length)
        /\ cur'.line = cur.line /\ cur'.bytes = cur.bytes /\ cur'.count = cur.count
        /\ cur'.length = cur.length /\ cur'.chunked = cur.chunked
    BY <2>1 DEF ParsedIInv, Progress
  <2>3. cur'.bodyLength = lengthIn(c.headers)
    BY <1>6, <1>7, <2>2
  <2>4. HeadersMatch(c)'
    BY <1>1, <2>2 DEF HeadersMatch
  <2>5. fed' - Len(buffer') = c.at + 2
    <3>1. fed' - Len(buffer') = fed - Len(buffer) + 2
      BY <1>3, <1>4, <1>9, TakenFromBuffer
    <3> QED BY <1>1, <3>1
  <2>6. lengthIn(c.headers) <= MaxBody /\ ~chunkedIn(c.headers)
    BY <1>3, <1>7, <1>8, <1>11
  <2>7. Where(c)'
    BY <1>2, <1>4, <1>9, <2>1, <2>3, <2>4, <2>5, <2>6 DEF Where
  <2> QED BY <1>1, <1>9, <2>1, <2>7 DEF Outcome, Matches
<1> QED BY <1>10, <1>11

LEMMA BodyMatches ==
    ASSUME ParsedIInv, Body, NEW c \in Config(stream), c.from <= c.at, Matches(c),
           NEW d, d = turn(stream, c)
    PROVE  Outcome(c, d)
<1>1. /\ state = "body" /\ result = "running" /\ c.end = "none" /\ c.part = "headers"
      /\ c.at + 2 = fed - Len(buffer) /\ c.requests = accepted /\ cur.line = c.line
      /\ found(erase(stream, c.at)) /\ position(erase(stream, c.at)) = 0
      /\ lengthIn(c.headers) <= MaxBody /\ ~chunkedIn(c.headers)
      /\ cur.bodyLength = lengthIn(c.headers)
  BY DEF Body, Matches, Where, HeadersMatch
<1>2. PICK len, at : len = lengthIn(c.headers) /\ at = c.at + 2
  OBVIOUS
<1>3. /\ ParserIInv /\ stream \in Seq(Symbol) /\ fed \in Nat /\ buffer \in Seq(Symbol)
      /\ Len(buffer) \in Nat /\ Len(stream) \in Nat /\ c.at \in Nat /\ MaxBody \in Nat
      /\ fed <= Len(stream) /\ len \in Nat
      /\ \A i \in 1..Len(buffer) : buffer[i] = stream[fed - Len(buffer) + i]
  <2>1. /\ ParserIInv /\ stream \in Seq(Symbol) /\ fed \in Nat /\ buffer \in Seq(Symbol)
        /\ fed <= Len(stream)
        /\ \A i \in 1..Len(buffer) : buffer[i] = stream[fed - Len(buffer) + i]
    BY DEF ParsedIInv, ParserIInv, BufferIsTail
  <2>2. Len(buffer) \in Nat /\ Len(stream) \in Nat /\ c.at \in Nat
    BY <2>1, LenProperties DEF Config
  <2>3. len \in Nat
    BY <1>2, LengthInNat DEF Config
  <2> QED BY <2>1, <2>2, <2>3, ParserAssumption
<1>4. d = takeBody(stream, c)
  BY <1>1 DEF turn, takeHeader
<1>5. ~(len > MaxBody \/ chunkedIn(c.headers))
  BY <1>1, <1>2, <1>3
<1>6. CASE Len(buffer) < len
  <2>1. Matches(c)' /\ result' = "needMoreData"
    BY <1>1, <1>2, <1>6, ReturnMatches DEF Body
  <2>2. ASSUME fed = Len(stream) PROVE d.end = "more"
    <3>1. c.at + 2 + len > Len(stream)
      BY <1>1, <1>3, <1>6, <2>2
    <3>2. d = Stop(c, "more")
      BY <1>2, <1>4, <1>5, <3>1 DEF takeBody
    <3> QED BY <3>2 DEF Stop, Config
  <2> QED BY <2>1, <2>2 DEF Outcome
<1>7. CASE ~(Len(buffer) < len)
  <2>1. /\ buffer' = erase(buffer, len) /\ state' = "requestLine" /\ result' = "complete"
        /\ accepted' = Append(accepted, [line |-> c.line, body |-> SubSeq(buffer, 1, len)])
        /\ UNCHANGED <<stream, fed>>
    BY <1>1, <1>2, <1>7 DEF Body, bodyTaken
  <2>2. len \in 0..Len(buffer) /\ ~(c.at + 2 + len > Len(stream))
    BY <1>1, <1>3, <1>7
  <2>3. PICK a : a = c.at + 2 + len
    OBVIOUS
  <2>4. fed' - Len(buffer') = a
    <3>1. fed' - Len(buffer') = fed - Len(buffer) + len
      BY <1>3, <2>1, <2>2, TakenFromBuffer
    <3> QED BY <1>1, <2>3, <3>1
  <2>5. SubSeq(stream, c.at + 3, c.at + 2 + len) = SubSeq(buffer, 1, len)
    <3>1. PICK lo, hi : lo = c.at + 3 /\ hi = c.at + 2 + len
      OBVIOUS
    <3>2. PICK t, u : t = SubSeq(stream, lo, hi) /\ u = SubSeq(buffer, 1, len)
      OBVIOUS
    <3>3. lo \in Nat /\ hi \in Nat /\ 1 <= lo /\ lo <= hi + 1 /\ hi <= Len(stream)
      BY <1>3, <2>2, <3>1
    <3>4. 1 \in Nat /\ 1 <= 1 /\ 1 <= len + 1 /\ len <= Len(buffer)
      BY <1>3, <2>2
    <3>5. /\ t \in Seq(Symbol) /\ Len(t) = hi - lo + 1
          /\ \A i \in 1..hi - lo + 1 : t[i] = stream[lo + i - 1]
      BY <1>3, <3>2, <3>3, WindowProperties
    <3>6. /\ u \in Seq(Symbol) /\ Len(u) = len - 1 + 1
          /\ \A i \in 1..len - 1 + 1 : u[i] = buffer[1 + i - 1]
      BY <1>3, <3>2, <3>4, WindowProperties
    <3>7. hi - lo + 1 = len /\ len - 1 + 1 = len
      BY <1>3, <3>1
    <3>8. ASSUME NEW i \in 1..len PROVE t[i] = u[i]
      <4>1. i \in Nat /\ i \in 1..Len(buffer) /\ 1 + i - 1 = i
        BY <1>3, <3>4
      <4>2. lo + i - 1 = c.at + 2 + i
        BY <1>3, <3>1, <4>1
      <4>3. t[i] = stream[c.at + 2 + i] /\ u[i] = buffer[i]
        BY <3>5, <3>6, <3>7, <4>1, <4>2
      <4>4. buffer[i] = stream[c.at + 2 + i]
        BY <1>1, <1>3, <4>1
      <4> QED BY <4>3, <4>4
    <3>9. Len(t) = Len(u) /\ \A i \in 1..Len(t) : t[i] = u[i]
      BY <3>5, <3>6, <3>7, <3>8
    <3>10. t = u
      BY <3>5, <3>6, <3>9, SeqEqual
    <3> QED BY <3>1, <3>2, <3>10
  <2>6. d = [c EXCEPT !.at = a, !.part = "request", !.requests = accepted']
    BY <1>1, <1>2, <1>4, <1>5, <2>1, <2>2, <2>3, <2>5 DEF takeBody
  <2>7. d.at = a /\ d.part = "request" /\ d.requests = accepted' /\ d.end = c.end
    BY <2>6 DEF Config
  <2>8. Matches(d)' /\ result' # "error"
    BY <1>1, <2>1, <2>4, <2>7 DEF Matches, Where
  <2> QED BY <2>1, <2>8 DEF Outcome
<1> QED BY <1>6, <1>7

\* A turn of next() keeps to the reference, whatever was fed when.
LEMMA TurnMatches ==
    ASSUME ParsedIInv, RequestLine \/ HeaderLine \/ EndOfHeaders \/ Body,
           NEW c \in Config(stream), c.from <= c.at, Matches(c), NEW d, d = turn(stream, c)
    PROVE  Outcome(c, d)
BY RequestLineMatches, HeaderLineMatches, EndOfHeadersMatches, BodyMatches

\* The reference when the parser matches it.
LEMMA MatchedTurn ==
    ASSUME ParsedIInv
    PROVE  \E k \in 0..Len(stream), c \in Config(stream), d \in Config(stream) :
              /\ c = TurnsOf(stream)[k] /\ c.from <= c.at /\ Matches(c) /\ c.end = "none"
              /\ d = turn(stream, c) /\ d = TurnsOf(stream)[k + 1] /\ Goes(stream, c, d)
              /\ d.end = "none" => k + 1 \in 0..Len(stream)
<1>1. stream \in Seq(Symbol) /\ Len(stream) \in Nat
  BY LenProperties DEF ParsedIInv, ParserIInv
<1>2. PICK k \in 0..Len(stream) : Matches(TurnsOf(stream)[k])
  BY DEF ParsedIInv
<1>3. PICK c, d : c = TurnsOf(stream)[k] /\ d = TurnsOf(stream)[k + 1]
  OBVIOUS
<1>4. k \in 0..Len(stream) + 1 /\ k + 1 \in 0..Len(stream) + 1
  BY <1>1
<1>5. /\ c \in Config(stream) /\ c.from <= c.at
      /\ d \in Config(stream) /\ (d.end = "none" => d.at >= k + 1)
  BY <1>1, <1>3, <1>4, TurnsTyped
<1>6. d = turn(stream, c) /\ c.end = "none" /\ Matches(c)
  BY <1>1, <1>2, <1>3, TurnsProperties DEF Matches
<1>7. Goes(stream, c, d)
  BY <1>1, <1>5, <1>6, TurnGoes
<1>8. d.end = "none" => k + 1 \in 0..Len(stream)
  <2>1. d.at \in 0..Len(stream)
    BY <1>5 DEF Config
  <2> QED BY <1>1, <1>5, <2>1
<1> QED BY <1>3, <1>5, <1>6, <1>7, <1>8

LEMMA ReferenceIsWhole ==
    ASSUME ParsedIInv PROVE Reference[stream] = parseWhole(stream)
BY DEF Reference, ParsedIInv

\* The reference stops where its last turn stops.
LEMMA StoppedIsReference ==
    ASSUME ParsedIInv, NEW k \in 0..Len(stream), NEW d, d = TurnsOf(stream)[k + 1],
           d.end # "none"
    PROVE  Reference[stream] = d
<1>1. stream \in Seq(Symbol) /\ Len(stream) \in Nat
  BY LenProperties DEF ParsedIInv, ParserIInv
<1>2. k + 1 \in 0..Len(stream) + 1
  BY <1>1
<1> QED BY <1>1, <1>2, ReferenceIsWhole, TurnsGrow

LEMMA ParsedInitIInv == ParserInit => ParsedIInv
<1> SUFFICES ASSUME ParserInit PROVE ParsedIInv
  OBVIOUS
<1>1. ParserIInv /\ stream \in Streams /\ ErrorsOfStream
  BY InitParserIInv DEF ParserInit, ErrorsOfStream
<1>2. cur \in Progress
  <2>1. <<>> \in Seq(Symbol)
    BY EmptySeq
  <2> QED BY <2>1 DEF ParserInit, Fresh, Progress
<1>3. stream \in Seq(Symbol) /\ Len(stream) \in Nat
  BY <1>1, LenProperties DEF ParserIInv
<1>4. TurnsOf(stream)[0] = WholeInit /\ 0 \in 0..Len(stream)
  BY <1>3, TurnsProperties
<1>5. Matches(WholeInit)
  <2>1. Len(<<>>) = 0 /\ 0 - 0 = 0
    BY EmptySeq
  <2>2. fed - Len(buffer) = 0
    BY <2>1 DEF ParserInit
  <2> QED BY <2>2 DEF ParserInit, WholeInit, Matches, Where
<1> QED BY <1>1, <1>2, <1>4, <1>5 DEF ParsedIInv

LEMMA feedMatches ==
    ASSUME ParsedIInv, NEW n \in 1..Len(stream), feed(n), NEW c, Matches(c)
    PROVE  Matches(c)'
<1>1. fed' - Len(buffer') = fed - Len(buffer)
  <2>1. ParserIInv /\ n \in Nat /\ fed \in Nat /\ Len(buffer) \in Nat
    <3>1. ParserIInv /\ buffer \in Seq(Symbol) /\ fed \in Nat /\ n \in Nat
      BY DEF ParsedIInv, ParserIInv
    <3> QED BY <3>1, LenProperties
  <2>2. fed' = fed + n /\ Len(buffer') = Len(buffer) + n
    BY <2>1, FeedKeepsTail
  <2> QED BY <2>1, <2>2
<1>2. UNCHANGED <<stream, state, cur, result, accepted>> /\ result # "error"
  BY DEF feed
<1> QED BY <1>1, <1>2 DEF Matches, Where, HeadersMatch

\* The record of what next() has got so far keeps its form.
LEMMA ProgressTyped ==
    ASSUME ParsedIInv, RequestLine \/ HeaderLine \/ EndOfHeaders \/ Body
    PROVE  cur' \in Progress
<1>1. buffer \in Seq(Symbol) /\ cur \in Progress /\ Len(buffer) \in Nat
  BY LenProperties DEF ParsedIInv, ParserIInv
<1>2. Fresh \in Progress
  <2>1. <<>> \in Seq(Symbol)
    BY EmptySeq
  <2> QED BY <2>1 DEF Fresh, Progress
<1>3. CASE cur' = cur \/ cur' = Fresh
  BY <1>1, <1>2, <1>3
<1>4. CASE found(buffer) /\ cur' = [Fresh EXCEPT !.line = lineOf(buffer)]
  <2>1. lineOf(buffer) \in Seq(Symbol)
    BY <1>1, <1>4, LineTyped
  <2> QED BY <1>2, <1>4, <2>1 DEF Progress
<1>5. CASE /\ found(buffer)
           /\ LET first == firstOf(lineOf(buffer))
              IN  cur' = [cur EXCEPT !.bytes = @ + position(buffer) + 2, !.count = @ + 1,
                             !.length = IF first \in DOMAIN Lengths THEN Lengths[first] ELSE @,
                             !.chunked = @ \/ first = "t"]
  <2>1. PICK first : first = firstOf(lineOf(buffer))
    OBVIOUS
  <2>2. position(buffer) \in Nat
    BY <1>1, <1>5, PositionProperties
  <2>3. PICK p, len, chunked :
           /\ p = cur.bytes + position(buffer) + 2 /\ chunked = (cur.chunked \/ first = "t")
           /\ len = IF first \in DOMAIN Lengths THEN Lengths[first] ELSE cur.length
    OBVIOUS
  <2>4. p \in Int /\ chunked \in BOOLEAN /\ len \in Nat \cup {NoLength} /\ cur.count + 1 \in Nat
    BY <1>1, <2>2, <2>3, ParserAssumption DEF Progress
  <2>5. cur' = [cur EXCEPT !.bytes = p, !.count = cur.count + 1, !.length = len,
                           !.chunked = chunked]
    BY <1>5, <2>1, <2>3
  <2> QED BY <1>1, <2>4, <2>5 DEF Progress
<1>6. CASE ~headersRefused /\
           cur' = [cur EXCEPT !.bodyLength = IF cur.length = NoLength THEN 0 ELSE cur.length]
  BY <1>1, <1>6 DEF Progress
<1> QED BY <1>3, <1>4, <1>5, <1>6
        DEF RequestLine, HeaderLine, EndOfHeaders, Body, NoLine, Return

LEMMA ParsedTurnIInv ==
    ASSUME ParsedIInv, RequestLine \/ HeaderLine \/ EndOfHeaders \/ Body
    PROVE  ParsedIInv'
<1>1. PICK k \in 0..Len(stream), c \in Config(stream), d \in Config(stream) :
         /\ c = TurnsOf(stream)[k] /\ c.from <= c.at /\ Matches(c) /\ c.end = "none"
         /\ d = turn(stream, c) /\ d = TurnsOf(stream)[k + 1] /\ Goes(stream, c, d)
         /\ d.end = "none" => k + 1 \in 0..Len(stream)
  BY MatchedTurn
<1>2. Outcome(c, d)
  BY <1>1, TurnMatches
<1>3. ParserIInv' /\ cur' \in Progress
  BY TurnKeepsIInv, ProgressTyped DEF ParsedIInv
<1>4. stream' = stream /\ stream \in Streams
  BY Zenon DEF RequestLine, HeaderLine, EndOfHeaders, Body, NoLine, Return, ParsedIInv
<1>5. CASE Matches(c)' /\ (result' = "error" => d.end = "error" \/ AtTheLimit')
  <2>1. (\E i \in 0..Len(stream) : Matches(TurnsOf(stream)[i]))'
    BY <1>1, <1>4, <1>5
  <2>2. ErrorsOfStream'
    <3> SUFFICES ASSUME result' = "error", ~AtTheLimit'
                 PROVE  /\ Reference[stream'].end = "error"
                        /\ accepted' = Reference[stream'].requests
      BY DEF ErrorsOfStream
    <3>1. d.end = "error" /\ Reference[stream] = d
      BY <1>1, <1>5, StoppedIsReference
    <3>2. d.requests = c.requests /\ accepted' = c.requests
      BY <1>1, <1>5, <3>1 DEF Goes, Matches
    <3> QED BY <1>4, <3>1, <3>2
  <2> QED BY <1>3, <1>4, <2>1, <2>2 DEF ParsedIInv
<1>6. CASE Matches(d)' /\ result' # "error"
  <2>1. d.end = "none" /\ k + 1 \in 0..Len(stream)
    BY <1>1, <1>6 DEF Matches
  <2>2. (\E i \in 0..Len(stream) : Matches(TurnsOf(stream)[i]))'
    BY <1>1, <1>4, <1>6, <2>1
  <2>3. ErrorsOfStream'
    BY <1>6 DEF ErrorsOfStream
  <2> QED BY <1>3, <1>4, <2>2, <2>3 DEF ParsedIInv
<1> QED BY <1>2, <1>5, <1>6 DEF Outcome

LEMMA ParsedNextIInv == ParsedIInv /\ [ParserNext]_parserVars => ParsedIInv'
<1> SUFFICES ASSUME ParsedIInv, [ParserNext]_parserVars PROVE ParsedIInv'
  OBVIOUS
<1>1. ParserIInv'
  BY NextParserIInv DEF ParsedIInv
<1>2. PICK k \in 0..Len(stream) : Matches(TurnsOf(stream)[k])
  BY DEF ParsedIInv
<1> PICK c : c = TurnsOf(stream)[k] /\ Matches(c)
  BY <1>2
<1>3. ASSUME stream' = stream, cur' = cur, Matches(c)', ErrorsOfStream' PROVE ParsedIInv'
  BY <1>1, <1>2, <1>3 DEF ParsedIInv
<1>4. ASSUME NEW n \in 1..Len(stream), feed(n) PROVE ParsedIInv'
  <2>1. Matches(c)'
    BY <1>2, <1>4, feedMatches
  <2>2. ErrorsOfStream'
    BY <1>4 DEF feed, ErrorsOfStream
  <2> QED BY <1>3, <1>4, <2>1, <2>2 DEF feed
<1>5. CASE next
  <2>1. Matches(c)' /\ ErrorsOfStream'
    BY <1>2, <1>5 DEF next, Return, Matches, Where, HeadersMatch, ErrorsOfStream
  <2> QED BY <1>3, <1>5, <2>1 DEF next, Return
<1>6. CASE UNCHANGED parserVars
  <2>1. Matches(c)' /\ ErrorsOfStream'
    BY <1>2, <1>6
       DEF parserVars, Matches, Where, HeadersMatch, ErrorsOfStream, AtTheLimit, ParsedIInv
  <2> QED BY <1>3, <1>6, <2>1 DEF parserVars
<1> QED BY <1>4, <1>5, <1>6, ParsedTurnIInv DEF ParserNext

LEMMA ParsedIInvImplies == ParsedIInv => ParsesLikeWhole
<1> SUFFICES ASSUME ParsedIInv PROVE RequestsOfStream /\ ErrorsOfStream
  BY DEF ParsesLikeWhole
<1>1. stream \in Seq(Symbol) /\ Len(stream) \in Nat
  BY LenProperties DEF ParsedIInv, ParserIInv
<1>2. PICK k \in 0..Len(stream) : Matches(TurnsOf(stream)[k])
  BY DEF ParsedIInv
<1> PICK c : c = TurnsOf(stream)[k] /\ Matches(c)
  BY <1>2
<1>3. k \in 0..Len(stream) + 1
  BY <1>1
<1>4. Extends(c.requests, Reference[stream].requests)
  BY <1>1, <1>2, <1>3, TurnsGrow, ReferenceIsWhole
<1>5. accepted = c.requests
  BY <1>2 DEF Matches
<1>6. RequestsOfStream
  BY <1>4, <1>5 DEF Extends, RequestsOfStream
<1> QED BY <1>6 DEF ParsedIInv

\* When next() asks for more and all was fed, the reference asks for more as well.
LEMMA AsksAtTheEnd ==
    ParsedIInv /\ [ParserNext]_parserVars =>
        (result = "running" /\ result' = "needMoreData" /\ fed = Len(stream) =>
          /\ accepted = Reference[stream].requests
          /\ Reference[stream].end = "more")
<1> SUFFICES ASSUME ParsedIInv, [ParserNext]_parserVars,
                    result = "running", result' = "needMoreData", fed = Len(stream)
             PROVE  /\ accepted = Reference[stream].requests
                    /\ Reference[stream].end = "more"
  OBVIOUS
<1>1. RequestLine \/ HeaderLine \/ EndOfHeaders \/ Body
  BY DEF ParserNext, feed, next, Return, parserVars
<1>2. PICK k \in 0..Len(stream), c \in Config(stream), d \in Config(stream) :
         /\ c = TurnsOf(stream)[k] /\ c.from <= c.at /\ Matches(c) /\ c.end = "none"
         /\ d = turn(stream, c) /\ d = TurnsOf(stream)[k + 1] /\ Goes(stream, c, d)
         /\ d.end = "none" => k + 1 \in 0..Len(stream)
  BY MatchedTurn
<1>3. d.end = "more"
  BY <1>1, <1>2, TurnMatches DEF Outcome
<1>4. Reference[stream] = d
  BY <1>2, <1>3, StoppedIsReference
<1>5. d.requests = accepted
  BY <1>2, <1>3 DEF Goes, Matches
<1> QED BY <1>3, <1>4, <1>5

\* However recv() cuts the stream, the requests returned are the ones that it
\* has, from the first on, and an error is its error (HttpRequestParser.hpp:31).
THEOREM ParsesAnyCut == ParserSpec => []ParsesLikeWhole
BY ParsedInitIInv, ParsedNextIInv, ParsedIInvImplies, PTL DEF ParserSpec

\* When all is fed and next() asks for more, every request of the stream was
\* returned (HttpRequestParser.hpp:31).
THEOREM NothingIsMissed == ParserSpec => NothingMissed
BY ParsedInitIInv, ParsedNextIInv, AsksAtTheEnd, PTL DEF ParserSpec, NothingMissed

-----------------------------------------------------------------------------
(* Router.                                                                  *)

Solid(path) == {p \in DOMAIN path : path[p] # Empty}
Rank(path, i) == Cardinality({q \in Solid(path) : q <= i})
Word(path, k) == path[CHOOSE p \in Solid(path) : Rank(path, p) = k]

LEMMA RankStep ==
    ASSUME NEW S, NEW path \in Seq(S)
    PROVE  /\ Rank(path, 0) = 0 /\ \A i \in 0..Len(path) : Rank(path, i) \in Nat
           /\ \A i \in 0..Len(path) - 1 :
                 Rank(path, i + 1) =
                    IF path[i + 1] = Empty THEN Rank(path, i) ELSE Rank(path, i) + 1
<1>1. DOMAIN path = 1..Len(path) /\ Len(path) \in Nat
  BY LenProperties
<1>2. IsFiniteSet(Solid(path))
  <2>1. IsFiniteSet(1..Len(path)) /\ Solid(path) \subseteq 1..Len(path)
    BY <1>1, FS_Interval DEF Solid
  <2> QED BY <2>1, FS_Subset
<1>3. ASSUME NEW i \in 0..Len(path)
      PROVE  IsFiniteSet({q \in Solid(path) : q <= i}) /\ Rank(path, i) \in Nat
  <2>1. IsFiniteSet({q \in Solid(path) : q <= i})
    BY <1>2, FS_Subset
  <2> QED BY <2>1, FS_CardinalityType DEF Rank
<1>4. Rank(path, 0) = 0
  <2>1. {q \in Solid(path) : q <= 0} = {}
    BY <1>1 DEF Solid
  <2> QED BY <2>1, FS_EmptySet DEF Rank
<1>5. ASSUME NEW i \in 0..Len(path) - 1
      PROVE  Rank(path, i + 1) = IF path[i + 1] = Empty THEN Rank(path, i) ELSE Rank(path, i) + 1
  <2>1. i \in 0..Len(path) /\ i + 1 \in DOMAIN path /\ i \in Nat
    BY <1>1
  <2>2. CASE path[i + 1] = Empty
    <3>1. {q \in Solid(path) : q <= i + 1} = {q \in Solid(path) : q <= i}
      BY <1>1, <2>1, <2>2 DEF Solid
    <3> QED BY <2>2, <3>1 DEF Rank
  <2>3. CASE path[i + 1] # Empty
    <3>1. i + 1 \notin {q \in Solid(path) : q <= i}
      BY <2>1
    <3>2. {q \in Solid(path) : q <= i + 1} = {q \in Solid(path) : q <= i} \cup {i + 1}
      BY <1>1, <2>1, <2>3 DEF Solid
    <3> QED BY <1>3, <2>1, <2>3, <3>1, <3>2, FS_AddElement DEF Rank
  <2> QED BY <2>2, <2>3
<1> QED BY <1>3, <1>4, <1>5

LEMMA RankMonotone ==
    ASSUME NEW S, NEW path \in Seq(S), NEW i \in 0..Len(path), NEW j \in 0..Len(path), i <= j
    PROVE  Rank(path, i) <= Rank(path, j)
<1>1. DOMAIN path = 1..Len(path) /\ Len(path) \in Nat
  BY LenProperties
<1>2. IsFiniteSet({q \in Solid(path) : q <= j})
  <2>1. IsFiniteSet(1..Len(path)) /\ {q \in Solid(path) : q <= j} \subseteq 1..Len(path)
    BY <1>1, FS_Interval DEF Solid
  <2> QED BY <2>1, FS_Subset
<1>3. {q \in Solid(path) : q <= i} \subseteq {q \in Solid(path) : q <= j}
  BY <1>1 DEF Solid
<1> QED BY <1>2, <1>3, FS_Subset DEF Rank

LEMMA WordOfRank ==
    ASSUME NEW S, NEW path \in Seq(S), NEW p \in Solid(path)
    PROVE  Word(path, Rank(path, p)) = path[p]
<1>1. DOMAIN path = 1..Len(path) /\ Len(path) \in Nat
  BY LenProperties
<1>2. ASSUME NEW a \in Solid(path), NEW b \in Solid(path), a < b
      PROVE  Rank(path, a) # Rank(path, b)
  <2>1. a \in 0..Len(path) /\ b - 1 \in 0..Len(path) /\ a <= b - 1 /\ b - 1 \in 0..Len(path) - 1
        /\ (b - 1) + 1 = b /\ path[b] # Empty
    BY <1>1, <1>2 DEF Solid
  <2>2. Rank(path, a) <= Rank(path, b - 1)
    BY <2>1, RankMonotone
  <2>3. Rank(path, b) = Rank(path, b - 1) + 1 /\ Rank(path, b - 1) \in Nat /\ Rank(path, a) \in Nat
    BY <2>1, RankStep
  <2> QED BY <2>2, <2>3
<1>3. \A a, b \in Solid(path) : Rank(path, a) = Rank(path, b) => a = b
  <2> SUFFICES ASSUME NEW a \in Solid(path), NEW b \in Solid(path),
                      Rank(path, a) = Rank(path, b), a # b
               PROVE  FALSE
    OBVIOUS
  <2>1. a \in Nat /\ b \in Nat
    BY <1>1 DEF Solid
  <2>2. a < b \/ b < a
    BY <2>1
  <2> QED BY <1>2, <2>2
<1>4. (CHOOSE a \in Solid(path) : Rank(path, a) = Rank(path, p)) = p
  BY <1>3
<1> QED BY <1>4 DEF Word

\* The table that splitPath() fills.
SplitTable(m, path) ==
    [i \in 0..Len(path) |->
        IF i = 0 THEN <<>>
        ELSE IF path[i] = Empty THEN m[i - 1] ELSE Append(m[i - 1], path[i])]

\* splitPath() keeps what stands between the slashes.
LEMMA SplitPathIsWordsOf ==
    ASSUME NEW S, NEW path \in Seq(S)
    PROVE  splitPath(path) = WordsOf(path) /\ splitPath(path) \in Seq(Range(path))
<1> DEFINE m == CHOOSE f : f = SplitTable(f, path)
           g == [i \in 0..Len(path) |-> [k \in 1..Rank(path, i) |-> Word(path, k)]]
<1>0. DOMAIN path = 1..Len(path) /\ Len(path) \in Nat
  BY LenProperties
<1>1. splitPath(path) = m[Len(path)]
  BY DEF splitPath, SplitTable
<1>2. g = SplitTable(g, path)
  <2>1. ASSUME NEW i \in 0..Len(path)
        PROVE  g[i] = IF i = 0 THEN <<>>
                      ELSE IF path[i] = Empty THEN g[i - 1] ELSE Append(g[i - 1], path[i])
    <3>1. CASE i = 0
      <4>1. g[0] = [k \in 1..0 |-> Word(path, k)]
        BY <1>0, RankStep
      <4>2. 1..0 = {}
        OBVIOUS
      <4> QED BY <3>1, <4>1, <4>2
    <3>2. CASE i # 0 /\ path[i] = Empty
      <4>1. i - 1 \in 0..Len(path) - 1 /\ i - 1 \in 0..Len(path) /\ (i - 1) + 1 = i
        BY <1>0, <3>2
      <4>2. Rank(path, i) = Rank(path, i - 1)
        BY <3>2, <4>1, RankStep
      <4> QED BY <3>2, <4>1, <4>2
    <3>3. CASE i # 0 /\ path[i] # Empty
      <4> PICK n : n = Rank(path, i - 1)
        OBVIOUS
      <4>1. i - 1 \in 0..Len(path) - 1 /\ i - 1 \in 0..Len(path) /\ (i - 1) + 1 = i
        BY <1>0, <3>3
      <4>2. Rank(path, i) = n + 1 /\ n \in Nat
        BY <3>3, <4>1, RankStep
      <4>3. Word(path, n + 1) = path[i]
        <5>1. i \in Solid(path)
          BY <1>0, <3>3 DEF Solid
        <5> QED BY <4>2, <5>1, WordOfRank
      <4>4. g[i] = [k \in 1..n + 1 |-> Word(path, k)] /\ g[i - 1] = [k \in 1..n |-> Word(path, k)]
        BY <4>1, <4>2
      <4>5. Append([k \in 1..n |-> Word(path, k)], path[i])
              = [k \in 1..n + 1 |-> Word(path, k)]
        <5>1. Len([k \in 1..n |-> Word(path, k)]) = n
          BY <4>2
        <5> QED BY <4>2, <4>3, <5>1
      <4> QED BY <3>3, <4>4, <4>5
    <3> QED BY <3>1, <3>2, <3>3
  <2> HIDE DEF g
  <2>2. SplitTable(g, path) = [i \in 0..Len(path) |-> g[i]]
    BY <2>1, Zenon DEF SplitTable
  <2>3. g = [i \in 0..Len(path) |-> g[i]]
    BY DEF g
  <2> QED BY <2>2, <2>3
<1> HIDE DEF g
<1>3. m = SplitTable(m, path)
  BY <1>2
<1> HIDE DEF m
<1> DEFINE T == {i \in Nat : i <= Len(path) => m[i] = g[i] /\ m[i] \in Seq(Range(path))}
<1>4. 0 \in T
  <2>1. 0 \in 0..Len(path)
    BY <1>0
  <2>2. m[0] = <<>> /\ g[0] = <<>>
    BY <1>2, <1>3, <2>1 DEF SplitTable
  <2>3. <<>> \in Seq(Range(path))
    BY EmptySeq
  <2> QED BY <2>2, <2>3
<1>5. ASSUME NEW i \in Nat, i \in T PROVE i + 1 \in T
  <2> SUFFICES ASSUME i + 1 <= Len(path)
               PROVE  m[i + 1] = g[i + 1] /\ m[i + 1] \in Seq(Range(path))
    OBVIOUS
  <2>1. i + 1 \in 0..Len(path) /\ i + 1 # 0 /\ (i + 1) - 1 = i /\ m[i] = g[i]
        /\ m[i] \in Seq(Range(path))
    BY <1>0, <1>5
  <2>0. path[i + 1] \in Range(path)
    BY <1>0, <2>1 DEF Range
  <2>2. m[i + 1] = IF path[i + 1] = Empty THEN m[i] ELSE Append(m[i], path[i + 1])
    BY <1>3, <2>1 DEF SplitTable
  <2>3. g[i + 1] = IF path[i + 1] = Empty THEN g[i] ELSE Append(g[i], path[i + 1])
    BY <1>2, <2>1 DEF SplitTable
  <2>4. m[i + 1] = g[i + 1]
    BY <2>1, <2>2, <2>3
  <2>5. m[i + 1] \in Seq(Range(path))
    BY <2>0, <2>1, <2>2, AppendProperties
  <2> QED BY <2>4, <2>5
<1>6. Nat \subseteq T
  <2> HIDE DEF T
  <2> QED BY <1>4, <1>5, SetInduction
<1>7. splitPath(path) = g[Len(path)] /\ splitPath(path) \in Seq(Range(path))
  BY <1>0, <1>1, <1>6
<1>8. g[Len(path)] = [k \in 1..Rank(path, Len(path)) |-> Word(path, k)]
  BY <1>0 DEF g
<1>9. Rank(path, Len(path)) = Cardinality(Solid(path))
  <2>1. {q \in Solid(path) : q <= Len(path)} = Solid(path)
    BY <1>0 DEF Solid
  <2> QED BY <2>1 DEF Rank
<1>10. WordsOf(path) = [k \in 1..Cardinality(Solid(path)) |-> Word(path, k)]
  BY Zenon DEF WordsOf, Word, Rank, Solid
<1> QED BY <1>7, <1>8, <1>9, <1>10

LEMMA UnderProperties ==
    /\ \A a : Len(Under(<<a>>)) = 3 /\ DOMAIN Under(<<a>>) = 1..3 /\ Under(<<a>>)[3] = a
    /\ \A a, b : Len(Under(<<a, b>>)) = 4 /\ DOMAIN Under(<<a, b>>) = 1..4 /\ Under(<<a, b>>)[3] = a
    /\ \A a, b, c : Len(Under(<<a, b, c>>)) = 5 /\ DOMAIN Under(<<a, b, c>>) = 1..5
                    /\ Under(<<a, b, c>>)[3] = a /\ Under(<<a, b, c>>)[5] = c
    /\ \A a, b, c, d : Len(Under(<<a, b, c, d>>)) = 6 /\ DOMAIN Under(<<a, b, c, d>>) = 1..6
                    /\ Under(<<a, b, c, d>>)[3] = a /\ Under(<<a, b, c, d>>)[5] = c
BY DEF Under

\* What tells a route of the server's table from the others: its method, its
\* length, and the literals after /api/v1, each third and fifth segment.
Shape(route, method, len, third, fifth) ==
    /\ route.method = method /\ Len(route.segments) = len
    /\ DOMAIN route.segments = 1..len
    /\ route.segments[3] = Lit(third)
    /\ len >= 5 => route.segments[5] = Lit(fifth)

LEMMA ApiShapes ==
    /\ Shape(registerApiRoutes[1], "GET", 3, "status", "status")
    /\ Shape(registerApiRoutes[2], "GET", 3, "artists", "artists")
    /\ Shape(registerApiRoutes[3], "GET", 4, "artists", "artists")
    /\ Shape(registerApiRoutes[4], "GET", 3, "albums", "albums")
    /\ Shape(registerApiRoutes[5], "GET", 4, "albums", "albums")
    /\ Shape(registerApiRoutes[6], "GET", 3, "tracks", "tracks")
    /\ Shape(registerApiRoutes[7], "GET", 4, "tracks", "tracks")
    /\ Shape(registerApiRoutes[8], "GET", 5, "tracks", "stream")
    /\ Shape(registerApiRoutes[9], "GET", 5, "tracks", "artwork")
    /\ Shape(registerApiRoutes[10], "GET", 3, "search", "search")
    /\ Shape(registerApiRoutes[11], "GET", 3, "playlists", "playlists")
    /\ Shape(registerApiRoutes[12], "GET", 4, "playlists", "playlists")
    /\ Shape(registerApiRoutes[13], "POST", 3, "playlists", "playlists")
    /\ Shape(registerApiRoutes[14], "PUT", 4, "playlists", "playlists")
    /\ Shape(registerApiRoutes[15], "DELETE", 4, "playlists", "playlists")
    /\ Shape(registerApiRoutes[16], "POST", 5, "playlists", "tracks")
    /\ Shape(registerApiRoutes[17], "DELETE", 6, "playlists", "tracks")
<1> USE UnderProperties DEF registerApiRoutes, Endpoint, Shape
<1>1. Shape(registerApiRoutes[1], "GET", 3, "status", "status")
  OBVIOUS
<1>2. Shape(registerApiRoutes[2], "GET", 3, "artists", "artists")
  OBVIOUS
<1>3. Shape(registerApiRoutes[3], "GET", 4, "artists", "artists")
  OBVIOUS
<1>4. Shape(registerApiRoutes[4], "GET", 3, "albums", "albums")
  OBVIOUS
<1>5. Shape(registerApiRoutes[5], "GET", 4, "albums", "albums")
  OBVIOUS
<1>6. Shape(registerApiRoutes[6], "GET", 3, "tracks", "tracks")
  OBVIOUS
<1>7. Shape(registerApiRoutes[7], "GET", 4, "tracks", "tracks")
  OBVIOUS
<1>8. Shape(registerApiRoutes[8], "GET", 5, "tracks", "stream")
  OBVIOUS
<1>9. Shape(registerApiRoutes[9], "GET", 5, "tracks", "artwork")
  OBVIOUS
<1>10. Shape(registerApiRoutes[10], "GET", 3, "search", "search")
  OBVIOUS
<1>11. Shape(registerApiRoutes[11], "GET", 3, "playlists", "playlists")
  OBVIOUS
<1>12. Shape(registerApiRoutes[12], "GET", 4, "playlists", "playlists")
  OBVIOUS
<1>13. Shape(registerApiRoutes[13], "POST", 3, "playlists", "playlists")
  OBVIOUS
<1>14. Shape(registerApiRoutes[14], "PUT", 4, "playlists", "playlists")
  OBVIOUS
<1>15. Shape(registerApiRoutes[15], "DELETE", 4, "playlists", "playlists")
  OBVIOUS
<1>16. Shape(registerApiRoutes[16], "POST", 5, "playlists", "tracks")
  OBVIOUS
<1>17. Shape(registerApiRoutes[17], "DELETE", 6, "playlists", "tracks")
  OBVIOUS
<1> QED BY <1>1, <1>2, <1>3, <1>4, <1>5, <1>6, <1>7, <1>8, <1>9, <1>10, <1>11, <1>12, <1>13,
           <1>14, <1>15, <1>16, <1>17

\* The number of a route, worked out from what tells it from the others.
Number(route) ==
    LET method == route.method
        n == Len(route.segments)
        third == route.segments[3].text
        fifth == route.segments[5].text
    IN  CASE n = 3 /\ method = "GET" /\ third = "status" -> 1
          [] n = 3 /\ method = "GET" /\ third = "artists" -> 2
          [] n = 4 /\ method = "GET" /\ third = "artists" -> 3
          [] n = 3 /\ method = "GET" /\ third = "albums" -> 4
          [] n = 4 /\ method = "GET" /\ third = "albums" -> 5
          [] n = 3 /\ method = "GET" /\ third = "tracks" -> 6
          [] n = 4 /\ method = "GET" /\ third = "tracks" -> 7
          [] n = 5 /\ method = "GET" /\ fifth = "stream" -> 8
          [] n = 5 /\ method = "GET" /\ fifth = "artwork" -> 9
          [] n = 3 /\ method = "GET" /\ third = "search" -> 10
          [] n = 3 /\ method = "GET" /\ third = "playlists" -> 11
          [] n = 4 /\ method = "GET" /\ third = "playlists" -> 12
          [] n = 3 /\ method = "POST" -> 13
          [] n = 4 /\ method = "PUT" -> 14
          [] n = 4 /\ method = "DELETE" -> 15
          [] n = 5 /\ method = "POST" -> 16
          [] n = 6 /\ method = "DELETE" -> 17

LEMMA ApiNumbers == \A i \in 1..17 : Number(registerApiRoutes[i]) = i
<1>1. \A s, t : s = Lit(t) => ~s.param /\ s.text = t
  BY DEF Lit
<1> USE <1>1, ApiShapes DEF Shape, Number
<1>n1. Number(registerApiRoutes[1]) = 1
  OBVIOUS
<1>n2. Number(registerApiRoutes[2]) = 2
  OBVIOUS
<1>n3. Number(registerApiRoutes[3]) = 3
  OBVIOUS
<1>n4. Number(registerApiRoutes[4]) = 4
  OBVIOUS
<1>n5. Number(registerApiRoutes[5]) = 5
  OBVIOUS
<1>n6. Number(registerApiRoutes[6]) = 6
  OBVIOUS
<1>n7. Number(registerApiRoutes[7]) = 7
  OBVIOUS
<1>n8. Number(registerApiRoutes[8]) = 8
  OBVIOUS
<1>n9. Number(registerApiRoutes[9]) = 9
  OBVIOUS
<1>n10. Number(registerApiRoutes[10]) = 10
  OBVIOUS
<1>n11. Number(registerApiRoutes[11]) = 11
  OBVIOUS
<1>n12. Number(registerApiRoutes[12]) = 12
  OBVIOUS
<1>n13. Number(registerApiRoutes[13]) = 13
  OBVIOUS
<1>n14. Number(registerApiRoutes[14]) = 14
  OBVIOUS
<1>n15. Number(registerApiRoutes[15]) = 15
  OBVIOUS
<1>n16. Number(registerApiRoutes[16]) = 16
  OBVIOUS
<1>n17. Number(registerApiRoutes[17]) = 17
  OBVIOUS
<1>2. \A n \in 1..17 :
        \/ n = 1 \/ n = 2 \/ n = 3 \/ n = 4 \/ n = 5 \/ n = 6 \/ n = 7 \/ n = 8 \/ n = 9
        \/ n = 10 \/ n = 11 \/ n = 12 \/ n = 13 \/ n = 14 \/ n = 15 \/ n = 16 \/ n = 17
  OBVIOUS
<1> HIDE <1>1, ApiShapes DEF Shape, Number
<1> QED BY <1>2, <1>n1, <1>n2, <1>n3, <1>n4, <1>n5, <1>n6, <1>n7, <1>n8, <1>n9,
           <1>n10, <1>n11, <1>n12, <1>n13, <1>n14, <1>n15, <1>n16,
           <1>n17

\* The literals that dispatch() compares.
Literals(route) ==
    /\ Len(route.segments) \in 3..6 /\ DOMAIN route.segments = 1..Len(route.segments)
    /\ ~route.segments[3].param /\ (Len(route.segments) >= 5 => ~route.segments[5].param)

LEMMA ApiLiterals == \A k \in 1..17 : Literals(registerApiRoutes[k])
<1>1. ASSUME NEW r, NEW method, NEW len \in 3..6, NEW third, NEW fifth,
             Shape(r, method, len, third, fifth)
      PROVE  Literals(r)
  BY <1>1 DEF Shape, Lit, Literals
<1>2. 3 \in 3..6 /\ 4 \in 3..6 /\ 5 \in 3..6 /\ 6 \in 3..6
  OBVIOUS
<1>3. \A n \in 1..17 :
        \/ n = 1 \/ n = 2 \/ n = 3 \/ n = 4 \/ n = 5 \/ n = 6 \/ n = 7 \/ n = 8 \/ n = 9
        \/ n = 10 \/ n = 11 \/ n = 12 \/ n = 13 \/ n = 14 \/ n = 15 \/ n = 16 \/ n = 17
  OBVIOUS
<1> QED BY <1>1, <1>2, <1>3, ApiShapes

\* Two routes of the server's table never compete for a request.
LEMMA ApiRoutesDiffer ==
    ASSUME NEW i \in 1..17, NEW j \in 1..17, NEW segments,
           matched(registerApiRoutes[i], segments), matched(registerApiRoutes[j], segments),
           registerApiRoutes[i].method = registerApiRoutes[j].method
    PROVE  i = j
<1> PICK a, b : a = registerApiRoutes[i] /\ b = registerApiRoutes[j]
  OBVIOUS
<1>0. matched(a, segments) /\ matched(b, segments)
  OBVIOUS
<1>1. Literals(a) /\ Literals(b)
  BY ApiLiterals
<1>2. Len(a.segments) = Len(b.segments) /\ a.method = b.method
  BY <1>0 DEF matched
<1>3. a.segments[3].text = b.segments[3].text
  <2>1. 3 \in DOMAIN a.segments /\ 3 \in DOMAIN b.segments
        /\ ~a.segments[3].param /\ ~b.segments[3].param
    BY <1>1 DEF Literals
  <2> QED BY <1>0, <2>1 DEF matched
<1>4. Len(a.segments) >= 5 => a.segments[5].text = b.segments[5].text
  <2> SUFFICES ASSUME Len(a.segments) >= 5 PROVE a.segments[5].text = b.segments[5].text
    OBVIOUS
  <2>1. 5 \in DOMAIN a.segments /\ 5 \in DOMAIN b.segments
        /\ ~a.segments[5].param /\ ~b.segments[5].param
    BY <1>1, <1>2 DEF Literals
  <2> QED BY <1>0, <2>1 DEF matched
<1>5. Number(a) = Number(b)
  <2>1. Len(a.segments) = 5 => a.segments[5].text = b.segments[5].text
    BY <1>4
  <2> QED BY <1>2, <1>3, <2>1 DEF Number
<1> QED BY <1>5, ApiNumbers

\* No pair of a method and a pattern is registered twice by the server.
LEMMA ApiRoutesAreDistinct ==
    Len(registerApiRoutes) = 17 /\ DOMAIN registerApiRoutes = 1..17
    /\ \A i, j \in 1..17 : registerApiRoutes[i] = registerApiRoutes[j] => i = j
<1>1. Len(registerApiRoutes) = 17 /\ DOMAIN registerApiRoutes = 1..17
  BY DEF registerApiRoutes
<1> QED BY <1>1, ApiNumbers

-----------------------------------------------------------------------------
(* Dispatching.                                                             *)

Distinct(route) ==
    \A i, j \in DOMAIN route.segments :
        route.segments[i].param /\ route.segments[i] = route.segments[j] => i = j

\* What is captured, put back into the pattern, is the path.
LEMMA CapturedFills ==
    ASSUME NEW route \in Route, Distinct(route), NEW S, NEW segments \in Seq(S),
           matched(route, segments)
    PROVE  /\ captured(route, segments) \in [parameters(route) -> S]
           /\ filled(route, captured(route, segments)) = segments
<1> PICK segs, n : segs = route.segments /\ n = Len(segs)
  OBVIOUS
<1>1. /\ segs \in Seq(Segment) /\ DOMAIN segs = 1..n /\ n \in Nat
      /\ DOMAIN segments = 1..n /\ \A i \in 1..n : segs[i] \in Segment /\ segments[i] \in S
  <2>1. segs \in Seq(Segment) /\ Len(segments) = n
    BY DEF Route, matched
  <2> QED BY <2>1, LenProperties, ElementOfSeq
<1> DEFINE params == {i \in DOMAIN segs : segs[i].param}
           names == {segs[i].text : i \in params}
           places(t) == {i \in params : segs[i].text = t}
           c == [t \in names |-> segments[Min(places(t))]]
<1>2. captured(route, segments) = c
  BY DEF captured
<1>3. names = parameters(route)
  BY DEF parameters, Range
<1>4. ASSUME NEW i \in params PROVE Min(places(segs[i].text)) = i
  <2>1. \A j \in places(segs[i].text) : j = i
    BY <1>1 DEF Distinct, Segment
  <2>2. i \in places(segs[i].text) /\ places(segs[i].text) \in SUBSET Nat
    BY <1>1
  <2> HIDE DEF places
  <2>3. Min(places(segs[i].text)) \in places(segs[i].text)
    BY <2>2, MinProperties
  <2> QED BY <2>1, <2>3
<1>5. \A i \in params : c[segs[i].text] = segments[i]
  BY <1>4
<1>6. c \in [names -> S]
  <2>1. ASSUME NEW t \in names PROVE segments[Min(places(t))] \in S
    <3>1. PICK i \in params : t = segs[i].text
      OBVIOUS
    <3>2. Min(places(t)) = i
      BY <1>4, <3>1
    <3> QED BY <1>1, <3>2
  <2> HIDE DEF names, places
  <2> QED BY <2>1
<1>7. ASSUME NEW i \in 1..n
      PROVE  (IF segs[i].param THEN c[segs[i].text] ELSE segs[i].text) = segments[i]
  <2>1. CASE segs[i].param
    BY <1>1, <1>5, <2>1
  <2>2. CASE ~segs[i].param
    BY <1>1, <2>2 DEF matched
  <2> QED BY <2>1, <2>2
<1> HIDE DEF c
<1>8. filled(route, c) = [i \in 1..n |-> segments[i]]
  BY <1>1, <1>7 DEF filled
<1>9. segments = [i \in 1..n |-> segments[i]]
  BY <1>1
<1> QED BY <1>2, <1>3, <1>6, <1>8, <1>9

\* The inner loop of dispatch() finds the routes whose pattern spells the path.
LEMMA MatchedIsSpelled ==
    ASSUME NEW route \in Route, Distinct(route), NEW path \in Seq(STRING)
    PROVE  matched(route, splitPath(path)) <=> spells(route, path)
<1> PICK segments : segments = splitPath(path)
  OBVIOUS
<1>1. segments = WordsOf(path) /\ segments \in Seq(Range(path))
  BY SplitPathIsWordsOf
<1>2. ASSUME matched(route, segments) PROVE spells(route, path)
  <2>1. /\ captured(route, segments) \in [parameters(route) -> Range(path)]
        /\ filled(route, captured(route, segments)) = segments
    BY <1>1, <1>2, CapturedFills
  <2> QED BY <1>1, <2>1 DEF spells
<1>3. ASSUME spells(route, path) PROVE matched(route, segments)
  <2>1. PICK values : segments = filled(route, values)
    BY <1>1, <1>3 DEF spells
  <2>2. route.segments \in Seq(Segment) /\ DOMAIN route.segments = 1..Len(route.segments)
        /\ Len(route.segments) \in Nat
    BY LenProperties DEF Route
  <2>3. DOMAIN segments = 1..Len(route.segments) /\ DOMAIN segments = 1..Len(segments)
        /\ Len(segments) \in Nat
    BY <1>1, <2>1, <2>2, LenProperties DEF filled
  <2>4. Len(route.segments) = Len(segments)
    BY <2>2, <2>3
  <2>5. \A i \in DOMAIN route.segments :
           route.segments[i].param \/ route.segments[i].text = segments[i]
    BY <2>1 DEF filled
  <2> QED BY <2>4, <2>5 DEF matched
<1> QED BY <1>2, <1>3

Refusal(r) == ~\E i \in pathMatches(r) : methodMatches(r.method, routes[i])

\* dispatch(): a refusal, or what a matching route was given.
LEMMA DispatchProperties ==
    ASSUME routes \in Seq(Route), NEW r
    PROVE  /\ Refusal(r) => dispatch(r) = refuse(r)
           /\ ~Refusal(r) => \E i \in pathMatches(r) :
                 /\ methodMatches(r.method, routes[i])
                 /\ dispatch(r) = [outcome |-> "handled", route |-> routes[i],
                                   params |-> captured(routes[i], splitPath(r.path))]
<1> DEFINE hits == {i \in pathMatches(r) : methodMatches(r.method, routes[i])}
<1>1. hits \in SUBSET Nat
  BY LenProperties DEF pathMatches
<1>2. Refusal(r) <=> hits = {}
  BY DEF Refusal
<1>3. CASE Refusal(r)
  BY <1>2, <1>3 DEF dispatch
<1>4. CASE ~Refusal(r)
  <2>1. Min(hits) \in hits
    <3> HIDE DEF hits
    <3> QED BY <1>1, <1>2, <1>4, MinProperties
  <2>2. dispatch(r) = [outcome |-> "handled", route |-> routes[Min(hits)],
                       params |-> captured(routes[Min(hits)], splitPath(r.path))]
    BY <1>2, <1>4 DEF dispatch
  <2> QED BY <1>4, <2>1, <2>2
<1> QED BY <1>3, <1>4

\* routes_ is what has been registered so far, without duplicates; a response is
\* dispatch()'s.
RouterIInv ==
    /\ calls \in Tables /\ routes \in Seq(Route) /\ Len(routes) <= Len(calls)
    /\ \A i \in DOMAIN routes : routes[i] = calls[i]
    /\ \A i, j \in DOMAIN routes : routes[i] = routes[j] => i = j
    /\ up \in {"starting", "serving", "threw"}
    /\ up = "serving" => Len(routes) = Len(calls)
    /\ up = "threw" => \E i, j \in DOMAIN calls : i # j /\ calls[i] = calls[j]
    /\ request # None => /\ up = "serving" /\ request \in Requests
                         /\ response = dispatch(request)

LEMMA RouterInitIInv == RouterInit => RouterIInv
<1> SUFFICES ASSUME RouterInit PROVE RouterIInv
  OBVIOUS
<1>1. calls \in Seq(Route) /\ <<>> \in Seq(Route) /\ Len(<<>>) = 0 /\ DOMAIN <<>> = {}
  BY RouterAssumption, EmptySeq DEF RouterInit
<1>2. Len(calls) \in Nat
  BY <1>1, LenProperties
<1> QED BY <1>1, <1>2 DEF RouterInit, RouterIInv

LEMMA addRouteRouterIInv == RouterIInv /\ addRoute => RouterIInv'
<1> SUFFICES ASSUME RouterIInv, addRoute PROVE RouterIInv'
  OBVIOUS
<1> PICK n, route : n = Len(routes) /\ route = calls[n + 1]
  OBVIOUS
<1>1. /\ calls \in Seq(Route) /\ DOMAIN calls = 1..Len(calls) /\ Len(calls) \in Nat
      /\ DOMAIN routes = 1..n /\ n \in Nat /\ n < Len(calls)
  <2>1. calls \in Seq(Route)
    BY RouterAssumption DEF RouterIInv
  <2> QED BY <2>1, LenProperties DEF RouterIInv, addRoute
<1>2. /\ n + 1 \in DOMAIN calls /\ route \in Route
      /\ \A i \in DOMAIN routes : i # n + 1 /\ i \in DOMAIN calls
  <2>1. n + 1 \in DOMAIN calls /\ \A i \in DOMAIN routes : i # n + 1 /\ i \in DOMAIN calls
    BY <1>1
  <2> QED BY <1>1, <2>1, ElementOfSeq
<1>3. \A i \in DOMAIN routes : /\ routes[i] \in Route
                                /\ (duplicates(routes[i], route) <=> routes[i] = route)
  <2>1. \A i \in DOMAIN routes : routes[i] \in Route
    BY ElementOfSeq, LenProperties DEF RouterIInv
  <2> QED BY <1>2, <2>1 DEF duplicates, Route
<1>4. up = "starting" /\ UNCHANGED <<calls, request, response>> /\ request = None
  BY DEF addRoute, RouterIInv
<1>5. CASE /\ \E i \in DOMAIN routes : duplicates(routes[i], route)
           /\ up' = "threw" /\ routes' = routes
  <2>1. PICK i \in DOMAIN routes : routes[i] = route
    <3>1. PICK i \in DOMAIN routes : duplicates(routes[i], route)
      BY <1>5
    <3>2. routes[i] = route
      BY <1>3, <3>1
    <3> QED BY <3>2
  <2>2. i # n + 1 /\ i \in DOMAIN calls /\ calls[i] = calls[n + 1]
    BY <1>2, <2>1 DEF RouterIInv
  <2> QED BY <1>2, <1>4, <1>5, <2>2 DEF RouterIInv
<1>6. CASE /\ \A i \in DOMAIN routes : ~duplicates(routes[i], route)
           /\ routes' = Append(routes, route) /\ up' = up
  <2>1. /\ routes' \in Seq(Route) /\ Len(routes') = n + 1
        /\ \A i \in 1..n : routes'[i] = routes[i] /\ routes'[n + 1] = route
    BY <1>1, <1>2, <1>6, AppendProperties DEF RouterIInv
  <2>2. DOMAIN routes' = 1..n + 1 /\ routes'[n + 1] = route
    BY <1>2, <1>6, <2>1, LenProperties, AppendProperties DEF RouterIInv
  <2>3. ASSUME NEW i \in DOMAIN routes' PROVE i \in DOMAIN routes \/ i = n + 1
    BY <1>1, <2>2
  <2>4. \A i \in DOMAIN routes' : routes'[i] = calls[i]
    BY <1>1, <2>1, <2>2, <2>3 DEF RouterIInv
  <2>5. \A i \in DOMAIN routes : routes'[i] # route
    BY <1>1, <1>3, <1>6, <2>1
  <2>6. \A i, j \in DOMAIN routes' : routes'[i] = routes'[j] => i = j
    BY <1>1, <2>1, <2>2, <2>3, <2>5 DEF RouterIInv
  <2>7. Len(routes') <= Len(calls')
    BY <1>1, <1>4, <2>1
  <2> QED BY <1>4, <1>6, <2>1, <2>4, <2>6, <2>7 DEF RouterIInv
<1> QED BY <1>5, <1>6 DEF addRoute

LEMMA RouterNextIInv == RouterIInv /\ [RouterNext]_routerVars => RouterIInv'
<1> SUFFICES ASSUME RouterIInv, [RouterNext]_routerVars PROVE RouterIInv'
  OBVIOUS
<1>1. CASE addRoute
  BY <1>1, addRouteRouterIInv
<1>2. CASE Listen
  BY <1>2 DEF Listen, RouterIInv
<1>3. ASSUME NEW r \in Requests, Dispatch(r) PROVE RouterIInv'
  <2>1. routes' = routes /\ response' = dispatch(r) /\ request' = r /\ up = "serving"
    BY <1>3 DEF Dispatch
  <2>2. dispatch(r)' = dispatch(r)
    BY <2>1 DEF dispatch, refuse, pathMatches
  <2> QED BY <1>3, <2>1, <2>2 DEF Dispatch, RouterIInv
<1>4. CASE Reply
  BY <1>4 DEF Reply, RouterIInv
<1>5. CASE UNCHANGED routerVars
  BY <1>5 DEF routerVars, RouterIInv, dispatch, refuse, pathMatches
<1> QED BY <1>1, <1>2, <1>3, <1>4, <1>5 DEF RouterNext

LEMMA ServedRequest ==
    ASSUME RouterIInv, Served
    PROVE  /\ request \in Requests /\ request.path \in Seq(STRING)
           /\ routes \in Seq(Route) /\ DOMAIN routes = DOMAIN calls
           /\ \A i \in DOMAIN routes : /\ routes[i] = calls[i] /\ routes[i] \in Route
                                       /\ Distinct(routes[i])
           /\ response = dispatch(request)
<1>1. request \in Requests /\ response = dispatch(request) /\ Len(routes) = Len(calls)
  BY DEF RouterIInv, Served
<1>2. request.path \in Seq(STRING)
  BY <1>1, RouterAssumption
<1>3. calls \in Seq(Route) /\ routes \in Seq(Route)
  BY RouterAssumption DEF RouterIInv
<1>4. DOMAIN routes = DOMAIN calls /\ \A i \in DOMAIN routes : routes[i] \in Route
  BY <1>1, <1>3, LenProperties, ElementOfSeq
<1>5. \A i \in DOMAIN calls : Distinct(calls[i])
  BY RouterAssumption DEF RouterIInv, Distinct
<1> QED BY <1>1, <1>2, <1>3, <1>4, <1>5 DEF RouterIInv

LEMMA EndpointHandles == RouterIInv => HandledByItsEndpoint
<1> SUFFICES ASSUME RouterIInv, Served, response.outcome = "handled"
             PROVE  /\ WordsOf(request.path) = filled(response.route, response.params)
                    /\ calls = registerApiRoutes =>
                          \A i \in pathMatches(request) :
                              methodMatches(request.method, routes[i]) => routes[i] = response.route
  BY DEF HandledByItsEndpoint
<1>1. ~Refusal(request)
  BY ServedRequest, DispatchProperties DEF refuse
<1>2. PICK i \in pathMatches(request) :
        /\ methodMatches(request.method, routes[i])
        /\ response = [outcome |-> "handled", route |-> routes[i],
                       params |-> captured(routes[i], splitPath(request.path))]
  BY <1>1, ServedRequest, DispatchProperties
<1>3. i \in DOMAIN routes /\ matched(routes[i], splitPath(request.path))
  BY DEF pathMatches
<1>4. WordsOf(request.path) = filled(response.route, response.params)
  <2>1. splitPath(request.path) = WordsOf(request.path)
        /\ splitPath(request.path) \in Seq(Range(request.path))
    BY ServedRequest, SplitPathIsWordsOf
  <2>2. filled(routes[i], captured(routes[i], splitPath(request.path))) = splitPath(request.path)
    BY <1>3, <2>1, ServedRequest, CapturedFills
  <2> QED BY <1>2, <2>1, <2>2
<1>5. ASSUME calls = registerApiRoutes, NEW j \in pathMatches(request),
             methodMatches(request.method, routes[j])
      PROVE  routes[j] = response.route
  <2>1. /\ i \in 1..17 /\ routes[i] = registerApiRoutes[i]
        /\ j \in 1..17 /\ routes[j] = registerApiRoutes[j]
    BY <1>5, ServedRequest, ApiRoutesAreDistinct DEF pathMatches
  <2>2. matched(routes[i], splitPath(request.path)) /\ matched(routes[j], splitPath(request.path))
    BY DEF pathMatches
  <2>3. routes[i].method = routes[j].method
    BY <1>2, <1>5 DEF methodMatches
  <2>4. i = j
    BY <2>1, <2>2, <2>3, ApiRoutesDiffer
  <2> QED BY <1>2, <2>4
<1> QED BY <1>4, <1>5

LEMMA RefusalIsTrue == RouterIInv => RefusalsAreTrue
<1> SUFFICES ASSUME RouterIInv, Served,
                    NEW path, path = request.path,
                    NEW method, method = IF request.method = "HEAD" THEN "GET" ELSE request.method
             PROVE  /\ response.outcome = "404" <=> \A i \in DOMAIN calls : ~spells(calls[i], path)
                    /\ response.outcome = "405" =>
                          \A i \in DOMAIN calls : spells(calls[i], path) => calls[i].method # method
  BY DEF RefusalsAreTrue
<1>1. \A i \in DOMAIN calls : i \in pathMatches(request) <=> spells(calls[i], path)
  BY ServedRequest, MatchedIsSpelled DEF pathMatches
<1>2. \A i \in DOMAIN calls : methodMatches(request.method, routes[i]) <=> calls[i].method = method
  BY ServedRequest DEF methodMatches
<1>3. pathMatches(request) \subseteq DOMAIN calls
  BY ServedRequest DEF pathMatches
<1>4. CASE Refusal(request)
  <2>1. response = refuse(request)
    BY <1>4, ServedRequest, DispatchProperties
  <2> QED BY <1>1, <1>2, <1>3, <1>4, <2>1 DEF refuse, Refusal
<1>5. CASE ~Refusal(request)
  <2>1. response.outcome = "handled" /\ pathMatches(request) # {}
    BY <1>5, ServedRequest, DispatchProperties
  <2> QED BY <1>1, <1>3, <2>1
<1> QED BY <1>4, <1>5

LEMMA HeadIsGet == RouterIInv => HeadAsGet
<1> SUFFICES ASSUME RouterIInv, Served, request.method = "HEAD",
                    NEW get, get = [request EXCEPT !.method = "GET"]
             PROVE  dispatch(request) = dispatch(get)
  BY ServedRequest DEF HeadAsGet
<1>1. get.method = "GET" /\ get.path = request.path
  <2>1. request \in [method : STRING, path : Seq(STRING)]
    BY ServedRequest, RouterAssumption
  <2> QED BY <2>1
<1>2. pathMatches(get) = pathMatches(request)
  BY <1>1 DEF pathMatches
<1>3. \A route : methodMatches(get.method, route) <=> methodMatches(request.method, route)
  BY <1>1 DEF methodMatches
<1> QED BY <1>1, <1>2, <1>3 DEF dispatch, refuse

LEMMA DuplicatesThrow == RouterIInv => OnlyDuplicatesThrow
<1> SUFFICES ASSUME RouterIInv PROVE OnlyDuplicatesThrow
  OBVIOUS
<1> DEFINE twice == \E i, j \in DOMAIN calls : i # j /\ calls[i] = calls[j]
<1>1. up = "threw" => twice
  BY DEF RouterIInv
<1>2. ASSUME up = "serving" PROVE ~twice
  <2>1. calls \in Seq(Route) /\ routes \in Seq(Route) /\ Len(routes) = Len(calls)
    BY <1>2, RouterAssumption DEF RouterIInv
  <2>2. DOMAIN routes = DOMAIN calls
    BY <2>1, LenProperties
  <2> QED BY <2>2 DEF RouterIInv
<1>3. calls = registerApiRoutes => ~twice
  BY ApiRoutesAreDistinct
<1> QED BY <1>1, <1>2, <1>3 DEF OnlyDuplicatesThrow

LEMMA RouterIInvImplies == RouterIInv => DispatchesByTable
  BY EndpointHandles, RefusalIsTrue, HeadIsGet, DuplicatesThrow DEF DispatchesByTable

\* A request is handled by the endpoint whose pattern spells its path, or refused
\* for the reason that is given, HEAD as GET, and in the server's own table no
\* two endpoints compete (Router.cpp:30-105, Api.cpp:564-575), for any table
\* of routes and any requests.
THEOREM RequestsAreDispatched == RouterSpec => []DispatchesByTable
  BY RouterInitIInv, RouterNextIInv, RouterIInvImplies, PTL DEF RouterSpec
=============================================================================
