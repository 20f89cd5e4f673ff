-------------------------- MODULE Playlists_proofs --------------------------
(***************************************************************************)
(* Proofs about Playlists: the tables stay consistent, a 404 names what is *)
(* missing, and positions with gaps implement plain lists, for any tracks, *)
(* names, ids, positions and requests.                                     *)
(***************************************************************************)
EXTENDS Playlists, FiniteSetTheorems, SequenceTheorems, WellFoundedInduction, TLAPS

(* The largest element of a bounded set of naturals.                        *)

LEMMA MaxProperty ==
    ASSUME NEW n \in Nat, NEW S \in SUBSET (0..n), S # {}
    PROVE  Max(S) \in S /\ \A y \in S : y <= Max(S)
<1> DEFINE T == {n - x : x \in S}
           R == OpToRel(<, Nat)
<1>1. T \subseteq Nat /\ T # {}
  <2>1. \A x \in S : n - x \in Nat
    OBVIOUS
  <2> QED BY <2>1
<1>2. \A a, b \in Nat : a < b => <<a, b>> \in R
  BY DEF OpToRel
<1>3. IsWellFoundedOn(R, Nat)
  BY NatLessThanWellFounded
<1> HIDE DEF R, T
<1>4. PICK x \in T : \A y \in T : ~(<<y, x>> \in R)
  BY <1>1, <1>3, WFMin
<1>5. PICK m \in S : x = n - m
  BY DEF T
<1>6. \A y \in S : m >= y
  <2> SUFFICES ASSUME NEW y \in S, ~(m >= y) PROVE FALSE
    OBVIOUS
  <2>1. n - y \in T /\ n - y \in Nat /\ n - m \in Nat /\ n - y < n - m
    BY DEF T
  <2> QED BY <2>1, <1>2, <1>4, <1>5
<1>7. \E z \in S : \A y \in S : z >= y
  BY <1>6
<1>8. Max(S) \in S /\ \A y \in S : Max(S) >= y
  BY <1>7 DEF Max
<1> QED BY <1>8

-----------------------------------------------------------------------------
(* ORDER BY position.                                                       *)

\* The entries of one playlist: finitely many, no two at the same position.
Entries(e) ==
    /\ IsFiniteSet(DOMAIN e)
    /\ \A t \in DOMAIN e : e[t] \in Nat
    /\ \A s, t \in DOMAIN e : e[s] = e[t] => s = t

LEMMA RankProperties ==
    ASSUME NEW e, Entries(e)
    PROVE  /\ Cardinality(DOMAIN e) \in Nat
           /\ \A t \in DOMAIN e : rank(e, t) \in 1..Cardinality(DOMAIN e)
           /\ \A s, t \in DOMAIN e : e[s] < e[t] => rank(e, s) < rank(e, t)
           /\ \A k \in 1..Cardinality(DOMAIN e) : \E t \in DOMAIN e : rank(e, t) = k
<1> DEFINE D == DOMAIN e
           n == Cardinality(D)
           Upto(t) == {u \in D : e[u] <= e[t]}
<1>1. IsFiniteSet(D) /\ n \in Nat /\ \A t \in D : e[t] \in Nat
  BY FS_CardinalityType DEF Entries
<1>2. ASSUME NEW t \in D
      PROVE  /\ t \in Upto(t) /\ Upto(t) \subseteq D /\ IsFiniteSet(Upto(t))
             /\ Cardinality(Upto(t)) \in 1..n /\ rank(e, t) = Cardinality(Upto(t))
  <2>1. t \in Upto(t) /\ Upto(t) \subseteq D
    BY <1>1
  <2>2. IsFiniteSet(Upto(t)) /\ Cardinality(Upto(t)) <= n
    BY <2>1, <1>1, FS_Subset
  <2>3. Cardinality(Upto(t)) \in Nat /\ Cardinality(Upto(t)) # 0
    BY <2>1, <2>2, FS_CardinalityType, FS_EmptySet
  <2> QED BY <1>1, <2>1, <2>2, <2>3 DEF rank
<1>3. ASSUME NEW s \in D, NEW t \in D, e[s] < e[t]
      PROVE  rank(e, s) < rank(e, t)
  <2>1. Upto(s) \subseteq Upto(t) /\ t \notin Upto(s)
    BY <1>1, <1>3
  <2>2. IsFiniteSet(Upto(t)) /\ t \in Upto(t)
    BY <1>2
  <2> HIDE DEF Upto
  <2>3. /\ Cardinality(Upto(s)) <= Cardinality(Upto(t))
        /\ Cardinality(Upto(t)) = Cardinality(Upto(s)) => Upto(t) = Upto(s)
    BY <2>1, <2>2, FS_Subset
  <2>4. Cardinality(Upto(s)) # Cardinality(Upto(t))
    BY <2>1, <2>2, <2>3
  <2>5. /\ Cardinality(Upto(s)) \in Nat /\ Cardinality(Upto(t)) \in Nat
        /\ rank(e, s) = Cardinality(Upto(s)) /\ rank(e, t) = Cardinality(Upto(t))
    BY <1>2
  <2> QED BY <2>3, <2>4, <2>5
<1>4. \A t \in D : rank(e, t) \in 1..n
  BY <1>2
<1> HIDE DEF Upto
<1>5. ASSUME NEW k \in 1..n PROVE \E t \in D : rank(e, t) = k
  <2> DEFINE f == [t \in D |-> rank(e, t)]
  <2>1. f \in [D -> 1..n]
    BY <1>4
  <2>2. \A s, t \in D : f[s] = f[t] => s = t
    <3> SUFFICES ASSUME NEW s \in D, NEW t \in D, s # t PROVE rank(e, s) # rank(e, t)
      OBVIOUS
    <3>1. e[s] < e[t] \/ e[t] < e[s]
      BY <1>1 DEF Entries
    <3> QED BY <3>1, <1>3, <1>4
  <2>3. IsFiniteSet(1..n) /\ Cardinality(1..n) = n
    BY <1>1, FS_Interval
  <2> HIDE DEF f
  <2>4. f \in Injection(D, 1..n)
    BY <2>1, <2>2 DEF Injection, IsInjective
  <2>5. f \in Surjection(D, 1..n)
    BY <2>3, <2>4, FS_Injection
  <2>6. \E t \in D : f[t] = k
    BY <2>5 DEF Surjection
  <2> QED BY <2>6 DEF f
<1> QED BY <1>1, <1>3, <1>4, <1>5

LEMMA RankUnique ==
    ASSUME NEW e, Entries(e), NEW s \in DOMAIN e, NEW t \in DOMAIN e,
           rank(e, s) = rank(e, t)
    PROVE  s = t
<1>1. e[s] \in Nat /\ e[t] \in Nat /\ rank(e, s) \in Int
  BY RankProperties DEF Entries
<1>2. ~(e[s] < e[t]) /\ ~(e[t] < e[s])
  BY <1>1, RankProperties
<1> QED BY <1>1, <1>2 DEF Entries

LEMMA OrderedProperties ==
    ASSUME NEW e, Entries(e)
    PROVE  /\ ordered(e) \in Seq(DOMAIN e) /\ Len(ordered(e)) = Cardinality(DOMAIN e)
           /\ \A k \in 1..Cardinality(DOMAIN e) :
                  ordered(e)[k] \in DOMAIN e /\ rank(e, ordered(e)[k]) = k
           /\ \A t \in DOMAIN e : ordered(e)[rank(e, t)] = t
<1> DEFINE D == DOMAIN e
           n == Cardinality(D)
<1>1. n \in Nat /\ \A k \in 1..n : \E t \in D : rank(e, t) = k
  BY RankProperties
<1>2. \A k \in 1..n : ordered(e)[k] \in D /\ rank(e, ordered(e)[k]) = k
  BY <1>1 DEF ordered
<1>3. ordered(e) \in [1..n -> D]
  BY <1>2 DEF ordered
<1>4. ordered(e) \in Seq(D) /\ Len(ordered(e)) = n
  BY <1>1, <1>3
<1>5. \A t \in D : ordered(e)[rank(e, t)] = t
  BY <1>2, RankProperties, RankUnique
<1> QED BY <1>2, <1>4, <1>5

\* A sequence whose k-th element has rank k is the ordered one.
LEMMA OrderedUnique ==
    ASSUME NEW e, Entries(e), NEW s \in Seq(DOMAIN e), Len(s) = Cardinality(DOMAIN e),
           \A k \in 1..Len(s) : rank(e, s[k]) = k
    PROVE  s = ordered(e)
<1>1. \A k \in 1..Len(s) : s[k] \in DOMAIN e
  BY ElementOfSeq
<1>2. ordered(e) \in Seq(DOMAIN e) /\ Len(ordered(e)) = Len(s)
  BY OrderedProperties
<1>3. \A k \in 1..Len(s) : s[k] = ordered(e)[k]
  BY <1>1, OrderedProperties
<1> QED BY <1>2, <1>3, SeqEqual

LEMMA OrderedEmpty ==
    ASSUME NEW e, DOMAIN e = {}
    PROVE  ordered(e) = <<>> /\ Entries(e)
<1>1. IsFiniteSet({}) /\ Cardinality({}) = 0
  BY FS_EmptySet
<1>2. Entries(e)
  BY <1>1 DEF Entries
<1>3. ordered(e) \in Seq(DOMAIN e) /\ Len(ordered(e)) = 0
  BY <1>1, <1>2, OrderedProperties
<1> QED BY <1>2, <1>3, EmptySeq

LEMMA NextPosition ==
    ASSUME NEW e, NEW n \in Nat, \A t \in DOMAIN e : e[t] \in 0..n
    PROVE  nextPosition(e) \in Nat /\ \A t \in DOMAIN e : e[t] < nextPosition(e)
<1>1. CASE DOMAIN e = {}
  BY <1>1 DEF nextPosition
<1>2. CASE DOMAIN e # {}
  <2> DEFINE P == {e[t] : t \in DOMAIN e}
  <2>1. P \in SUBSET (0..n) /\ P # {}
    BY <1>2
  <2>2. nextPosition(e) = Max(P) + 1
    BY <1>2 DEF nextPosition
  <2>3. \A t \in DOMAIN e : e[t] \in P
    OBVIOUS
  <2> HIDE DEF P
  <2>4. Max(P) \in P /\ \A y \in P : y <= Max(P)
    BY <2>1, MaxProperty
  <2>5. Max(P) \in Nat
    <3>1. P \subseteq Nat
      BY <2>1
    <3> QED BY <3>1, <2>4
  <2>6. \A t \in DOMAIN e : e[t] \in Nat /\ e[t] <= Max(P)
    BY <2>3, <2>4
  <2> QED BY <2>2, <2>5, <2>6
<1> QED BY <1>1, <1>2

\* A track inserted above all others is the last of the ordered ones.
LEMMA OrderedInsert ==
    ASSUME NEW e, Entries(e), NEW t, t \notin DOMAIN e, NEW p \in Nat,
           \A u \in DOMAIN e : e[u] < p
    PROVE  /\ Entries(insert(e, t, p)) /\ DOMAIN insert(e, t, p) = DOMAIN e \cup {t}
           /\ ordered(insert(e, t, p)) = Append(ordered(e), t)
<1> DEFINE D == DOMAIN e
           n == Cardinality(D)
           f == insert(e, t, p)
           s == Append(ordered(e), t)
<1>1. DOMAIN f = D \cup {t} /\ f[t] = p /\ \A u \in D : f[u] = e[u] /\ u # t
  BY DEF insert
<1>2. IsFiniteSet(D) /\ n \in Nat /\ \A u \in D : e[u] \in Nat
  BY FS_CardinalityType DEF Entries
<1>3. IsFiniteSet(D \cup {t}) /\ Cardinality(D \cup {t}) = n + 1
  BY <1>2, FS_AddElement
<1> HIDE DEF f
<1>4. Entries(f)
  <2>1. \A u, v \in DOMAIN f : f[u] = f[v] => u = v
    BY <1>1, <1>2 DEF Entries
  <2>2. \A u \in DOMAIN f : f[u] \in Nat
    BY <1>1, <1>2
  <2> QED BY <1>1, <1>3, <2>1, <2>2 DEF Entries
<1>5. \A u \in D : rank(f, u) = rank(e, u)
  <2> SUFFICES ASSUME NEW u \in D
               PROVE  {v \in DOMAIN f : f[v] <= f[u]} = {v \in D : e[v] <= e[u]}
    BY DEF rank
  <2> QED BY <1>1, <1>2
<1>6. rank(f, t) = n + 1
  <2>1. {v \in DOMAIN f : f[v] <= f[t]} = D \cup {t}
    BY <1>1, <1>2
  <2> QED BY <1>3, <2>1 DEF rank
<1>7. /\ ordered(e) \in Seq(D) /\ Len(ordered(e)) = n
      /\ \A k \in 1..n : ordered(e)[k] \in D /\ rank(e, ordered(e)[k]) = k
  BY OrderedProperties
<1>8. /\ s \in Seq(D \cup {t}) /\ Len(s) = n + 1 /\ s[n + 1] = t
      /\ \A k \in 1..n : s[k] = ordered(e)[k]
  <2>1. ordered(e) \in Seq(D \cup {t})
    BY <1>7
  <2> QED BY <1>7, <2>1, AppendProperties
<1> HIDE DEF s
<1>9. \A k \in 1..Len(s) : rank(f, s[k]) = k
  <2> SUFFICES ASSUME NEW k \in 1..(n + 1) PROVE rank(f, s[k]) = k
    BY <1>8
  <2>1. CASE k = n + 1
    BY <2>1, <1>6, <1>8
  <2>2. CASE k \in 1..n
    BY <2>2, <1>5, <1>7, <1>8
  <2> QED BY <2>1, <2>2, <1>2
<1>10. s = ordered(f)
  BY <1>1, <1>3, <1>4, <1>8, <1>9, OrderedUnique
<1> QED BY <1>1, <1>4, <1>10 DEF f, s

\* A track taken out leaves the others in their order.
LEMMA OrderedWithout ==
    ASSUME NEW e, Entries(e), NEW t \in DOMAIN e
    PROVE  /\ Entries(Without(e, t)) /\ DOMAIN Without(e, t) = DOMAIN e \ {t}
           /\ ordered(Without(e, t)) = RemoveAt(ordered(e), rank(e, t))
<1> DEFINE D == DOMAIN e
           n == Cardinality(D)
           f == Without(e, t)
           r == rank(e, t)
           o == ordered(e)
           s == RemoveAt(o, r)
<1>1. DOMAIN f = D \ {t} /\ \A u \in D \ {t} : f[u] = e[u]
  BY DEF Without
<1>2. IsFiniteSet(D) /\ n \in Nat /\ \A u \in D : e[u] \in Nat
  BY FS_CardinalityType DEF Entries
<1>3. IsFiniteSet(D \ {t}) /\ Cardinality(D \ {t}) = n - 1
  BY <1>2, FS_RemoveElement
<1> HIDE DEF f
<1>4. Entries(f)
  BY <1>1, <1>3 DEF Entries
<1>5. \A u \in D : rank(e, u) \in 1..n
  BY RankProperties
<1>6. ASSUME NEW u \in D, rank(e, u) < r PROVE u \in D \ {t} /\ rank(f, u) = rank(e, u)
  <2>1. e[u] < e[t]
    <3>1. u # t
      BY <1>5, <1>6
    <3>2. ~(e[t] < e[u])
      BY <1>5, <1>6, RankProperties
    <3> QED BY <3>1, <3>2, <1>2 DEF Entries
  <2>2. {v \in DOMAIN f : f[v] <= f[u]} = {v \in D : e[v] <= e[u]}
    BY <1>1, <1>2, <2>1
  <2> QED BY <2>1, <2>2, <1>2 DEF rank
<1>7. ASSUME NEW u \in D, rank(e, u) > r PROVE u \in D \ {t} /\ rank(f, u) = rank(e, u) - 1
  <2>1. e[t] < e[u] /\ u # t
    <3>1. u # t
      BY <1>5, <1>7
    <3>2. ~(e[u] < e[t])
      BY <1>5, <1>7, RankProperties
    <3> QED BY <3>1, <3>2, <1>2 DEF Entries
  <2> DEFINE U == {v \in D : e[v] <= e[u]}
  <2>2. {v \in DOMAIN f : f[v] <= f[u]} = U \ {t}
    BY <1>1, <1>2, <2>1
  <2>3. t \in U /\ IsFiniteSet(U)
    BY <1>2, <2>1, FS_Subset
  <2>4. Cardinality(U \ {t}) = Cardinality(U) - 1
    BY <2>3, FS_RemoveElement
  <2> QED BY <2>1, <2>2, <2>4 DEF rank
<1>8. /\ o \in Seq(D) /\ Len(o) = n
      /\ \A k \in 1..n : o[k] \in D /\ rank(e, o[k]) = k
  BY OrderedProperties
<1>9. r \in 1..n
  BY <1>5
<1> HIDE DEF o, r
<1>10. /\ Len(s) = n - 1 /\ s \in Seq(D)
       /\ \A k \in 1..(n - 1) : s[k] = IF k < r THEN o[k] ELSE o[k + 1]
  <2> DEFINE a == SubSeq(o, 1, r - 1)
             b == SubSeq(o, r + 1, n)
  <2>1. /\ a \in Seq(D) /\ Len(a) = r - 1
        /\ \A k \in 1..(r - 1) : a[k] = o[k]
    BY <1>2, <1>8, <1>9, SubSeqProperties
  <2>2. /\ b \in Seq(D) /\ Len(b) = n - r
        /\ \A k \in 1..(n - r) : b[k] = o[r + k]
    BY <1>2, <1>8, <1>9, SubSeqProperties
  <2>3. s = a \o b
    BY <1>8 DEF RemoveAt
  <2> HIDE DEF a, b, s
  <2>4. /\ s \in Seq(D) /\ Len(s) = n - 1
        /\ \A k \in 1..(n - 1) : s[k] = IF k <= r - 1 THEN a[k] ELSE b[k - (r - 1)]
    <3>1. /\ a \o b \in Seq(D) /\ Len(a \o b) = Len(a) + Len(b)
          /\ \A k \in 1..(Len(a) + Len(b)) :
                 (a \o b)[k] = IF k <= Len(a) THEN a[k] ELSE b[k - Len(a)]
      BY <2>1, <2>2, ConcatProperties
    <3>2. Len(a) + Len(b) = n - 1
      BY <2>1, <2>2, <1>2, <1>9
    <3> QED BY <2>1, <2>3, <3>1, <3>2
  <2>5. ASSUME NEW k \in 1..(n - 1) PROVE s[k] = IF k < r THEN o[k] ELSE o[k + 1]
    <3>1. CASE k < r
      BY <3>1, <2>1, <2>4, <1>9
    <3>2. CASE ~(k < r)
      <4>1. k - (r - 1) \in 1..(n - r) /\ r + (k - (r - 1)) = k + 1
        BY <3>2, <1>2, <1>9
      <4> QED BY <3>2, <4>1, <2>2, <2>4, <1>9
    <3> QED BY <3>1, <3>2
  <2> QED BY <2>4, <2>5
<1> HIDE DEF s
<1>11. ASSUME NEW k \in 1..(n - 1) PROVE s[k] \in D \ {t} /\ rank(f, s[k]) = k
  <2>1. CASE k < r
    <3>1. o[k] \in D /\ rank(e, o[k]) = k
      BY <1>2, <1>8
    <3> QED BY <2>1, <3>1, <1>6, <1>10 DEF r
  <2>2. CASE ~(k < r)
    <3>1. k + 1 \in 1..n /\ k + 1 > r
      BY <2>2, <1>2, <1>9
    <3>2. o[k + 1] \in D /\ rank(e, o[k + 1]) = k + 1
      BY <3>1, <1>8
    <3>3. rank(f, o[k + 1]) = k /\ o[k + 1] \in D \ {t}
      BY <3>1, <3>2, <1>7 DEF r
    <3> QED BY <2>2, <3>3, <1>10
  <2> QED BY <2>1, <2>2
<1>12. s \in Seq(D \ {t})
  <2>1. \A k \in 1..Len(s) : s[k] \in D \ {t}
    BY <1>10, <1>11
  <2> QED BY <2>1, <1>10
<1>13. s = ordered(f)
  BY <1>1, <1>3, <1>4, <1>10, <1>11, <1>12, OrderedUnique
<1> QED BY <1>1, <1>4, <1>13 DEF f, s, o, r

-----------------------------------------------------------------------------
(* The inductive invariant.                                                 *)

Calls == {"none", "list", "findById", "tracks", "create", "rename", "delete", "add", "remove"}

Ops == {"none", "list", "get", "create", "rename", "delete", "add", "remove"}

\* The variables hold functions and records, and every row of entries is one
\* that ORDER BY position puts in one order.
Tables ==
    /\ playlists \in [Id -> Name \cup {NoRow}]
    /\ DOMAIN entries = Id /\ entries = [i \in Id |-> entries[i]]
    /\ \A i \in Id : /\ DOMAIN entries[i] \subseteq Track /\ Entries(entries[i])
                     /\ \A t \in DOMAIN entries[i] : entries[i][t] \in 0..MaxPosition
    /\ tracks \in [Track -> {"none", "live", "deleted"}]

Job == [op : Ops, id : 0..MaxId + 1, name : Name \cup {Empty}, track : Track \cup {Empty},
        limit : RawLimit \cup {NotGiven}, offset : RawLimit \cup {NotGiven}, call : Calls]

\* What the checks of a request leave to its repository calls, and what the
\* calls before have found: only the server writes playlists, so that a
\* playlist found by one call of a handler is there for the next.
JobSound ==
    /\ job \in Job
    /\ job.op \in {"get", "rename", "delete", "add", "remove"} => job.id # 0
    /\ job.op \in {"create", "rename"} => job.name \in Name
    /\ job.op \in {"add", "remove"} => job.track \in Track
    /\ job.call = "findById" => /\ job.op \in {"get", "rename", "add", "remove"}
                                /\ job.op = "rename" => rowExists(job.id)
    /\ job.call \in {"create", "rename", "delete", "add", "remove"} => job.op = job.call
    /\ job.call \in {"tracks", "add", "remove"} => rowExists(job.id)

PlaylistsIInv == Tables /\ EntriesRefer /\ JobSound

LEMMA IdleJob ==
    Idle \in Job /\ Idle.op = "none" /\ Idle.call = "none"
<1>1. 0 \in 0..MaxId + 1
  BY PlaylistAssumption
<1> QED BY <1>1 DEF Idle, Job, Ops, Calls

LEMMA IdleSound == job' = Idle => JobSound'
  BY IdleJob DEF JobSound

LEMMA InitPlaylistsIInv == Init => PlaylistsIInv
<1> SUFFICES ASSUME Init PROVE PlaylistsIInv
  OBVIOUS
<1>1. \A i \in Id : DOMAIN entries[i] = {} /\ Entries(entries[i])
  BY OrderedEmpty DEF Init
<1>2. Tables
  BY <1>1 DEF Init, Tables
<1>3. EntriesRefer
  BY <1>1 DEF EntriesRefer
<1>4. JobSound
  BY IdleJob DEF Init, JobSound
<1> QED BY <1>2, <1>3, <1>4 DEF PlaylistsIInv

LEMMA PlaylistsIInvImplies == PlaylistsIInv => PlaylistsSound
<1> SUFFICES ASSUME PlaylistsIInv PROVE PlaylistsSound
  OBVIOUS
<1>1. TypeOK
  <2>1. job.call \in Calls /\ job.id \in 0..MaxId + 1
    BY DEF PlaylistsIInv, JobSound, Job
  <2>2. job.op \in {"get", "rename", "delete", "add", "remove"} => job.id \in 1..MaxId + 1
    BY <2>1, PlaylistAssumption DEF PlaylistsIInv, JobSound
  <2> QED BY <2>1, <2>2 DEF PlaylistsIInv, Tables, Calls, TypeOK
<1>2. PositionsDistinct
  BY DEF PlaylistsIInv, Tables, Entries, PositionsDistinct
<1>3. RenderedExists
  BY DEF PlaylistsIInv, JobSound, RenderedExists
<1> QED BY <1>1, <1>2, <1>3 DEF PlaylistsIInv, PlaylistsSound

LEMMA NextPlaylistsIInv == PlaylistsIInv /\ [Next]_vars => PlaylistsIInv'
<1> SUFFICES ASSUME PlaylistsIInv, [Next]_vars PROVE PlaylistsIInv'
  OBVIOUS
<1>a. /\ Tables /\ EntriesRefer /\ JobSound /\ job \in Job
  BY DEF PlaylistsIInv, JobSound
<1>b. UNCHANGED <<playlists, entries, tracks>> => Tables' /\ EntriesRefer'
  BY <1>a DEF Tables, EntriesRefer
<1>1. ASSUME NEW r \in Requests, Handle(r) PROVE PlaylistsIInv'
  <2>1. UNCHANGED <<playlists, entries, tracks>>
    BY <1>1 DEF Handle
  <2>2. CASE badRequest(r)
    BY <1>1, <1>b, <2>1, <2>2, IdleSound DEF Handle, Reply, PlaylistsIInv
  <2>3. CASE ~badRequest(r)
    <3>1. /\ job' = [op |-> r.op, id |-> r.id, name |-> r.name, track |-> r.track,
                     limit |-> r.limit, offset |-> r.offset, call |-> firstCall(r.op)]
      BY <1>1, <2>3 DEF Handle
    <3>2. /\ r.op \in Ops \ {"none"} /\ r.id \in 0..MaxId + 1
          /\ r.name \in Name \cup {Empty} /\ r.track \in Track \cup {Empty}
          /\ r.limit \in RawLimit \cup {NotGiven} /\ r.offset \in RawLimit \cup {NotGiven}
      <4>1. 0 \in 0..MaxId + 1 /\ \A i \in 0..MaxId : i \in 0..MaxId + 1
        BY PlaylistAssumption
      <4> QED BY <4>1 DEF Requests, Ops
    <3>3. /\ firstCall(r.op) \in Calls
          /\ r.op \in {"get", "add", "remove"} => firstCall(r.op) = "findById"
          /\ r.op \notin {"get", "add", "remove"} => firstCall(r.op) = r.op
      BY <3>2 DEF firstCall, Calls, Ops
    <3>4. /\ job' \in Job /\ job'.op = r.op /\ job'.id = r.id /\ job'.name = r.name
          /\ job'.track = r.track /\ job'.call = firstCall(r.op)
      BY <3>1, <3>2, <3>3 DEF Job
    <3>5. JobSound'
      BY <2>3, <3>2, <3>3, <3>4, PlaylistAssumption DEF JobSound, badRequest, Ops
    <3> QED BY <2>1, <3>5, <1>b DEF PlaylistsIInv
  <2> QED BY <2>2, <2>3
<1>2. ASSUME List \/ Tracks PROVE PlaylistsIInv'
  BY <1>2, <1>b, IdleSound DEF List, Tracks, Render, PlaylistsIInv
<1>3. ASSUME FindById PROVE PlaylistsIInv'
  <2>1. UNCHANGED <<playlists, entries, tracks>> /\ job.call = "findById"
    BY <1>3 DEF FindById
  <2>2. CASE ~rowExists(job.id) /\ job.op # "rename"
    BY <1>3, <1>b, <2>1, <2>2, IdleSound DEF FindById, Reply, PlaylistsIInv
  <2>3. CASE ~(~rowExists(job.id) /\ job.op # "rename")
    <3> DEFINE c == IF job.op \in {"get", "rename"} THEN "tracks" ELSE job.op
    <3>1. job.op \in {"get", "rename", "add", "remove"} /\ rowExists(job.id)
      BY <1>a, <2>1, <2>3 DEF JobSound
    <3>2. c \in {"tracks", "add", "remove"} /\ (c # "tracks" => c = job.op)
      BY <3>1
    <3>3. job' = [job EXCEPT !.call = c]
      BY <1>3, <2>3 DEF FindById, Continue
    <3> HIDE DEF c
    <3>4. /\ job' \in Job /\ job'.op = job.op /\ job'.id = job.id /\ job'.name = job.name
          /\ job'.track = job.track /\ job'.call = c
      BY <1>a, <3>2, <3>3 DEF Job, Calls
    <3>5. rowExists(job.id)'
      BY <2>1, <3>1, <3>4 DEF rowExists
    <3>6. JobSound'
      BY <1>a, <3>1, <3>2, <3>4, <3>5 DEF JobSound
    <3> QED BY <2>1, <3>6, <1>b DEF PlaylistsIInv
  <2> QED BY <2>2, <2>3
<1>4. ASSUME Create PROVE PlaylistsIInv'
  <2>1. /\ newRowId \in Id /\ playlists' = [playlists EXCEPT ![newRowId] = job.name]
        /\ UNCHANGED <<entries, tracks>> /\ job' = Idle /\ job.name \in Name
    BY <1>4, <1>a DEF Create, Render, JobSound
  <2>2. \A i \in Id : playlists[i] # NoRow => playlists'[i] # NoRow
    BY <2>1, <1>a, PlaylistAssumption DEF Tables
  <2>3. Tables' /\ EntriesRefer'
    BY <2>1, <2>2, <1>a DEF Tables, EntriesRefer
  <2> QED BY <2>1, <2>3, IdleSound DEF PlaylistsIInv
<1>5. ASSUME Rename PROVE PlaylistsIInv'
  <2>1. CASE ~rowExists(job.id)
    BY <1>5, <1>b, <2>1, IdleSound DEF Rename, Reply, PlaylistsIInv
  <2>2. CASE rowExists(job.id)
    <3>1. /\ job.id \in Id /\ playlists' = [playlists EXCEPT ![job.id] = job.name]
          /\ UNCHANGED <<entries, tracks>> /\ job' = [job EXCEPT !.call = "findById"]
          /\ job.op = "rename" /\ job.name \in Name
      BY <1>5, <2>2, <1>a DEF Rename, Continue, JobSound, rowExists
    <3>2. \A i \in Id : playlists[i] # NoRow => playlists'[i] # NoRow
      BY <3>1, <1>a, PlaylistAssumption DEF Tables
    <3>3. Tables' /\ EntriesRefer'
      BY <3>1, <3>2, <1>a DEF Tables, EntriesRefer
    <3>4. /\ job' \in Job /\ job'.op = job.op /\ job'.id = job.id /\ job'.name = job.name
          /\ job'.track = job.track /\ job'.call = "findById"
      BY <1>a, <3>1 DEF Job, Calls
    <3>5. rowExists(job.id)'
      BY <2>2, <3>1, <3>2, <3>4 DEF rowExists
    <3>6. JobSound'
      BY <1>a, <3>1, <3>4, <3>5 DEF JobSound
    <3> QED BY <3>3, <3>6 DEF PlaylistsIInv
  <2> QED BY <2>1, <2>2
<1>6. ASSUME Delete PROVE PlaylistsIInv'
  <2>1. CASE ~rowExists(job.id)
    BY <1>6, <1>b, <2>1, IdleSound DEF Delete, Reply, PlaylistsIInv
  <2>2. CASE rowExists(job.id)
    <3>1. /\ job.id \in Id /\ playlists' = [playlists EXCEPT ![job.id] = NoRow]
          /\ entries' = [entries EXCEPT ![job.id] = <<>>] /\ job' = Idle /\ UNCHANGED tracks
      BY <1>6, <2>2 DEF Delete, Reply, rowExists
    <3>2. /\ DOMAIN entries' = Id /\ entries' = [i \in Id |-> entries'[i]]
          /\ DOMAIN entries'[job.id] = {}
          /\ \A i \in Id : i # job.id => entries'[i] = entries[i] /\ playlists'[i] = playlists[i]
      BY <3>1, <1>a DEF Tables
    <3>3. Entries(entries'[job.id])
      BY <3>2, OrderedEmpty
    <3>4. Tables'
      BY <3>1, <3>2, <3>3, <1>a DEF Tables
    <3>5. EntriesRefer'
      BY <3>1, <3>2, <1>a DEF EntriesRefer
    <3> QED BY <3>1, <3>4, <3>5, IdleSound DEF PlaylistsIInv
  <2> QED BY <2>1, <2>2
<1>7. ASSUME AddTrack PROVE PlaylistsIInv'
  <2>0. job' = Idle /\ UNCHANGED <<playlists, tracks>>
    BY <1>7 DEF AddTrack, Reply
  <2>1. CASE UNCHANGED entries
    BY <2>0, <2>1, <1>b, IdleSound DEF PlaylistsIInv
  <2>2. CASE entries' # entries
    <3> DEFINE e == entries[job.id]
               p == nextPosition(e)
               f == insert(e, job.track, p)
    <3>1. /\ rowExists(job.id) /\ tracks[job.track] # "none"
          /\ job.track \notin DOMAIN e /\ p <= MaxPosition
          /\ entries' = [entries EXCEPT ![job.id] = f]
          /\ job.track \in Track /\ job.id \in Id
      BY <1>7, <2>2, <1>a DEF AddTrack, JobSound, rowExists
    <3>2. Entries(e) /\ \A t \in DOMAIN e : e[t] \in 0..MaxPosition
      BY <3>1, <1>a DEF Tables
    <3>3. p \in Nat /\ \A t \in DOMAIN e : e[t] < p
      BY <3>2, NextPosition, PlaylistAssumption
    <3> HIDE DEF p, e
    <3>4. /\ Entries(f) /\ DOMAIN f = DOMAIN e \cup {job.track}
      BY <3>1, <3>2, <3>3, OrderedInsert
    <3>5. \A t \in DOMAIN f : f[t] \in 0..MaxPosition
      <4>1. p \in 0..MaxPosition
        BY <3>1, <3>3, PlaylistAssumption
      <4>2. \A t \in DOMAIN f : f[t] = p \/ (t \in DOMAIN e /\ f[t] = e[t])
        BY DEF insert
      <4> QED BY <4>1, <4>2, <3>2
    <3> HIDE DEF f
    <3>6. /\ DOMAIN entries' = Id /\ entries' = [i \in Id |-> entries'[i]]
          /\ entries'[job.id] = f /\ \A i \in Id : i # job.id => entries'[i] = entries[i]
      BY <3>1, <1>a DEF Tables
    <3>7. DOMAIN e \subseteq Track
      BY <3>1, <1>a DEF Tables, e
    <3>8. Tables'
      BY <2>0, <3>1, <3>4, <3>5, <3>6, <3>7, <1>a DEF Tables
    <3>9. EntriesRefer'
      BY <2>0, <3>1, <3>4, <3>6, <1>a DEF EntriesRefer, rowExists, e
    <3> QED BY <2>0, <3>8, <3>9, IdleSound DEF PlaylistsIInv
  <2> QED BY <2>1, <2>2
<1>8. ASSUME RemoveTrack PROVE PlaylistsIInv'
  <2>0. job' = Idle /\ UNCHANGED <<playlists, tracks>>
    BY <1>8 DEF RemoveTrack, Reply
  <2>1. CASE ~(rowExists(job.id) /\ job.track \in DOMAIN entries[job.id])
    BY <1>8, <2>0, <2>1, <1>b, IdleSound DEF RemoveTrack, PlaylistsIInv
  <2>2. CASE rowExists(job.id) /\ job.track \in DOMAIN entries[job.id]
    <3> DEFINE e == entries[job.id]
               f == Without(e, job.track)
    <3>1. job.id \in Id /\ entries' = [entries EXCEPT ![job.id] = f]
      BY <1>8, <2>2 DEF RemoveTrack, rowExists
    <3>2. Entries(e) /\ DOMAIN e \subseteq Track /\ \A t \in DOMAIN e : e[t] \in 0..MaxPosition
      BY <3>1, <1>a DEF Tables
    <3>3. Entries(f) /\ DOMAIN f = DOMAIN e \ {job.track} /\ \A t \in DOMAIN f : f[t] = e[t]
      BY <2>2, <3>2, OrderedWithout DEF Without
    <3> HIDE DEF f
    <3>4. /\ DOMAIN entries' = Id /\ entries' = [i \in Id |-> entries'[i]]
          /\ entries'[job.id] = f /\ \A i \in Id : i # job.id => entries'[i] = entries[i]
      BY <3>1, <1>a DEF Tables
    <3>5. Tables'
      BY <2>0, <3>1, <3>2, <3>3, <3>4, <1>a DEF Tables
    <3>6. EntriesRefer'
      BY <2>0, <3>1, <3>3, <3>4, <1>a DEF EntriesRefer
    <3> QED BY <2>0, <3>5, <3>6, IdleSound DEF PlaylistsIInv
  <2> QED BY <2>1, <2>2
<1>9. ASSUME Crash PROVE PlaylistsIInv'
  BY <1>9, <1>b, IdleSound DEF Crash, PlaylistsIInv
<1>10. ASSUME NEW t \in Track, Upsert(t) \/ SoftDelete(t) PROVE PlaylistsIInv'
  <2>1. /\ UNCHANGED <<playlists, entries, job>>
        /\ tracks' \in [Track -> {"none", "live", "deleted"}]
        /\ \A u \in Track : tracks[u] # "none" => tracks'[u] # "none"
    BY <1>10, <1>a DEF Upsert, SoftDelete, Tables
  <2>2. Tables' /\ EntriesRefer'
    BY <2>1, <1>a DEF Tables, EntriesRefer
  <2>3. JobSound'
    BY <2>1, <1>a DEF JobSound, rowExists
  <2> QED BY <2>2, <2>3 DEF PlaylistsIInv
<1>11. CASE UNCHANGED vars
  BY <1>11, <1>a, <1>b DEF vars, PlaylistsIInv, JobSound, rowExists
<1> QED BY <1>1, <1>2, <1>3, <1>4, <1>5, <1>6, <1>7, <1>8, <1>9, <1>10, <1>11 DEF Next

\* Between any two statements of the server and the scanner, the two playlist
\* tables agree with each other, with tracks and with what the handler at work
\* has looked up (SqlitePlaylistRepository.cpp:88-180, Api.cpp:440-560): for any
\* tracks, names, ids and positions.
THEOREM PlaylistsAreSound == Spec => []PlaylistsSound
  BY InitPlaylistsIInv, NextPlaylistsIInv, PlaylistsIInvImplies, PTL DEF Spec

-----------------------------------------------------------------------------
(* Answers.                                                                 *)

NotFoundStep ==
    answer' # answer =>
        /\ answer'.status = "noPlaylist" => ~rowExists(job.id)
        /\ answer'.status = "noTrack" =>
              rowExists(job.id) /\ job.track \notin DOMAIN entries[job.id]

LEMMA ReplyStatus ==
    /\ NoAnswer.status = "none" /\ NoAnswer.id = 0 /\ NoAnswer.list = <<>>
    /\ \A st : Reply(st) => answer'.status = st /\ answer'.id = 0 /\ answer'.list = <<>>
    /\ \A st, i, l : Render(st, i, l) => answer'.status = st /\ answer'.id = i /\ answer'.list = l
    /\ \A pg : LET a == [NoAnswer EXCEPT !.status = "ok", !.page = pg]
               IN  a.status = "ok" /\ a.id = 0 /\ a.list = <<>>
  BY DEF NoAnswer, Reply, Render

LEMMA NotFoundHolds == PlaylistsIInv /\ [Next]_vars => NotFoundStep
<1> SUFFICES ASSUME PlaylistsIInv, [Next]_vars, answer' # answer
             PROVE  /\ answer'.status = "noPlaylist" => ~rowExists(job.id)
                    /\ answer'.status = "noTrack" =>
                          rowExists(job.id) /\ job.track \notin DOMAIN entries[job.id]
  BY DEF NotFoundStep
<1>1. ASSUME NEW r \in Requests, Handle(r)
      PROVE  answer'.status \in {"badRequest", "none"}
  BY <1>1, ReplyStatus DEF Handle
<1>2. ASSUME List PROVE answer'.status = "ok"
  BY <1>2, ReplyStatus DEF List
<1>3. ASSUME FindById PROVE answer'.status = "noPlaylist" /\ ~rowExists(job.id)
  BY <1>3, ReplyStatus DEF FindById, Continue
<1>4. ASSUME Tracks \/ Create PROVE answer'.status \in {"ok", "created"}
  BY <1>4, ReplyStatus DEF Tracks, Create
<1>5. ASSUME Rename PROVE answer'.status = "noPlaylist" /\ ~rowExists(job.id)
  BY <1>5, ReplyStatus DEF Rename, Continue
<1>6. ASSUME Delete
      PROVE  answer'.status = "noContent" \/ (answer'.status = "noPlaylist" /\ ~rowExists(job.id))
  BY <1>6, ReplyStatus DEF Delete
<1>7. ASSUME AddTrack
      PROVE  \/ answer'.status = "noContent"
             \/ /\ answer'.status = "noTrack"
                /\ rowExists(job.id) /\ job.track \notin DOMAIN entries[job.id]
  <2>1. rowExists(job.id) /\ job.id \in Id
    BY <1>7 DEF AddTrack, PlaylistsIInv, JobSound, rowExists
  <2>2. tracks[job.track] = "none" => job.track \notin DOMAIN entries[job.id]
    BY <2>1 DEF PlaylistsIInv, EntriesRefer
  <2> QED BY <1>7, <2>1, <2>2, ReplyStatus DEF AddTrack
<1>8. ASSUME RemoveTrack
      PROVE  \/ answer'.status = "noContent"
             \/ /\ answer'.status = "noTrack"
                /\ rowExists(job.id) /\ job.track \notin DOMAIN entries[job.id]
  <2>1. rowExists(job.id)
    BY <1>8 DEF RemoveTrack, PlaylistsIInv, JobSound
  <2> QED BY <1>8, <2>1, ReplyStatus DEF RemoveTrack
<1>9. ASSUME Crash PROVE FALSE
  BY <1>9 DEF Crash
<1>10. ASSUME NEW t \in Track, Upsert(t) \/ SoftDelete(t) PROVE FALSE
  BY <1>10 DEF Upsert, SoftDelete
<1>11. ASSUME UNCHANGED vars PROVE FALSE
  BY <1>11 DEF vars
<1> QED BY <1>1, <1>2, <1>3, <1>4, <1>5, <1>6, <1>7, <1>8, <1>9, <1>10, <1>11 DEF Next

\* PLAYLIST_NOT_FOUND is answered only if there is no such playlist, and
\* TRACK_NOT_FOUND only if the playlist is there and the track cannot be added
\* to it or is not in it (Api.cpp:524-533, 545-556), whatever the scanner does
\* between the handler's repository calls.
THEOREM NotFoundAlwaysTrue == Spec => NotFoundIsTrue
<1>1. PlaylistsIInv /\ [Next]_vars => [NotFoundStep]_vars
  BY NotFoundHolds
<1>2. Spec => [][NotFoundStep]_vars
  BY <1>1, InitPlaylistsIInv, NextPlaylistsIInv, PTL DEF Spec
<1> QED BY <1>2 DEF NotFoundIsTrue, NotFoundStep

-----------------------------------------------------------------------------
(* The refinement: the lists and what is shown, of a state.                 *)

ListOf == [i \in Id |-> IF playlists[i] = NoRow THEN NoRow ELSE tracksOf(i)]

ShownOf == [id |-> answer.id, list |-> answer.list]

LEMMA ListOfEntries ==
    ASSUME PlaylistsIInv, NEW i \in Id, playlists[i] # NoRow
    PROVE  /\ ListOf[i] = ordered(entries[i]) /\ ListOf[i] # NoRow
           /\ Range(ListOf[i]) = DOMAIN entries[i]
<1> DEFINE e == entries[i]
<1>1. Entries(e) /\ DOMAIN e \subseteq Track
  BY DEF PlaylistsIInv, Tables
<1>2. ListOf[i] = ordered(e)
  BY DEF ListOf, tracksOf
<1>3. /\ ordered(e) \in Seq(DOMAIN e) /\ Len(ordered(e)) = Cardinality(DOMAIN e)
      /\ \A k \in 1..Cardinality(DOMAIN e) : ordered(e)[k] \in DOMAIN e
      /\ \A t \in DOMAIN e : ordered(e)[rank(e, t)] = t
      /\ \A t \in DOMAIN e : rank(e, t) \in 1..Cardinality(DOMAIN e)
  BY <1>1, OrderedProperties, RankProperties
<1>4. ordered(e) \in Seq(Track)
  BY <1>1, <1>3
<1>5. DOMAIN ordered(e) = 1..Cardinality(DOMAIN e)
  BY <1>3, LenProperties
<1>6. Range(ordered(e)) = DOMAIN e
  BY <1>3, <1>5 DEF Range
<1> QED BY <1>2, <1>4, <1>6, PlaylistAssumption

LEMMA NewRowIsNew ==
    ASSUME playlists \in [Id -> Name \cup {NoRow}], newRowId \in Id
    PROVE  playlists[newRowId] = NoRow
<1>1. CASE ids = {}
  BY <1>1 DEF ids
<1>2. CASE ids # {}
  <2>1. ids \in SUBSET (0..MaxId) /\ MaxId \in Nat
    BY PlaylistAssumption DEF ids, Id
  <2>2. Max(ids) \in ids /\ \A y \in ids : y <= Max(ids)
    BY <1>2, <2>1, MaxProperty
  <2>3. Max(ids) \in 1..MaxId /\ newRowId = Max(ids) + 1
    BY <1>2, <2>2 DEF newRowId, ids, Id
  <2>4. newRowId \notin ids
    BY <2>2, <2>3
  <2> QED BY <2>4 DEF ids
<1> QED BY <1>1, <1>2

LEMMA ClearStep ==
    ASSUME ListOf' = ListOf, answer'.id = 0, answer'.list = <<>>
    PROVE  Lists!Next
  BY DEF ListOf, Lists!Next, Lists!Clear, Lists!Nothing

LEMMA NextIsListsNext ==
    PlaylistsIInv /\ [Next]_vars => Lists!Next \/ UNCHANGED <<ListOf, ShownOf>>
<1> SUFFICES ASSUME PlaylistsIInv, [Next]_vars
             PROVE  Lists!Next \/ UNCHANGED <<ListOf, ShownOf>>
  OBVIOUS
<1>a. Tables /\ EntriesRefer /\ JobSound
  BY DEF PlaylistsIInv
<1>b. UNCHANGED <<playlists, entries>> => ListOf' = ListOf
  BY DEF ListOf, tracksOf
<1>c. answer' = answer => ShownOf' = ShownOf
  BY DEF ShownOf
<1>d. DOMAIN ListOf = Id /\ ListOf = [i \in Id |-> ListOf[i]]
      /\ DOMAIN ListOf' = Id /\ ListOf' = [i \in Id |-> ListOf'[i]]
  BY DEF ListOf
<1>1. ASSUME NEW r \in Requests, Handle(r) PROVE Lists!Next
  BY <1>1, <1>b, ReplyStatus, ClearStep DEF Handle
<1>2. ASSUME List PROVE Lists!Next
  BY <1>2, <1>b, ReplyStatus, ClearStep DEF List
<1>3. ASSUME FindById PROVE Lists!Next \/ UNCHANGED <<ListOf, ShownOf>>
  BY <1>3, <1>b, <1>c, ReplyStatus, ClearStep DEF FindById, Continue
<1>4. ASSUME Tracks PROVE Lists!Next
  <2>1. /\ job.id \in Id /\ playlists[job.id] # NoRow
        /\ answer'.id = job.id /\ answer'.list = ordered(entries[job.id])
        /\ ListOf' = ListOf
    BY <1>4, <1>b, ReplyStatus DEF Tracks, rowExists, tracksOf
  <2>2. ListOf[job.id] = ordered(entries[job.id]) /\ ListOf[job.id] # NoRow
    BY <2>1, ListOfEntries
  <2>3. ShownOf' = [id |-> job.id, list |-> ListOf[job.id]]
    BY <2>1, <2>2 DEF ShownOf
  <2>4. Lists!Show(job.id)
    BY <2>1, <2>2, <2>3 DEF Lists!Show, ListOf, ShownOf
  <2> QED BY <2>1, <2>4 DEF Lists!Next
<1>5. ASSUME Create PROVE Lists!Next
  <2>1. /\ newRowId \in Id /\ playlists' = [playlists EXCEPT ![newRowId] = job.name]
        /\ entries' = entries /\ job.name \in Name
        /\ answer'.id = newRowId /\ answer'.list = <<>>
    BY <1>5, <1>a, ReplyStatus DEF Create, JobSound
  <2>2. playlists[newRowId] = NoRow
    BY <2>1, <1>a, NewRowIsNew DEF Tables
  <2>3. ListOf[newRowId] = NoRow
    BY <2>1, <2>2 DEF ListOf
  <2>4. ListOf'[newRowId] = <<>>
    <3>1. DOMAIN entries[newRowId] = {}
      BY <2>1, <2>2, <1>a DEF EntriesRefer
    <3>2. playlists'[newRowId] # NoRow
      BY <2>1, <1>a, PlaylistAssumption DEF Tables
    <3> QED BY <2>1, <3>1, <3>2, OrderedEmpty DEF ListOf, tracksOf
  <2>5. \A i \in Id : i # newRowId => ListOf'[i] = ListOf[i]
    BY <2>1, <1>a DEF ListOf, tracksOf, Tables
  <2>6. ListOf' = [ListOf EXCEPT ![newRowId] = <<>>]
    BY <2>4, <2>5, <1>d
  <2>7. ShownOf' = [id |-> newRowId, list |-> <<>>]
    BY <2>1 DEF ShownOf
  <2>8. PICK j \in Id : j = newRowId
    BY <2>1
  <2>9. Lists!Create(j)
    BY <2>3, <2>6, <2>7, <2>8 DEF Lists!Create, ListOf, ShownOf
  <2> QED BY <2>9 DEF Lists!Next
<1>6. ASSUME Rename PROVE Lists!Next \/ UNCHANGED <<ListOf, ShownOf>>
  <2>1. CASE ~rowExists(job.id)
    BY <1>6, <2>1, <1>b, ReplyStatus, ClearStep DEF Rename
  <2>2. CASE rowExists(job.id)
    <3>1. /\ job.id \in Id /\ playlists[job.id] # NoRow /\ entries' = entries
          /\ playlists' = [playlists EXCEPT ![job.id] = job.name]
          /\ job.name # NoRow /\ answer' = answer
      BY <1>6, <2>2, <1>a, PlaylistAssumption DEF Rename, JobSound, rowExists, Continue
    <3>2. \A i \in Id : (playlists'[i] = NoRow) <=> (playlists[i] = NoRow)
      BY <3>1, <1>a DEF Tables
    <3>3. ListOf' = ListOf
      BY <3>1, <3>2 DEF ListOf, tracksOf
    <3> QED BY <3>1, <3>3, <1>c
  <2> QED BY <2>1, <2>2
<1>7. ASSUME Delete PROVE Lists!Next
  <2>1. CASE ~rowExists(job.id)
    BY <1>7, <2>1, <1>b, ReplyStatus, ClearStep DEF Delete
  <2>2. CASE rowExists(job.id)
    <3>1. /\ job.id \in Id /\ playlists[job.id] # NoRow
          /\ playlists' = [playlists EXCEPT ![job.id] = NoRow]
          /\ entries' = [entries EXCEPT ![job.id] = <<>>]
          /\ answer'.id = 0 /\ answer'.list = <<>>
      BY <1>7, <2>2, ReplyStatus DEF Delete, rowExists
    <3>2. ListOf[job.id] # NoRow
      BY <3>1, ListOfEntries
    <3>3. ListOf'[job.id] = NoRow
      BY <3>1, <1>a DEF ListOf, Tables
    <3>4. \A i \in Id : i # job.id => ListOf'[i] = ListOf[i]
      BY <3>1, <1>a DEF ListOf, tracksOf, Tables
    <3>5. ListOf' = [ListOf EXCEPT ![job.id] = NoRow]
      BY <3>3, <3>4, <1>d
    <3>6. PICK j \in Id : j = job.id
      BY <3>1
    <3>7. Lists!Delete(j)
      BY <3>1, <3>2, <3>5, <3>6 DEF Lists!Delete, Lists!Nothing, ListOf
    <3> QED BY <3>7 DEF Lists!Next
  <2> QED BY <2>1, <2>2
<1>8. ASSUME AddTrack PROVE Lists!Next
  <2>0. playlists' = playlists /\ answer'.id = 0 /\ answer'.list = <<>>
    BY <1>8, ReplyStatus DEF AddTrack
  <2>1. CASE entries' = entries
    BY <2>0, <2>1, <1>b, ClearStep
  <2>2. CASE entries' # entries
    <3> DEFINE e == entries[job.id]
               p == nextPosition(e)
               f == insert(e, job.track, p)
    <3>1. /\ job.id \in Id /\ playlists[job.id] # NoRow /\ job.track \notin DOMAIN e
          /\ entries' = [entries EXCEPT ![job.id] = f] /\ job.track \in Track
      BY <1>8, <2>2, <1>a DEF AddTrack, JobSound, rowExists
    <3>2. Entries(e) /\ \A t \in DOMAIN e : e[t] \in 0..MaxPosition
      BY <3>1, <1>a DEF Tables
    <3>3. p \in Nat /\ \A t \in DOMAIN e : e[t] < p
      BY <3>2, NextPosition, PlaylistAssumption
    <3>4. /\ ListOf[job.id] = ordered(e) /\ ListOf[job.id] # NoRow
          /\ Range(ListOf[job.id]) = DOMAIN e
      BY <3>1, ListOfEntries
    <3> HIDE DEF p, e
    <3>5. ordered(f) = Append(ordered(e), job.track)
      BY <3>1, <3>2, <3>3, OrderedInsert
    <3> HIDE DEF f
    <3>6. /\ entries'[job.id] = f /\ \A i \in Id : i # job.id => entries'[i] = entries[i]
      BY <3>1, <1>a DEF Tables
    <3>7. ListOf'[job.id] = Append(ListOf[job.id], job.track)
      BY <2>0, <3>1, <3>4, <3>5, <3>6 DEF ListOf, tracksOf
    <3>8. \A i \in Id : i # job.id => ListOf'[i] = ListOf[i]
      BY <2>0, <3>6 DEF ListOf, tracksOf
    <3>9. ListOf' = [ListOf EXCEPT ![job.id] = Append(@, job.track)]
      BY <3>7, <3>8, <1>d
    <3>10. PICK j \in Id, t \in Track : j = job.id /\ t = job.track
      BY <3>1
    <3>11. Lists!AddLast(j, t)
      BY <2>0, <3>1, <3>4, <3>9, <3>10
      DEF Lists!AddLast, Lists!Nothing, Lists!Range, Range, ListOf
    <3> QED BY <3>11 DEF Lists!Next
  <2> QED BY <2>1, <2>2
<1>9. ASSUME RemoveTrack PROVE Lists!Next
  <2>0. playlists' = playlists /\ answer'.id = 0 /\ answer'.list = <<>>
    BY <1>9, ReplyStatus DEF RemoveTrack
  <2>1. CASE ~(rowExists(job.id) /\ job.track \in DOMAIN entries[job.id])
    BY <1>9, <2>0, <2>1, <1>b, ClearStep DEF RemoveTrack
  <2>2. CASE rowExists(job.id) /\ job.track \in DOMAIN entries[job.id]
    <3> DEFINE e == entries[job.id]
               f == Without(e, job.track)
               k == rank(e, job.track)
    <3>1. /\ job.id \in Id /\ playlists[job.id] # NoRow /\ job.track \in DOMAIN e
          /\ entries' = [entries EXCEPT ![job.id] = f] /\ job.track \in Track
      BY <1>9, <2>2, <1>a DEF RemoveTrack, rowExists, Tables
    <3>2. Entries(e)
      BY <3>1, <1>a DEF Tables
    <3>3. ListOf[job.id] = ordered(e) /\ ListOf[job.id] # NoRow
      BY <3>1, ListOfEntries
    <3> HIDE DEF e
    <3>4. ordered(f) = RemoveAt(ordered(e), k)
      BY <3>1, <3>2, OrderedWithout
    <3>5. k \in DOMAIN ordered(e) /\ ordered(e)[k] = job.track
      BY <3>1, <3>2, OrderedProperties, RankProperties, LenProperties
    <3> HIDE DEF f, k
    <3>6. /\ entries'[job.id] = f /\ \A i \in Id : i # job.id => entries'[i] = entries[i]
      BY <3>1, <1>a DEF Tables
    <3>7. ListOf'[job.id] = RemoveAt(ListOf[job.id], k)
      BY <2>0, <3>1, <3>3, <3>4, <3>6 DEF ListOf, tracksOf
    <3>8. \A i \in Id : i # job.id => ListOf'[i] = ListOf[i]
      BY <2>0, <3>6 DEF ListOf, tracksOf
    <3>9. ListOf' = [ListOf EXCEPT ![job.id] = RemoveAt(@, k)]
      BY <3>7, <3>8, <1>d
    <3>10. PICK j \in Id, t \in Track : j = job.id /\ t = job.track
      BY <3>1
    <3>11. Lists!TakeOut(j, t)
      BY <2>0, <3>1, <3>3, <3>5, <3>9, <3>10
      DEF Lists!TakeOut, Lists!Nothing, Lists!RemoveAt, RemoveAt, ListOf
    <3> QED BY <3>11 DEF Lists!Next
  <2> QED BY <2>1, <2>2
<1>10. ASSUME Crash PROVE UNCHANGED <<ListOf, ShownOf>>
  BY <1>10, <1>b, <1>c DEF Crash
<1>11. ASSUME NEW t \in Track, Upsert(t) \/ SoftDelete(t)
       PROVE  UNCHANGED <<ListOf, ShownOf>>
  BY <1>11, <1>b, <1>c DEF Upsert, SoftDelete
<1>12. CASE UNCHANGED vars
  BY <1>12, <1>b, <1>c DEF vars
<1> QED BY <1>1, <1>2, <1>3, <1>4, <1>5, <1>6, <1>7, <1>8, <1>9, <1>10, <1>11, <1>12 DEF Next

\* Positions with gaps, cascading deletes and reused ids implement plain lists
\* in the order of insertion, and a rendered playlist shows its list
\* (SqlitePlaylistRepository.cpp:88-180): each step of a handler, of the
\* scanner or of a restart is a step of PlaylistLists or changes nothing there.
THEOREM PlaylistsAreLists == Spec => ImplementsLists
<1>1. Init => Lists!Init
  BY ReplyStatus DEF Init, Lists!Init, Lists!Nothing
<1>2. PlaylistsIInv /\ [Next]_vars => [Lists!Next]_<<ListOf, ShownOf>>
  BY NextIsListsNext
<1>3. Spec => []PlaylistsIInv
  BY InitPlaylistsIInv, NextPlaylistsIInv, PTL DEF Spec
<1> QED BY <1>1, <1>2, <1>3, PTL DEF Spec, ImplementsLists, Lists!Spec, ListOf, ShownOf
=============================================================================
