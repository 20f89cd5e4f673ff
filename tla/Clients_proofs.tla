--------------------------- MODULE Clients_proofs ---------------------------
(***************************************************************************)
(* Proofs about the clients: one HTTP exchange of the sync client and its  *)
(* commands, playback and search of the iOS app.                           *)
(***************************************************************************)
EXTENDS HttpClient, SyncPush, Playback, SearchView,
        FiniteSetTheorems, SequenceTheorems, WellFoundedInduction, TLAPS

(* SearchView.                                                              *)

SearchJob == [text : Query, at : {"sleep", "request", "done"}, cancelled : BOOLEAN]

Shown == [state : {"idle", "loading", "loaded", "failed"}, of : Query \cup {Blank}]

\* Only the last Task may be wanted: it is if there is a query, and then it is
\* about that query and results say how far it has come.
LastTask ==
    /\ \A i \in 1..searchTask - 1 : tasks[i].cancelled
    /\ query = Blank => /\ results = Idle
                        /\ searchTask # 0 => tasks[searchTask].cancelled
    /\ query # Blank =>
           /\ searchTask # 0 /\ tasks[searchTask].text = query /\ ~tasks[searchTask].cancelled
           /\ tasks[searchTask].at = "done" =>
                  results.state \in {"loaded", "failed"} /\ results.of = query

SearchIInv ==
    /\ query \in Query \cup {Blank} /\ results \in Shown
    /\ searchTask \in 0..MaxEdits /\ tasks \in [1..searchTask -> SearchJob]
    /\ LastTask

LEMMA SearchInitIInv == SearchInit => SearchIInv
<1> SUFFICES ASSUME SearchInit PROVE SearchIInv
  OBVIOUS
<1>1. searchTask \in 0..MaxEdits /\ 1..searchTask = {}
  BY SearchAssumption DEF SearchInit
<1>2. tasks \in [1..searchTask -> SearchJob]
  BY <1>1 DEF SearchInit
<1>3. Idle \in Shown
  BY DEF Idle, Shown
<1>4. LastTask
  BY DEF SearchInit, LastTask
<1> QED BY <1>1, <1>2, <1>3, <1>4 DEF SearchInit, SearchIInv

\* The Tasks after the last one was cancelled.
LEMMA Cancelled ==
    ASSUME SearchIInv
    PROVE  /\ cancelled(tasks) \in [1..searchTask -> SearchJob]
           /\ \A i \in 1..searchTask : cancelled(tasks)[i].cancelled
<1>1. CASE searchTask = 0
  <2>1. cancelled(tasks) = tasks
    BY <1>1 DEF cancelled
  <2>2. \A i : i \notin 1..searchTask
    BY <1>1
  <2> QED BY <2>1, <2>2 DEF SearchIInv
<1>2. CASE searchTask # 0
  <2> DEFINE last == [tasks[searchTask] EXCEPT !.cancelled = TRUE]
  <2>1. cancelled(tasks) = [tasks EXCEPT ![searchTask] = last]
    BY <1>2 DEF cancelled
  <2>2. searchTask \in 1..searchTask /\ \A i \in 1..searchTask : i # searchTask => i \in 1..searchTask - 1
    BY <1>2 DEF SearchIInv
  <2>3. last \in SearchJob /\ last.cancelled
    BY <2>2 DEF SearchIInv, SearchJob
  <2> HIDE DEF last
  <2> QED BY <2>1, <2>2, <2>3 DEF SearchIInv, LastTask
<1> QED BY <1>1, <1>2

LEMMA SearchNextIInv == SearchIInv /\ [SearchNext]_searchVars => SearchIInv'
<1> SUFFICES ASSUME SearchIInv, [SearchNext]_searchVars PROVE SearchIInv'
  OBVIOUS
<1>a. /\ searchTask \in Nat /\ tasks \in [1..searchTask -> SearchJob] /\ results \in Shown
      /\ DOMAIN tasks = 1..searchTask /\ query \in Query \cup {Blank} /\ LastTask
  BY SearchAssumption DEF SearchIInv
<1>1. ASSUME NEW q \in Query \cup {Blank}, scheduleSearch(q) PROVE SearchIInv'
  <2>1. Cardinality(DOMAIN tasks) = searchTask
    <3>1. Cardinality(1..searchTask) = searchTask
      BY <1>a, FS_Interval
    <3> QED BY <3>1, <1>a
  <2>2. searchTask + 1 \in 0..MaxEdits /\ query' = q
    BY <1>1, <2>1, <1>a, SearchAssumption DEF scheduleSearch
  <2>3. CASE q = Blank
    <3>1. results' = Idle /\ tasks' = cancelled(tasks) /\ searchTask' = searchTask
      BY <1>1, <2>3 DEF scheduleSearch, blanked
    <3>2. Idle \in Shown
      BY DEF Idle, Shown
    <3>3. LastTask'
      BY <2>2, <2>3, <3>1, <1>a, Cancelled DEF LastTask
    <3> QED BY <2>2, <3>1, <3>2, <3>3, Cancelled DEF SearchIInv
  <2>4. CASE q # Blank
    <3> DEFINE id == searchTask + 1
               new == [text |-> q, at |-> "sleep", cancelled |-> FALSE]
    <3>1. /\ results' = results /\ searchTask' = id
          /\ tasks' = [i \in 1..id |-> IF i = id THEN new ELSE cancelled(tasks)[i]]
      BY <1>1, <2>1, <2>4 DEF scheduleSearch
    <3>2. new \in SearchJob /\ new.text = q /\ ~new.cancelled /\ new.at = "sleep"
      BY <2>4 DEF SearchJob
    <3>3. id \in 1..id /\ \A i \in 1..id : i # id => i \in 1..searchTask
      BY <1>a
    <3> HIDE DEF new
    <3>4. /\ tasks' \in [1..searchTask' -> SearchJob] /\ tasks'[id] = new
          /\ \A i \in 1..searchTask : tasks'[i].cancelled
      BY <3>1, <3>2, <3>3, <1>a, Cancelled
    <3>5. 1..searchTask' - 1 = 1..searchTask /\ id # 0
      BY <3>1, <1>a
    <3>6. LastTask'
      BY <2>2, <2>4, <3>1, <3>2, <3>4, <3>5 DEF LastTask
    <3> QED BY <2>2, <3>1, <3>4, <3>6, <1>a DEF SearchIInv
  <2> QED BY <2>3, <2>4
<1>2. ASSUME NEW i \in DOMAIN tasks, NEW place \in {"request", "done"}, Go(i, place),
             UNCHANGED <<query, searchTask>>, results' \in Shown,
             tasks[i].cancelled => results' = results,
             ~tasks[i].cancelled /\ place = "done" =>
                 results'.state \in {"loaded", "failed"} /\ results'.of = tasks[i].text,
             tasks[i].at # "done"
      PROVE  SearchIInv'
  <2> DEFINE x == [tasks[i] EXCEPT !.at = place]
  <2>1. /\ x \in SearchJob /\ x.at = place /\ x.text = tasks[i].text
        /\ x.cancelled = tasks[i].cancelled
    BY <1>a DEF SearchJob
  <2>2. tasks' = [tasks EXCEPT ![i] = x]
    BY <1>2 DEF Go
  <2> HIDE DEF x
  <2>3. /\ tasks' \in [1..searchTask -> SearchJob] /\ tasks'[i] = x
        /\ \A j \in 1..searchTask : j # i => tasks'[j] = tasks[j]
    BY <2>1, <2>2, <1>a
  <2>4. /\ \A j \in 1..searchTask : tasks'[j].cancelled = tasks[j].cancelled
        /\ \A j \in 1..searchTask : tasks'[j].text = tasks[j].text
    BY <2>1, <2>3
  <2>5. searchTask # 0 => searchTask \in 1..searchTask
    BY <1>a
  <2>6. \A j \in 1..searchTask : j # searchTask => j \in 1..searchTask - 1
    BY <1>a
  <2>7. /\ \A j \in 1..searchTask - 1 : j \in 1..searchTask /\ tasks[j].cancelled
        /\ i \in 1..searchTask
    BY <1>a DEF LastTask
  <2>8. CASE query = Blank
    <3>1. tasks[i].cancelled
      BY <2>8, <2>6, <2>7, <1>a DEF LastTask
    <3> QED BY <1>2, <2>3, <2>4, <2>5, <2>7, <2>8, <3>1, <1>a DEF LastTask, SearchIInv
  <2>9. CASE query # Blank
    <3>1. searchTask # 0 /\ tasks[searchTask].text = query /\ ~tasks[searchTask].cancelled
      BY <2>9, <1>a DEF LastTask
    <3>2. tasks'[searchTask].at = "done" =>
              results'.state \in {"loaded", "failed"} /\ results'.of = query
      <4>1. CASE i = searchTask
        BY <1>2, <2>1, <2>3, <3>1, <4>1
      <4>2. CASE i # searchTask
        BY <1>2, <2>3, <2>5, <2>6, <2>7, <2>9, <3>1, <4>2, <1>a DEF LastTask
      <4> QED BY <4>1, <4>2
    <3>3. LastTask'
      BY <1>2, <2>4, <2>5, <2>7, <2>9, <3>1, <3>2 DEF LastTask
    <3> QED BY <1>2, <2>3, <3>3 DEF SearchIInv
  <2> QED BY <2>8, <2>9
<1>3. ASSUME NEW i \in DOMAIN tasks, performSearch(i) PROVE SearchIInv'
  <2>1. tasks[i].text \in Query
    BY <1>a DEF SearchJob
  <2>2. CASE tasks[i].cancelled
    BY <1>2, <1>3, <2>2, <1>a DEF performSearch
  <2>3. CASE ~tasks[i].cancelled
    <3>1. results' = [state |-> "loading", of |-> tasks[i].text] /\ Go(i, "request")
      BY <1>3, <2>3 DEF performSearch
    <3>2. results' \in Shown
      BY <2>1, <3>1 DEF Shown
    <3> QED BY <1>2, <1>3, <2>3, <3>1, <3>2 DEF performSearch
  <2> QED BY <2>2, <2>3
<1>4. ASSUME NEW i \in DOMAIN tasks, NEW st \in {"loaded", "failed"}, Answer(i, st)
      PROVE  SearchIInv'
  <2>1. tasks[i].text \in Query
    BY <1>a DEF SearchJob
  <2>2. CASE tasks[i].cancelled
    BY <1>2, <1>4, <2>2, <1>a DEF Answer, shown
  <2>3. CASE ~tasks[i].cancelled
    <3>1. results' = [state |-> st, of |-> tasks[i].text] /\ Go(i, "done")
      BY <1>4, <2>3 DEF Answer, shown
    <3>2. results' \in Shown /\ results'.state = st /\ results'.of = tasks[i].text
      BY <2>1, <3>1 DEF Shown
    <3> QED BY <1>2, <1>4, <2>3, <3>1, <3>2 DEF Answer
  <2> QED BY <2>2, <2>3
<1>5. CASE UNCHANGED searchVars
  BY <1>5 DEF searchVars, SearchIInv, LastTask
<1> QED BY <1>1, <1>3, <1>4, <1>5 DEF SearchNext

LEMMA SearchIInvImplies == SearchIInv => SearchSafe
<1> SUFFICES ASSUME SearchIInv PROVE SearchSafe
  OBVIOUS
<1>1. DOMAIN tasks = 1..searchTask /\ searchTask \in Nat
  BY SearchAssumption DEF SearchIInv
<1>2. \A i \in DOMAIN tasks : i # searchTask => tasks[i].cancelled
  <2>1. \A i \in 1..searchTask : i # searchTask => i \in 1..searchTask - 1
    BY <1>1
  <2> QED BY <1>1, <2>1 DEF SearchIInv, LastTask
<1>3. SearchTypeOK
  BY <1>2 DEF SearchIInv, Shown, SearchTypeOK
<1>4. BlankShowsNothing
  BY DEF SearchIInv, LastTask, BlankShowsNothing
<1>5. ShownIsCurrent
  <2>1. searchTask # 0 => searchTask \in DOMAIN tasks
    BY <1>1
  <2> QED BY <2>1 DEF SearchIInv, LastTask, ShownIsCurrent
<1> QED BY <1>3, <1>4, <1>5 DEF SearchSafe

\* In whatever order sleeps end and answers come, an empty field shows nothing
\* and what is finally shown is about the text in the field
\* (SearchViewModel.swift:20-47), for any number of edits.
THEOREM SearchIsSafe == SearchSpec => []SearchSafe
  BY SearchInitIInv, SearchNextIInv, SearchIInvImplies, PTL DEF SearchSpec

-----------------------------------------------------------------------------
(* HttpClient.                                                              *)

CallPhases == {"idle", "stat", "open", "connect", "head", "read", "send", "recvHead",
               "recvBody", "returned", "killed"}

CallTypes ==
    /\ file \in 0..MaxSize
    /\ call \in [op : {"none", "get", "post"}, phase : CallPhases, declared : 0..MaxSize,
                 pos : 0..MaxSize, pending : 0..Chunk, got : 0..Response,
                 connected : BOOLEAN, ok : BOOLEAN, short : BOOLEAN]
    /\ link \in [state : {"none", "up", "fin", "rst", "pipe"}, up : 0..Window, down : 0..Window]
    /\ peer \in [read : Nat, status : {"none", "ok", "refused"}, lengthGiven : BOOLEAN,
                 sent : 0..Response]

\* Until there is a connection the peer knows nothing, and there is none any
\* more when the call is over.
Connected ==
    /\ call.phase \in {"idle", "stat", "open", "connect"} => peer = NoPeer /\ link = NoLink
    /\ call.phase \in {"returned", "killed"} => link = NoLink

\* What is received and under way is not more than was sent, and the server
\* says ok only to a request it has all of.
Accounted ==
    /\ call.got + link.down <= peer.sent
    /\ peer.status = "ok" => peer.read >= 1 + call.declared
    /\ call.ok => peer.status = "ok"

CallIInv == CallTypes /\ Connected /\ Accounted

LEMMA CallNumbers ==
    /\ Response \in Nat /\ 0 \in 0..Response /\ 0 \in 0..Window /\ 0 \in 0..MaxSize
    /\ 0 \in 0..Chunk
  BY ClientAssumption DEF Response, ResponseHead

LEMMA CallBlank ==
    /\ Fresh \in [op : {"none", "get", "post"}, phase : CallPhases, declared : 0..MaxSize,
                  pos : 0..MaxSize, pending : 0..Chunk, got : 0..Response,
                  connected : BOOLEAN, ok : BOOLEAN, short : BOOLEAN]
    /\ Fresh.phase = "idle" /\ Fresh.got = 0 /\ Fresh.ok = FALSE
    /\ NoLink \in [state : {"none", "up", "fin", "rst", "pipe"}, up : 0..Window, down : 0..Window]
    /\ NoLink.state = "none" /\ NoLink.up = 0 /\ NoLink.down = 0
    /\ NoPeer \in [read : Nat, status : {"none", "ok", "refused"}, lengthGiven : BOOLEAN,
                   sent : 0..Response]
    /\ NoPeer.status = "none" /\ NoPeer.sent = 0 /\ NoPeer.read = 0
  BY CallNumbers DEF Fresh, NoLink, NoPeer, CallPhases

LEMMA CallInitIInv == CallInit => CallIInv
<1> SUFFICES ASSUME CallInit PROVE CallIInv
  OBVIOUS
<1>1. CallTypes
  BY CallBlank DEF CallInit, CallTypes
<1>2. Connected
  BY CallBlank DEF CallInit, Connected
<1>3. Accounted
  BY CallBlank DEF CallInit, Accounted
<1> QED BY <1>1, <1>2, <1>3 DEF CallIInv

\* Every return: the socket is closed, and success is what the peer said.
LEMMA ReturnStep ==
    ASSUME CallIInv, NEW c, NEW connected \in BOOLEAN, Return(c, connected),
           c \in [op : {"none", "get", "post"}, phase : CallPhases, declared : 0..MaxSize,
                  pos : 0..MaxSize, pending : 0..Chunk, got : 0..Response,
                  connected : BOOLEAN, ok : BOOLEAN, short : BOOLEAN],
           c.declared = call.declared, c.got <= peer.sent, UNCHANGED <<file, peer>>
    PROVE  CallIInv'
<1> DEFINE yes == uploadFile(connected, peer.status)
<1>1. yes \in BOOLEAN /\ (yes => peer.status = "ok")
  BY DEF uploadFile
<1>2. /\ call' = [c EXCEPT !.phase = "returned", !.connected = connected, !.ok = yes]
      /\ link' = NoLink
  BY DEF Return
<1> HIDE DEF yes
<1>3. /\ call' \in [op : {"none", "get", "post"}, phase : CallPhases, declared : 0..MaxSize,
                    pos : 0..MaxSize, pending : 0..Chunk, got : 0..Response,
                    connected : BOOLEAN, ok : BOOLEAN, short : BOOLEAN]
      /\ call'.phase = "returned" /\ call'.ok = yes /\ call'.declared = c.declared
      /\ call'.got = c.got
  BY <1>1, <1>2 DEF CallPhases
<1>4. CallTypes'
  BY <1>2, <1>3, CallBlank DEF CallIInv, CallTypes
<1>5. Connected'
  BY <1>2, <1>3 DEF Connected
<1>6. c.got + 0 <= peer.sent
  <2>1. c.got \in 0..Response
    OBVIOUS
  <2> QED BY <2>1, CallNumbers
<1>7. Accounted'
  BY <1>1, <1>2, <1>3, <1>6, CallBlank DEF CallIInv, Accounted
<1> QED BY <1>4, <1>5, <1>7 DEF CallIInv

\* A step of the client on an open connection, or before there is one, that
\* leaves the declared length alone and takes from the connection at most what
\* it counts as received.
LEMMA ClientStep ==
    ASSUME CallIInv, CallTypes', peer' = peer,
           call'.declared = call.declared, call'.ok = call.ok,
           call'.got + link'.down <= call.got + link.down,
           Connected'
    PROVE  CallIInv'
<1>1. /\ call'.got \in Int /\ call.got \in Int /\ link'.down \in Int /\ link.down \in Int
      /\ peer.sent \in Int
  BY CallNumbers, ClientAssumption DEF CallIInv, CallTypes
<1>2. call.got + link.down <= peer.sent
  BY DEF CallIInv, Accounted
<1>3. call'.got + link'.down <= peer.sent
  BY <1>1, <1>2
<1> QED BY <1>3 DEF CallIInv, Accounted

\* The connection is open only while the client sends or waits for an answer.
LEMMA LinkUp ==
    ASSUME CallIInv, link.state # "none"
    PROVE  call.phase \in {"head", "read", "send", "recvHead", "recvBody"}
  BY CallBlank DEF CallIInv, CallTypes, CallPhases, Connected

\* A step of the peer or of the connection.
LEMMA PeerStep ==
    ASSUME CallIInv, link.state # "none", CallTypes', call' = call,
           call.got + link'.down <= peer'.sent, peer'.read >= peer.read,
           peer'.status = peer.status
    PROVE  CallIInv'
<1>1. Connected'
  BY LinkUp DEF Connected
<1>2. /\ peer'.read \in Int /\ peer.read \in Int /\ call.declared \in Int
  BY ClientAssumption DEF CallIInv, CallTypes
<1>3. peer.status = "ok" => peer'.read >= 1 + call.declared
  BY <1>2 DEF CallIInv, Accounted
<1>4. Accounted'
  BY <1>3 DEF CallIInv, Accounted
<1> QED BY <1>1, <1>4 DEF CallIInv

LEMMA SetupKeepsIInv ==
    ASSUME CallIInv,
           \/ \E op \in {"get", "post"} : BeginCall(op)
           \/ Stat \/ Open \/ Connect
    PROVE  CallIInv'
<1> USE DEF CallIInv
<1>1. ASSUME NEW op \in {"get", "post"}, BeginCall(op) PROVE CallIInv'
  <2>1. CallTypes'
    BY <1>1 DEF CallTypes, BeginCall, CallPhases
  <2>2. Connected'
    BY <1>1 DEF Connected, BeginCall, CallTypes
  <2> QED BY <1>1, <2>1, <2>2 DEF Accounted, BeginCall, CallTypes
<1>2. CASE Stat
  <2>1. CallTypes'
    BY <1>2 DEF CallTypes, Stat, CallPhases
  <2>2. Connected'
    BY <1>2 DEF Connected, Stat, CallTypes
  <2>3. peer = NoPeer
    BY <1>2 DEF Connected, Stat
  <2> QED BY <1>2, <2>1, <2>2, <2>3, CallBlank DEF Accounted, Stat, CallTypes
<1>3. CASE Open
  <2>1. CallTypes'
    BY <1>3 DEF CallTypes, Open, Goto, CallPhases
  <2>2. Connected'
    BY <1>3 DEF Connected, Open, Goto, CallTypes
  <2> QED BY <1>3, <2>1, <2>2 DEF Accounted, Open, Goto, CallTypes
<1>4. CASE Connect
  <2>1. link' \in [state : {"none", "up", "fin", "rst", "pipe"}, up : 0..Window, down : 0..Window]
        /\ link'.down = link.down
    BY <1>4, CallBlank DEF Connect, Connected
  <2>2. CallTypes'
    BY <1>4, <2>1 DEF CallTypes, Connect, CallPhases
  <2>3. Connected'
    BY <1>4 DEF Connected, Connect, CallTypes
  <2> QED BY <1>4, <2>1, <2>2, <2>3 DEF Accounted, Connect, CallTypes
<1> QED BY <1>1, <1>2, <1>3, <1>4

\* What the client sends leaves what comes down alone.
LEMMA SendProperty ==
    ASSUME CallIInv, NEW n \in Nat, Send(n)
    PROVE  /\ link' \in [state : {"none", "up", "fin", "rst", "pipe"}, up : 0..Window,
                         down : 0..Window]
           /\ link'.down = link.down
           /\ link.state # "none"
<1>1. CASE link.state = "up" /\ link.up + n <= Window /\ link' = [link EXCEPT !.up = @ + n]
  <2>1. link.up + n \in 0..Window
    BY <1>1, ClientAssumption DEF CallIInv, CallTypes
  <2> QED BY <1>1, <2>1 DEF CallIInv, CallTypes
<1>2. CASE link.state = "fin" /\ \E s \in {"fin", "pipe"} : link' = [link EXCEPT !.state = s]
  BY <1>2 DEF CallIInv, CallTypes
<1> QED BY <1>1, <1>2 DEF Send

LEMMA SendingKeepsIInv ==
    ASSUME CallIInv,
           \/ SendHead \/ ReadChunk \/ ReadFails \/ \E n \in 1..Chunk : SendChunk(n)
    PROVE  CallIInv'
<1> USE DEF CallIInv
<1>1. CASE SendHead
  <2>1. /\ link' \in [state : {"none", "up", "fin", "rst", "pipe"}, up : 0..Window,
                      down : 0..Window]
        /\ link'.down = link.down
    BY <1>1, SendProperty DEF SendHead
  <2>2. CallTypes'
    BY <1>1, <2>1 DEF CallTypes, SendHead, CallPhases
  <2>3. Connected'
    BY <1>1 DEF Connected, SendHead, CallTypes
  <2> QED BY <1>1, <2>1, <2>2, <2>3 DEF Accounted, SendHead, CallTypes
<1>2. CASE ReadChunk
  <2> DEFINE n == IF file - call.pos > Chunk THEN Chunk ELSE file - call.pos
  <2>1. n \in Int /\ (~(n <= 0) => n \in 0..Chunk /\ call.pos + n \in 0..MaxSize)
    BY ClientAssumption DEF CallTypes
  <2>2. call' = IF n <= 0
                THEN [call EXCEPT !.phase = "recvHead", !.short = call.pos < call.declared]
                ELSE [call EXCEPT !.phase = "send", !.pending = n, !.pos = @ + n]
    BY <1>2 DEF ReadChunk
  <2> HIDE DEF n
  <2>3. (call.pos < call.declared) \in BOOLEAN
    OBVIOUS
  <2>4. /\ call' \in [op : {"none", "get", "post"}, phase : CallPhases, declared : 0..MaxSize,
                    pos : 0..MaxSize, pending : 0..Chunk, got : 0..Response,
                    connected : BOOLEAN, ok : BOOLEAN, short : BOOLEAN]
        /\ call'.phase \in {"recvHead", "send"} /\ call'.ok = call.ok
        /\ call'.declared = call.declared /\ call'.got = call.got
    <3>1. CASE n <= 0
      BY <2>2, <2>3, <3>1 DEF CallTypes, CallPhases
    <3>2. CASE ~(n <= 0)
      BY <2>1, <2>2, <3>2 DEF CallTypes, CallPhases
    <3> QED BY <3>1, <3>2
  <2>5. CallTypes'
    BY <1>2, <2>4 DEF CallTypes, ReadChunk
  <2>6. Connected'
    BY <2>4 DEF Connected
  <2> QED BY <1>2, <2>4, <2>5, <2>6 DEF Accounted, ReadChunk
<1>3. CASE ReadFails
  <2>1. CallTypes'
    <3>1. (call.pos < call.declared) \in BOOLEAN
      OBVIOUS
    <3> QED BY <1>3, <3>1 DEF CallTypes, ReadFails, CallPhases
  <2>2. Connected'
    BY <1>3 DEF Connected, ReadFails, CallTypes
  <2> QED BY <1>3, <2>1, <2>2 DEF Accounted, ReadFails, CallTypes
<1>4. ASSUME NEW n \in 1..Chunk, SendChunk(n) PROVE CallIInv'
  <2>1. /\ link' \in [state : {"none", "up", "fin", "rst", "pipe"}, up : 0..Window,
                      down : 0..Window]
        /\ link'.down = link.down
    <3>1. n \in Nat
      BY ClientAssumption
    <3> QED BY <1>4, <3>1, SendProperty DEF SendChunk
  <2>2. call.pending - n \in 0..Chunk
    <3>1. call.pending \in 0..Chunk
      BY DEF CallTypes
    <3>2. n \in 1..call.pending
      BY <1>4 DEF SendChunk
    <3> QED BY <3>1, <3>2, ClientAssumption
  <2>3. CallTypes'
    BY <1>4, <2>1, <2>2 DEF CallTypes, SendChunk, CallPhases
  <2>4. Connected'
    BY <1>4 DEF Connected, SendChunk, CallTypes
  <2> QED BY <1>4, <2>1, <2>3, <2>4 DEF Accounted, SendChunk, CallTypes
<1> QED BY <1>1, <1>2, <1>3, <1>4

LEMMA ReceivingKeepsIInv ==
    ASSUME CallIInv, NEW n \in 1..Window, Recv(n)
    PROVE  CallIInv'
<1> DEFINE c == [call EXCEPT !.got = @ + n,
                    !.phase = IF call.got + n >= ResponseHead THEN "recvBody" ELSE @]
<1>1. /\ n \in 1..link.down /\ UNCHANGED <<file, peer>>
      /\ call.phase \in {"recvHead", "recvBody"}
      /\ IF c.phase = "recvBody" /\ bodyDone(c.got)
         THEN Return(c, TRUE)
         ELSE call' = c /\ link' = [link EXCEPT !.down = @ - n]
  BY DEF Recv
<1>2. /\ call.got + n \in 0..Response /\ call.got + n <= peer.sent
      /\ link.down - n \in 0..Window
      /\ (call.got + n) + (link.down - n) = call.got + link.down
  BY <1>1, CallNumbers, ClientAssumption DEF CallIInv, CallTypes, Accounted
<1>3. /\ c \in [op : {"none", "get", "post"}, phase : CallPhases, declared : 0..MaxSize,
                pos : 0..MaxSize, pending : 0..Chunk, got : 0..Response,
                connected : BOOLEAN, ok : BOOLEAN, short : BOOLEAN]
      /\ c.declared = call.declared /\ c.got = call.got + n /\ c.ok = call.ok
      /\ c.phase \in {"recvHead", "recvBody"}
  BY <1>1, <1>2 DEF CallIInv, CallTypes, CallPhases
<1> HIDE DEF c
<1>4. CASE Return(c, TRUE)
  BY <1>1, <1>2, <1>3, <1>4, ReturnStep
<1>5. CASE call' = c /\ link' = [link EXCEPT !.down = @ - n]
  <2>1. CallTypes'
    BY <1>1, <1>2, <1>3, <1>5 DEF CallIInv, CallTypes
  <2>2. Connected'
    BY <1>3, <1>5 DEF Connected
  <2>3. link'.down = link.down - n
    BY <1>5 DEF CallIInv, CallTypes
  <2> QED BY <1>1, <1>2, <1>3, <1>5, <2>1, <2>2, <2>3 DEF CallIInv, Accounted
<1> QED BY <1>1, <1>4, <1>5

\* The ways a call ends without an answer that is complete.
LEMMA EndingKeepsIInv ==
    ASSUME CallIInv,
           SetupFails \/ SendFails \/ SigPipe \/ RecvEof \/ RecvFails \/ Again
    PROVE  CallIInv'
<1>1. /\ call \in [op : {"none", "get", "post"}, phase : CallPhases, declared : 0..MaxSize,
                   pos : 0..MaxSize, pending : 0..Chunk, got : 0..Response,
                   connected : BOOLEAN, ok : BOOLEAN, short : BOOLEAN]
      /\ call.got <= peer.sent
  BY CallNumbers, ClientAssumption DEF CallIInv, CallTypes, Accounted
<1>2. ASSUME NEW b \in BOOLEAN, Return(call, b), UNCHANGED <<file, peer>> PROVE CallIInv'
  BY <1>1, <1>2, ReturnStep
<1>3. CASE SetupFails
  BY <1>2, <1>3 DEF SetupFails
<1>4. CASE SendFails
  BY <1>2, <1>4 DEF SendFails
<1>5. CASE RecvEof
  <2>1. (call.phase = "recvBody") \in BOOLEAN
    OBVIOUS
  <2> QED BY <1>2, <1>5, <2>1 DEF RecvEof
<1>6. CASE RecvFails
  <2>1. (call.phase = "recvBody" /\ ~peer.lengthGiven) \in BOOLEAN
    OBVIOUS
  <2> QED BY <1>2, <1>6, <2>1 DEF RecvFails
<1>7. CASE SigPipe
  <2>1. CallTypes'
    BY <1>7, CallBlank DEF CallIInv, CallTypes, SigPipe, CallPhases
  <2>2. Connected'
    BY <1>7 DEF CallIInv, CallTypes, Connected, SigPipe
  <2>3. call'.got = call.got /\ call'.declared = call.declared /\ call'.ok = call.ok
    BY <1>7 DEF CallIInv, CallTypes, SigPipe
  <2>4. call.got + 0 <= peer.sent
    BY <1>1, CallNumbers
  <2> QED BY <1>7, <2>1, <2>2, <2>3, <2>4, CallBlank DEF CallIInv, Accounted, SigPipe
<1>8. CASE Again
  <2>1. CallTypes'
    BY <1>8, CallBlank DEF CallIInv, CallTypes, Again
  <2>2. Connected'
    BY <1>8, CallBlank DEF Connected, Again
  <2>3. Accounted'
    BY <1>8, CallBlank DEF Accounted, Again
  <2> QED BY <2>1, <2>2, <2>3 DEF CallIInv
<1> QED BY <1>3, <1>4, <1>5, <1>6, <1>7, <1>8

LEMMA PeerKeepsIInv ==
    ASSUME CallIInv, Peer \/ PeerDies \/ FileChanges
    PROVE  CallIInv'
<1>0. /\ call.got \in Int /\ link.down \in Int /\ peer.sent \in Int /\ peer.read \in Int
      /\ link.up \in Int /\ link.down >= 0 /\ call.declared \in Int
      /\ call.got + link.down <= peer.sent
  BY CallNumbers, ClientAssumption DEF CallIInv, CallTypes, Accounted
<1>1. CASE FileChanges
  BY <1>1 DEF FileChanges, CallIInv, CallTypes, Connected, Accounted
<1>2. CASE PeerRead
  <2>1. link.up - 1 \in 0..Window /\ peer.read + 1 \in Nat /\ peer.read + 1 >= peer.read
    BY <1>2, ClientAssumption DEF PeerRead, CallIInv, CallTypes
  <2>2. CallTypes' /\ link'.down = link.down /\ peer'.sent = peer.sent
        /\ peer'.read = peer.read + 1 /\ peer'.status = peer.status /\ call' = call
        /\ link.state # "none"
    BY <1>2, <2>1 DEF PeerRead, CallIInv, CallTypes
  <2> QED BY <1>0, <2>1, <2>2, PeerStep
<1>3. ASSUME NEW status \in {"ok", "refused"}, NEW given \in BOOLEAN, PeerAnswer(status, given)
      PROVE  CallIInv'
  <2>1. CallTypes' /\ peer'.sent = peer.sent /\ peer'.read = peer.read
        /\ peer'.status = status
    BY <1>3 DEF PeerAnswer, CallIInv, CallTypes
  <2>2. Connected'
    BY <1>3, LinkUp DEF PeerAnswer, Connected
  <2>3. status = "ok" => peer.read >= 1 + call.declared
    BY <1>3 DEF PeerAnswer, complete
  <2>4. ~call.ok
    BY <1>3 DEF PeerAnswer, CallIInv, Accounted
  <2> QED BY <1>3, <2>1, <2>2, <2>3, <2>4 DEF PeerAnswer, CallIInv, Accounted
<1>4. CASE PeerSend
  <2>1. link.down + 1 \in 0..Window /\ peer.sent + 1 \in 0..Response
        /\ call.got + (link.down + 1) <= peer.sent + 1
    BY <1>0, <1>4, CallNumbers, ClientAssumption DEF PeerSend, CallIInv, CallTypes
  <2>2. CallTypes' /\ link'.down = link.down + 1 /\ peer'.sent = peer.sent + 1
        /\ peer'.read = peer.read /\ peer'.status = peer.status /\ call' = call
        /\ link.state # "none"
    BY <1>4, <2>1 DEF PeerSend, CallIInv, CallTypes
  <2> QED BY <1>0, <2>1, <2>2, PeerStep
<1>5. ASSUME Close, link.state = "up" PROVE CallIInv'
  <2>1. /\ link' \in [state : {"none", "up", "fin", "rst", "pipe"}, up : 0..Window,
                      down : 0..Window]
        /\ link'.down \in {0, link.down}
    <3>1. CASE link' = [link EXCEPT !.state = "fin"]
      BY <3>1 DEF CallIInv, CallTypes
    <3>2. ASSUME NEW d \in {0, link.down},
                 link' = [link EXCEPT !.state = "rst", !.up = 0, !.down = d]
          PROVE  <2>1!1 /\ <2>1!2
      BY <3>2, CallNumbers DEF CallIInv, CallTypes
    <3> QED BY <1>5, <3>1, <3>2 DEF Close
  <2>2. CallTypes'
    BY <1>5, <2>1 DEF Close, CallIInv, CallTypes
  <2>3. call.got + link'.down <= peer.sent
    BY <1>0, <2>1
  <2>4. peer' = peer /\ call' = call /\ link.state # "none" /\ peer.read >= peer.read
    BY <1>0, <1>5 DEF Close
  <2> QED BY <2>2, <2>3, <2>4, PeerStep
<1> QED BY <1>1, <1>2, <1>3, <1>4, <1>5 DEF Peer, PeerClose, PeerDies

LEMMA CallNextIInv == CallIInv /\ [CallNext]_callVars => CallIInv'
<1> SUFFICES ASSUME CallIInv, [CallNext]_callVars PROVE CallIInv'
  OBVIOUS
<1>1. CASE UNCHANGED callVars
  BY <1>1 DEF callVars, CallIInv, CallTypes, Connected, Accounted
<1>2. CASE CallNext
  BY <1>2, SetupKeepsIInv, SendingKeepsIInv, ReceivingKeepsIInv, EndingKeepsIInv,
     PeerKeepsIInv DEF CallNext, Client
<1> QED BY <1>1, <1>2

LEMMA CallIInvImplies == CallIInv => CallSafe
  BY DEF CallIInv, CallTypes, Accounted, CallSafe, CallTypeOK, SuccessMeansDelivered

\* When uploadFile() (UploadTransport.cpp:24) says the file was sent, the server
\* has read all that Content-Length announced, whatever the file and the peer do
\* meanwhile, for every size of file, chunk and socket buffer.
THEOREM CallIsSafe == CallSpec => []CallSafe
  BY CallInitIInv, CallNextIInv, CallIInvImplies, PTL DEF CallSpec

-----------------------------------------------------------------------------
(* SyncPush.                                                                *)

Cmd == [op : {"none", "push", "verify", "status", "list"},
        phase : {"idle", "scan", "fetch", "diff", "uploadNew", "uploadModified", "exit"},
        todo : SUBSET Path, local : [Path -> Entry], manifest : [Path -> Entry],
        new : SUBSET Path, modified : SUBSET Path, unchanged : SUBSET Path,
        failed : {0, 1}, quiet : BOOLEAN, skipped : SUBSET Path]

SyncTypes ==
    /\ now \in 0..MaxTime /\ latest \in 0..MaxVersion
    /\ disk \in [Path -> Entry] /\ server \in [Path -> Entry] /\ cmd \in Cmd

Phases ==
    /\ cmd.phase = "idle" => ~cmd.quiet
    /\ cmd.phase = "scan" => cmd.op \in {"push", "verify", "list"}
    /\ cmd.phase = "fetch" => cmd.op \in {"push", "verify", "status"}
    /\ cmd.phase = "diff" => cmd.op \in {"push", "verify"}
    /\ cmd.phase \in {"uploadNew", "uploadModified"} => cmd.op = "push"
    /\ cmd.phase \in {"scan", "fetch"} => cmd.new = {} /\ cmd.modified = {} /\ cmd.unchanged = {}

\* What was scanned is still so.
Scanned ==
    cmd.quiet /\ cmd.op # "status" /\ ~(cmd.phase = "exit" /\ cmd.failed = 1) =>
        \A p \in Path \ cmd.skipped :
            (cmd.phase = "scan" /\ p \in cmd.todo) \/ cmd.local[p] = disk[p]

\* The command has begun to compare, and not thrown since.
Comparing == \/ cmd.phase \in {"diff", "uploadNew", "uploadModified"}
             \/ cmd.phase = "exit" /\ cmd.op \in {"push", "verify"} /\ cmd.failed = 0

\* Each file that was compared is in the class it belongs to.
Classified(p) ==
    /\ p \in cmd.new => cmd.manifest[p] = NoFile
    /\ p \in cmd.modified =>
           /\ cmd.manifest[p] # NoFile
           /\ cmd.quiet => disk[p].content # cmd.manifest[p].content
    /\ p \in cmd.unchanged =>
           /\ cmd.manifest[p] # NoFile
           /\ metadataMatches(p) \/ (cmd.quiet => disk[p].content = cmd.manifest[p].content)
    /\ cmd.local[p] = NoFile => p \notin cmd.new \cup cmd.modified \cup cmd.unchanged
    /\ cmd.local[p] # NoFile => \/ cmd.phase = "diff" /\ p \in cmd.todo
                               \/ p \in cmd.new \cup cmd.modified \cup cmd.unchanged

Compared == Comparing => \A p \in Path : Classified(p)

\* The paths whose upload was tried.
tried == CASE cmd.phase = "uploadNew" -> cmd.new \ cmd.todo
           [] cmd.phase = "uploadModified" -> cmd.new \cup (cmd.modified \ cmd.todo)
           [] cmd.phase = "exit" -> cmd.new \cup cmd.modified
           [] OTHER -> {}

\* The server is as the manifest says but for them, and has the content of
\* each of them unless an upload failed.
Uploaded ==
    /\ cmd.phase = "uploadNew" => cmd.todo \subseteq cmd.new
    /\ cmd.phase = "diff" => \A p \in cmd.todo : cmd.local[p] # NoFile
    /\ cmd.phase = "uploadModified" => cmd.todo \subseteq cmd.modified
    /\ Comparing /\ cmd.op = "push" => \A p \in Path :
           /\ p \notin tried => server[p] = cmd.manifest[p]
           /\ p \in tried /\ cmd.quiet /\ cmd.failed = 0 =>
                  server[p] # NoFile /\ server[p].content = disk[p].content

SyncIInv == SyncTypes /\ Phases /\ Scanned /\ Compared /\ Uploaded

LEMMA BlankCmd ==
    /\ NoCmd \in Cmd /\ NoCmd.phase = "idle" /\ NoCmd.quiet = FALSE /\ NoCmd.op = "none"
    /\ NoCmd.new = {} /\ NoCmd.modified = {} /\ NoCmd.unchanged = {} /\ NoCmd.todo = {}
    /\ NoCmd.failed = 0 /\ NoCmd.skipped = {}
<1>1. NoFile \in Entry
  BY DEF Entry
<1>2. [p \in Path |-> NoFile] \in [Path -> Entry]
  BY <1>1
<1> QED BY <1>2 DEF NoCmd, Cmd

\* With no command at work nothing is claimed.
LEMMA IdleClaimsNothing ==
    ASSUME cmd = NoCmd PROVE Phases /\ Scanned /\ Compared /\ Uploaded
  BY BlankCmd DEF Phases, Scanned, Compared, Comparing, Uploaded

LEMMA SyncInitIInv == SyncInit => SyncIInv
<1> SUFFICES ASSUME SyncInit PROVE SyncIInv
  OBVIOUS
<1>1. SyncTypes
  <2>1. NoFile \in Entry
    BY DEF Entry
  <2>2. disk \in [Path -> Entry] /\ server \in [Path -> Entry]
    BY <2>1 DEF SyncInit
  <2>3. now \in 0..MaxTime /\ latest \in 0..MaxVersion
    BY PushAssumption DEF SyncInit
  <2> QED BY <2>2, <2>3, BlankCmd DEF SyncInit, SyncTypes
<1> QED BY <1>1, IdleClaimsNothing DEF SyncInit, SyncIInv

\* A command begins, or is killed.
LEMMA BeginKeepsIInv ==
    ASSUME SyncIInv,
           \/ \E op \in {"push", "verify", "status", "list"} : BeginCommand(op)
           \/ Killed
    PROVE  SyncIInv'
<1>1. ASSUME NEW op \in {"push", "verify", "status", "list"}, BeginCommand(op)
      PROVE  SyncIInv'
  <2>1. /\ cmd' \in Cmd /\ cmd'.op = op /\ cmd'.todo = Path
        /\ cmd'.phase = IF op = "status" THEN "fetch" ELSE "scan"
        /\ cmd'.new = {} /\ cmd'.modified = {} /\ cmd'.unchanged = {}
    BY <1>1, BlankCmd DEF BeginCommand, Step, Cmd
  <2>2. SyncTypes'
    BY <1>1, <2>1 DEF BeginCommand, Step, SyncIInv, SyncTypes
  <2> QED BY <2>1, <2>2 DEF SyncIInv, Phases, Scanned, Compared, Comparing, Uploaded
<1>2. CASE Killed
  <2>1. cmd' = NoCmd
    BY <1>2 DEF Killed, Step
  <2>2. SyncTypes'
    BY <1>2, <2>1, BlankCmd DEF Killed, Step, SyncIInv, SyncTypes
  <2>3. Phases' /\ Scanned' /\ Compared' /\ Uploaded'
    BY <2>1, BlankCmd DEF Phases, Scanned, Compared, Comparing, Uploaded
  <2> QED BY <2>2, <2>3 DEF SyncIInv
<1> QED BY <1>1, <1>2

\* A command that throws claims nothing either.
LEMMA ThrowKeepsIInv ==
    ASSUME SyncIInv, Throw PROVE SyncIInv'
<1>1. /\ cmd' \in Cmd /\ cmd'.phase = "exit" /\ cmd'.failed = 1
  BY DEF Throw, Step, SyncIInv, SyncTypes, Cmd
<1>2. SyncTypes'
  BY <1>1 DEF Throw, Step, SyncIInv, SyncTypes
<1> QED BY <1>1, <1>2 DEF SyncIInv, Phases, Scanned, Compared, Comparing, Uploaded

\* The walk.
LEMMA ScanKeepsIInv ==
    ASSUME SyncIInv,
           \/ \E p \in Path : Visit(p) \/ StatFails(p)
           \/ WalkFails \/ EndScan
    PROVE  SyncIInv'
<1> USE DEF SyncIInv
<1>1. ASSUME NEW p \in Path, Visit(p) PROVE SyncIInv'
  <2>1. /\ cmd' \in Cmd /\ cmd'.op = cmd.op /\ cmd'.todo = cmd.todo \ {p}
        /\ cmd'.phase = "scan" /\ cmd'.quiet = cmd.quiet /\ cmd'.skipped = cmd.skipped
        /\ cmd'.new = cmd.new /\ cmd'.modified = cmd.modified
        /\ cmd'.unchanged = cmd.unchanged /\ cmd.phase = "scan"
        /\ cmd'.local = [cmd.local EXCEPT ![p] = disk[p]]
    BY <1>1 DEF Visit, Step, SyncTypes, Cmd
  <2>2. SyncTypes'
    BY <1>1, <2>1 DEF Visit, Step, SyncTypes
  <2>3. Scanned'
    <3>1. cmd.local \in [Path -> Entry] /\ UNCHANGED disk
      BY <1>1 DEF SyncTypes, Cmd, Visit, Step
    <3> QED BY <2>1, <3>1 DEF Scanned
  <2> QED BY <2>1, <2>2, <2>3 DEF Phases, Compared, Comparing, Uploaded
<1>2. ASSUME NEW p \in Path, StatFails(p) PROVE SyncIInv'
  <2>1. /\ cmd' \in Cmd /\ cmd'.op = cmd.op /\ cmd'.todo = cmd.todo \ {p}
        /\ cmd'.phase = "scan" /\ cmd'.quiet = cmd.quiet
        /\ cmd'.skipped = cmd.skipped \cup {p}
        /\ cmd'.new = cmd.new /\ cmd'.modified = cmd.modified
        /\ cmd'.unchanged = cmd.unchanged /\ cmd.phase = "scan"
        /\ cmd'.local = cmd.local
    BY <1>2 DEF StatFails, Step, SyncTypes, Cmd
  <2>2. SyncTypes' /\ UNCHANGED disk
    BY <1>2, <2>1 DEF StatFails, Step, SyncTypes
  <2>3. Scanned'
    BY <2>1, <2>2 DEF Scanned
  <2> QED BY <2>1, <2>2, <2>3 DEF Phases, Compared, Comparing, Uploaded
<1>3. CASE WalkFails
  <2>1. /\ cmd' \in Cmd /\ cmd'.op = cmd.op /\ cmd'.todo = {}
        /\ cmd'.phase = "scan" /\ cmd'.quiet = cmd.quiet
        /\ cmd'.skipped = cmd.skipped \cup cmd.todo
        /\ cmd'.new = cmd.new /\ cmd'.modified = cmd.modified
        /\ cmd'.unchanged = cmd.unchanged /\ cmd.phase = "scan"
        /\ cmd'.local = cmd.local
    BY <1>3 DEF WalkFails, Step, SyncTypes, Cmd
  <2>2. SyncTypes' /\ UNCHANGED disk
    BY <1>3, <2>1 DEF WalkFails, Step, SyncTypes
  <2>3. Scanned'
    BY <2>1, <2>2 DEF Scanned
  <2> QED BY <2>1, <2>2, <2>3 DEF Phases, Compared, Comparing, Uploaded
<1>4. CASE EndScan
  <2>1. /\ cmd' \in Cmd /\ cmd'.op = cmd.op /\ cmd'.todo = cmd.todo /\ cmd.todo = {}
        /\ cmd'.phase = (IF cmd.op = "list" THEN "exit" ELSE "fetch")
        /\ cmd'.quiet = cmd.quiet /\ cmd'.skipped = cmd.skipped
        /\ cmd'.new = cmd.new /\ cmd'.modified = cmd.modified
        /\ cmd'.unchanged = cmd.unchanged /\ cmd.phase = "scan"
        /\ cmd'.local = cmd.local
    BY <1>4 DEF EndScan, Step, SyncTypes, Cmd
  <2>2. SyncTypes' /\ UNCHANGED disk
    BY <1>4, <2>1 DEF EndScan, Step, SyncTypes
  <2>3. Scanned'
    BY <2>1, <2>2 DEF Scanned
  <2>4. ~Comparing'
    BY <2>1 DEF Comparing
  <2> QED BY <2>1, <2>2, <2>3, <2>4 DEF Phases, Compared, Uploaded
<1> QED BY <1>1, <1>2, <1>3, <1>4

LEMMA FetchKeepsIInv ==
    ASSUME SyncIInv, Fetch PROVE SyncIInv'
<1> USE DEF SyncIInv
<1>1. /\ cmd' \in Cmd /\ cmd'.op = cmd.op /\ cmd.phase = "fetch"
      /\ cmd'.todo = {p \in Path : cmd.local[p] # NoFile}
      /\ cmd'.phase = (IF cmd.op = "status" THEN "exit" ELSE "diff")
      /\ cmd'.quiet = cmd.quiet /\ cmd'.skipped = cmd.skipped
      /\ cmd'.new = cmd.new /\ cmd'.modified = cmd.modified
      /\ cmd'.unchanged = cmd.unchanged
      /\ cmd'.local = cmd.local /\ cmd'.manifest = server
  BY DEF Fetch, Step, SyncTypes, Cmd
<1>2. SyncTypes' /\ UNCHANGED <<disk, server>>
  BY <1>1 DEF Fetch, Step, SyncTypes
<1>3. Phases'
  BY <1>1 DEF Phases
<1>4. Scanned'
  BY <1>1, <1>2 DEF Scanned
<1>5. Compared'
  BY <1>1, <1>2 DEF Phases, Compared, Comparing, Classified
<1>6. Uploaded'
  <2>1. tried' = {}
    BY <1>1 DEF tried, Phases
  <2> QED BY <1>1, <1>2, <2>1 DEF Phases, Comparing, Uploaded
<1> QED BY <1>2, <1>3, <1>4, <1>5, <1>6

\* One file is put into its class.
LEMMA DiffKeepsIInv ==
    ASSUME SyncIInv, NEW p \in Path, Diff(p) PROVE SyncIInv'
<1> USE DEF SyncIInv
<1> DEFINE new == cmd.manifest[p] = NoFile
           same == ~new /\ (metadataMatches(p) \/ (disk[p] # NoFile /\ sameContent(p)))
           other == ~new /\ ~metadataMatches(p) /\ disk[p] # NoFile /\ ~sameContent(p)
           nextNew == [cmd EXCEPT !.todo = @ \ {p}, !.new = @ \cup {p}]
           nextOther == [cmd EXCEPT !.todo = @ \ {p}, !.modified = @ \cup {p}]
           nextSame == [cmd EXCEPT !.todo = @ \ {p}, !.unchanged = @ \cup {p}]
<1>1. /\ cmd.phase = "diff" /\ p \in cmd.todo
      /\ \/ new /\ Step(nextNew)
         \/ other /\ Step(nextOther)
         \/ same /\ Step(nextSame)
         \/ Throw
  <2>1. cmd.phase = "diff" /\ p \in cmd.todo
    BY DEF Diff
  <2>2. CASE new
    BY <2>2 DEF Diff
  <2>3. CASE ~new /\ metadataMatches(p)
    <3>1. Step(nextSame)
      BY <2>3 DEF Diff
    <3>2. same
      BY <2>3
    <3> QED BY <2>1, <3>1, <3>2
  <2>4. CASE ~new /\ ~metadataMatches(p) /\ disk[p] = NoFile
    BY <2>4 DEF Diff
  <2>5. CASE ~new /\ ~metadataMatches(p) /\ disk[p] # NoFile /\ sameContent(p)
    BY <2>5 DEF Diff
  <2>6. CASE other
    BY <2>6 DEF Diff
  <2> QED BY <2>1, <2>2, <2>3, <2>4, <2>5, <2>6
<1>2. cmd.local[p] # NoFile
  BY <1>1 DEF Uploaded
<1>3. ASSUME cmd' \in Cmd, cmd'.todo = cmd.todo \ {p}, UNCHANGED <<now, disk, latest, server>>,
             cmd'.op = cmd.op, cmd'.phase = "diff", cmd'.quiet = cmd.quiet,
             cmd'.skipped = cmd.skipped, cmd'.local = cmd.local, cmd'.manifest = cmd.manifest,
             Compared'
      PROVE  SyncIInv'
  <2>1. SyncTypes'
    BY <1>3 DEF SyncTypes
  <2>2. Phases'
    BY <1>1, <1>3 DEF Phases
  <2>3. Scanned'
    BY <1>1, <1>3 DEF Scanned
  <2>4. tried = {} /\ tried' = {}
    BY <1>1, <1>3 DEF tried
  <2>5. Uploaded'
    BY <1>1, <1>3, <2>4 DEF Uploaded, Comparing
  <2> QED BY <1>3, <2>1, <2>2, <2>3, <2>5
<1>4. \A q \in Path : Classified(q)
  BY <1>1 DEF Compared, Comparing
<1>5. CASE new /\ Step(nextNew)
  <2>1. /\ cmd' \in Cmd /\ cmd'.todo = cmd.todo \ {p} /\ UNCHANGED <<now, disk, latest, server>>
        /\ cmd'.op = cmd.op /\ cmd'.phase = "diff" /\ cmd'.quiet = cmd.quiet
        /\ cmd'.skipped = cmd.skipped /\ cmd'.local = cmd.local
        /\ cmd'.manifest = cmd.manifest /\ cmd'.modified = cmd.modified
        /\ cmd'.unchanged = cmd.unchanged /\ cmd'.new = cmd.new \cup {p}
    BY <1>1, <1>5 DEF Step, SyncTypes, Cmd
  <2>2. \A q \in Path : metadataMatches(q)' = metadataMatches(q)
    BY <2>1 DEF metadataMatches
  <2>3. Compared'
    BY <1>1, <1>2, <1>4, <1>5, <2>1, <2>2 DEF Compared, Classified
  <2> QED BY <1>3, <2>1, <2>3
<1>6. CASE other /\ Step(nextOther)
  <2>1. /\ cmd' \in Cmd /\ cmd'.todo = cmd.todo \ {p} /\ UNCHANGED <<now, disk, latest, server>>
        /\ cmd'.op = cmd.op /\ cmd'.phase = "diff" /\ cmd'.quiet = cmd.quiet
        /\ cmd'.skipped = cmd.skipped /\ cmd'.local = cmd.local
        /\ cmd'.manifest = cmd.manifest /\ cmd'.modified = cmd.modified \cup {p}
        /\ cmd'.unchanged = cmd.unchanged /\ cmd'.new = cmd.new
    BY <1>1, <1>6 DEF Step, SyncTypes, Cmd
  <2>2. \A q \in Path : metadataMatches(q)' = metadataMatches(q)
    BY <2>1 DEF metadataMatches
  <2>3. cmd.manifest[p] # NoFile /\ disk[p].content # cmd.manifest[p].content
    BY <1>6 DEF sameContent
  <2>4. Compared'
    BY <1>1, <1>2, <1>4, <2>1, <2>2, <2>3 DEF Compared, Classified
  <2> QED BY <1>3, <2>1, <2>4
<1>7. CASE same /\ Step(nextSame)
  <2>1. /\ cmd' \in Cmd /\ cmd'.todo = cmd.todo \ {p} /\ UNCHANGED <<now, disk, latest, server>>
        /\ cmd'.op = cmd.op /\ cmd'.phase = "diff" /\ cmd'.quiet = cmd.quiet
        /\ cmd'.skipped = cmd.skipped /\ cmd'.local = cmd.local
        /\ cmd'.manifest = cmd.manifest /\ cmd'.modified = cmd.modified
        /\ cmd'.unchanged = cmd.unchanged \cup {p} /\ cmd'.new = cmd.new
    BY <1>1, <1>7 DEF Step, SyncTypes, Cmd
  <2>2. \A q \in Path : metadataMatches(q)' = metadataMatches(q)
    BY <2>1 DEF metadataMatches
  <2>3. /\ cmd.manifest[p] # NoFile
        /\ metadataMatches(p) \/ disk[p].content = cmd.manifest[p].content
    BY <1>7 DEF sameContent
  <2>4. Compared'
    BY <1>1, <1>2, <1>4, <2>1, <2>2, <2>3 DEF Compared, Classified
  <2> QED BY <1>3, <2>1, <2>4
<1> QED BY <1>1, <1>5, <1>6, <1>7, ThrowKeepsIInv

\* The ends of diff and of the two rounds of uploads.
LEMMA EndsKeepIInv ==
    ASSUME SyncIInv, EndDiff \/ EndNew \/ EndPush PROVE SyncIInv'
<1> USE DEF SyncIInv
<1>1. ASSUME cmd' \in Cmd, UNCHANGED <<now, disk, latest, server>>,
             cmd'.op = cmd.op, cmd'.quiet = cmd.quiet, cmd'.failed = cmd.failed,
             cmd'.skipped = cmd.skipped, cmd'.local = cmd.local, cmd'.manifest = cmd.manifest,
             cmd'.new = cmd.new, cmd'.modified = cmd.modified, cmd'.unchanged = cmd.unchanged,
             cmd.phase \in {"diff", "uploadNew", "uploadModified"}, cmd.todo = {},
             cmd'.phase \in {"uploadNew", "uploadModified", "exit"}, Phases'
      PROVE  SyncTypes' /\ Scanned' /\ Compared'
  <2>1. SyncTypes'
    BY <1>1 DEF SyncTypes
  <2>2. Scanned'
    BY <1>1 DEF Scanned
  <2>3. \A q \in Path : metadataMatches(q)' = metadataMatches(q)
    BY <1>1 DEF metadataMatches
  <2>4. Compared'
    BY <1>1, <2>3 DEF Compared, Comparing, Classified
  <2> QED BY <2>1, <2>2, <2>4
<1>2. CASE EndDiff /\ cmd.op = "verify"
  <2>1. /\ cmd' \in Cmd /\ UNCHANGED <<now, disk, latest, server>>
        /\ cmd'.op = cmd.op /\ cmd'.quiet = cmd.quiet /\ cmd'.failed = cmd.failed
        /\ cmd'.skipped = cmd.skipped /\ cmd'.local = cmd.local /\ cmd'.manifest = cmd.manifest
        /\ cmd'.new = cmd.new /\ cmd'.modified = cmd.modified /\ cmd'.unchanged = cmd.unchanged
        /\ cmd.phase = "diff" /\ cmd.todo = {} /\ cmd'.phase = "exit"
    BY <1>2 DEF EndDiff, Step, SyncTypes, Cmd
  <2>2. Phases' /\ Uploaded'
    BY <1>2, <2>1 DEF Phases, Uploaded
  <2> QED BY <1>1, <2>1, <2>2
<1>3. CASE EndDiff /\ cmd.op # "verify"
  <2>1. /\ cmd' \in Cmd /\ UNCHANGED <<now, disk, latest, server>>
        /\ cmd'.op = cmd.op /\ cmd'.quiet = cmd.quiet /\ cmd'.failed = cmd.failed
        /\ cmd'.skipped = cmd.skipped /\ cmd'.local = cmd.local /\ cmd'.manifest = cmd.manifest
        /\ cmd'.new = cmd.new /\ cmd'.modified = cmd.modified /\ cmd'.unchanged = cmd.unchanged
        /\ cmd.phase = "diff" /\ cmd.todo = {} /\ cmd'.phase = "uploadNew" /\ cmd'.todo = cmd.new
    BY <1>3 DEF EndDiff, Step, SyncTypes, Cmd
  <2>2. Phases'
    BY <1>3, <2>1 DEF Phases
  <2>3. tried = {} /\ tried' = {}
    BY <2>1 DEF tried
  <2>4. Uploaded'
    BY <2>1, <2>3 DEF Uploaded, Comparing
  <2> QED BY <1>1, <2>1, <2>2, <2>4
<1>4. CASE EndNew
  <2>1. /\ cmd' \in Cmd /\ UNCHANGED <<now, disk, latest, server>>
        /\ cmd'.op = cmd.op /\ cmd'.quiet = cmd.quiet /\ cmd'.failed = cmd.failed
        /\ cmd'.skipped = cmd.skipped /\ cmd'.local = cmd.local /\ cmd'.manifest = cmd.manifest
        /\ cmd'.new = cmd.new /\ cmd'.modified = cmd.modified /\ cmd'.unchanged = cmd.unchanged
        /\ cmd.phase = "uploadNew" /\ cmd.todo = {} /\ cmd'.phase = "uploadModified"
        /\ cmd'.todo = cmd.modified
    BY <1>4 DEF EndNew, Step, SyncTypes, Cmd
  <2>2. Phases'
    BY <2>1 DEF Phases
  <2>3. tried = cmd.new /\ tried' = cmd.new
    BY <2>1 DEF tried
  <2>4. Uploaded'
    BY <2>1, <2>3 DEF Uploaded, Comparing
  <2> QED BY <1>1, <2>1, <2>2, <2>4
<1>5. CASE EndPush
  <2>1. /\ cmd' \in Cmd /\ UNCHANGED <<now, disk, latest, server>>
        /\ cmd'.op = cmd.op /\ cmd'.quiet = cmd.quiet /\ cmd'.failed = cmd.failed
        /\ cmd'.skipped = cmd.skipped /\ cmd'.local = cmd.local /\ cmd'.manifest = cmd.manifest
        /\ cmd'.new = cmd.new /\ cmd'.modified = cmd.modified /\ cmd'.unchanged = cmd.unchanged
        /\ cmd.phase = "uploadModified" /\ cmd.todo = {} /\ cmd'.phase = "exit"
    BY <1>5 DEF EndPush, Step, SyncTypes, Cmd
  <2>2. Phases'
    BY <2>1 DEF Phases
  <2>3. tried = cmd.new \cup cmd.modified /\ tried' = cmd.new \cup cmd.modified
    BY <2>1 DEF tried
  <2>4. Uploaded'
    BY <2>1, <2>3 DEF Uploaded, Comparing
  <2> QED BY <1>1, <2>1, <2>2, <2>4
<1> QED BY <1>2, <1>3, <1>4, <1>5

\* An upload is tried: the server has the file, or the failure is counted.
LEMMA UploadKeepsIInv ==
    ASSUME SyncIInv, NEW p \in Path,
           UploadFails(p) \/ \E a \in BOOLEAN : Upload(p, a)
    PROVE  SyncIInv'
<1> USE DEF SyncIInv
<1>1. /\ cmd' \in Cmd /\ cmd'.todo = cmd.todo \ {p} /\ UNCHANGED <<now, disk, latest>>
      /\ cmd'.op = cmd.op /\ cmd'.phase = cmd.phase /\ cmd'.quiet = cmd.quiet
      /\ cmd'.skipped = cmd.skipped /\ cmd'.local = cmd.local
      /\ cmd'.manifest = cmd.manifest /\ cmd'.new = cmd.new
      /\ cmd'.modified = cmd.modified /\ cmd'.unchanged = cmd.unchanged
      /\ cmd.phase \in {"uploadNew", "uploadModified"} /\ p \in cmd.todo
  <2>1. \A a \in BOOLEAN : counted(a) \in {0, 1}
    BY DEF counted, SyncTypes, Cmd
  <2>2. CASE UploadFails(p)
    BY <2>1, <2>2 DEF UploadFails, Step, SyncTypes, Cmd, uploading
  <2>3. ASSUME NEW a \in BOOLEAN, Upload(p, a) PROVE <1>1
    BY <2>1, <2>3 DEF Upload, SyncTypes, Cmd, uploading
  <2> QED BY <2>2, <2>3
<1>2. \/ server' = server /\ cmd'.failed = 1
      \/ /\ disk[p] # NoFile /\ (cmd'.failed = 0 => cmd.failed = 0)
         /\ server' = [server EXCEPT ![p] = [content |-> disk[p].content, mtime |-> now]]
  <2>1. CASE UploadFails(p)
    BY <2>1 DEF UploadFails, Step, counted, SyncTypes, Cmd
  <2>2. ASSUME NEW a \in BOOLEAN, Upload(p, a) PROVE <1>2
    BY <2>2 DEF Upload, counted, SyncTypes, Cmd
  <2> QED BY <2>1, <2>2
<1>3. SyncTypes'
  <2>1. CASE server' = server
    BY <1>1, <2>1 DEF SyncTypes
  <2>2. CASE /\ disk[p] # NoFile
             /\ server' = [server EXCEPT ![p] = [content |-> disk[p].content, mtime |-> now]]
    <3>1. disk[p] \in [content : 1..MaxVersion, mtime : 0..MaxTime]
      BY <2>2 DEF SyncTypes, Entry
    <3>2. [content |-> disk[p].content, mtime |-> now] \in Entry
      BY <3>1 DEF SyncTypes, Entry
    <3>3. server' \in [Path -> Entry]
      BY <2>2, <3>2 DEF SyncTypes
    <3> QED BY <1>1, <3>3 DEF SyncTypes
  <2> QED BY <1>2, <2>1, <2>2
<1>4. Phases'
  BY <1>1 DEF Phases
<1>5. Scanned'
  BY <1>1 DEF Scanned
<1>6. \A q \in Path : metadataMatches(q)' = metadataMatches(q)
  BY <1>1 DEF metadataMatches
<1>7. Compared'
  BY <1>1, <1>6 DEF Compared, Comparing, Classified
<1>8. p \notin tried /\ tried' = tried \cup {p}
  <2>1. cmd.phase = "uploadModified" => p \notin cmd.new
    BY <1>1 DEF Uploaded, Compared, Comparing, Classified
  <2>2. /\ cmd.phase = "uploadNew" => p \in cmd.new
        /\ cmd.phase = "uploadModified" => p \in cmd.modified
    BY <1>1 DEF Uploaded
  <2>3. CASE cmd.phase = "uploadNew"
    BY <1>1, <2>2, <2>3 DEF tried
  <2>4. CASE cmd.phase = "uploadModified"
    BY <1>1, <2>1, <2>2, <2>4 DEF tried
  <2> QED BY <1>1, <2>3, <2>4
<1>9. Uploaded'
  <2>1. Comparing /\ cmd.op = "push"
    BY <1>1 DEF Comparing, Phases
  <2>2. \A q \in Path : q # p => server'[q] = server[q]
    BY <1>2 DEF SyncTypes
  <2>3. cmd'.failed = 0 => server'[p] # NoFile /\ server'[p].content = disk[p].content
    <3>1. disk[p] # NoFile => disk[p] \in [content : 1..MaxVersion, mtime : 0..MaxTime]
      BY DEF SyncTypes, Entry
    <3>2. now \in Nat /\ (disk[p] # NoFile => disk[p].content \in Nat)
      BY <3>1, PushAssumption DEF SyncTypes
    <3>3. disk[p] # NoFile => [content |-> disk[p].content, mtime |-> now] # NoFile
      BY <3>2, PushAssumption
    <3> QED BY <1>2, <3>3 DEF SyncTypes
  <2>4. cmd'.failed = 0 => cmd.failed = 0
    BY <1>2
  <2>5. \A q \in Path :
           /\ q \notin tried' => server'[q] = cmd'.manifest[q]
           /\ q \in tried' /\ cmd'.quiet /\ cmd'.failed = 0 =>
                  server'[q] # NoFile /\ server'[q].content = disk'[q].content
    BY <1>1, <1>8, <2>1, <2>2, <2>3, <2>4 DEF Uploaded
  <2> QED BY <1>1, <2>5 DEF Uploaded
<1> QED BY <1>3, <1>4, <1>5, <1>7, <1>9

\* The user's hand in the files: whatever was claimed of them is claimed no more.
LEMMA DisturbKeepsIInv ==
    ASSUME SyncIInv, Disturb, disk' \in [Path -> Entry], latest' \in 0..MaxVersion,
           UNCHANGED <<now, server>>
    PROVE  SyncIInv'
<1> USE DEF SyncIInv
<1>1. /\ cmd' \in Cmd /\ cmd'.todo = cmd.todo /\ cmd'.failed = cmd.failed
      /\ cmd'.op = cmd.op /\ cmd'.phase = cmd.phase /\ cmd'.quiet = FALSE
      /\ cmd'.skipped = cmd.skipped /\ cmd'.local = cmd.local
      /\ cmd'.manifest = cmd.manifest /\ cmd'.new = cmd.new
      /\ cmd'.modified = cmd.modified /\ cmd'.unchanged = cmd.unchanged
  BY DEF Disturb, SyncTypes, Cmd
<1>2. SyncTypes'
  BY <1>1 DEF SyncTypes
<1>3. Phases' /\ Scanned'
  BY <1>1 DEF Phases, Scanned
<1>4. \A q \in Path : metadataMatches(q)' = metadataMatches(q)
  BY <1>1 DEF metadataMatches
<1>5. Compared'
  BY <1>1, <1>4 DEF Compared, Comparing, Classified
<1>6. tried' = tried
  BY <1>1 DEF tried
<1>7. Uploaded'
  BY <1>1, <1>6 DEF Uploaded, Comparing
<1> QED BY <1>2, <1>3, <1>5, <1>7

LEMMA FilesKeepIInv ==
    ASSUME SyncIInv, NEW p \in Path, EditFile(p) \/ Touch(p) \/ Delete(p)
    PROVE  SyncIInv'
<1> USE DEF SyncIInv
<1>1. CASE EditFile(p)
  <2>1. latest' \in 0..MaxVersion /\ latest' \in 1..MaxVersion /\ now \in 0..MaxTime
    BY <1>1, PushAssumption DEF EditFile, SyncTypes
  <2>2. [content |-> latest', mtime |-> now] \in Entry
    BY <2>1 DEF Entry
  <2>3. disk' \in [Path -> Entry]
    BY <1>1, <2>2 DEF EditFile, SyncTypes
  <2> QED BY <1>1, <2>1, <2>3, DisturbKeepsIInv DEF EditFile
<1>2. CASE Touch(p)
  <2>1. disk[p] \in [content : 1..MaxVersion, mtime : 0..MaxTime] /\ now \in 0..MaxTime
    BY <1>2 DEF Touch, SyncTypes, Entry
  <2>2. [disk[p] EXCEPT !.mtime = now] \in Entry
    BY <2>1 DEF Entry
  <2>3. disk' \in [Path -> Entry]
    BY <1>2, <2>2 DEF Touch, SyncTypes
  <2>4. latest' \in 0..MaxVersion
    BY <1>2 DEF Touch, SyncTypes
  <2> QED BY <1>2, <2>3, <2>4, DisturbKeepsIInv DEF Touch
<1>3. CASE Delete(p)
  <2>1. NoFile \in Entry
    BY DEF Entry
  <2>2. disk' \in [Path -> Entry] /\ latest' \in 0..MaxVersion
    BY <1>3, <2>1 DEF Delete, SyncTypes
  <2> QED BY <1>3, <2>2, DisturbKeepsIInv DEF Delete
<1> QED BY <1>1, <1>2, <1>3

LEMMA SyncNextIInv == SyncIInv /\ [SyncNext]_syncVars => SyncIInv'
<1> SUFFICES ASSUME SyncIInv, [SyncNext]_syncVars PROVE SyncIInv'
  OBVIOUS
<1>1. ASSUME now' \in 0..MaxTime, UNCHANGED <<disk, latest, server, cmd>> PROVE SyncIInv'
  BY <1>1 DEF SyncIInv, SyncTypes, Phases, Scanned, Compared, Comparing, Classified,
              metadataMatches, Uploaded, tried
<1>2. CASE UNCHANGED syncVars
  BY <1>1, <1>2 DEF syncVars, SyncIInv, SyncTypes
<1>3. CASE Tick
  <2>1. now' \in 0..MaxTime
    BY <1>3, PushAssumption DEF Tick, SyncIInv, SyncTypes
  <2> QED BY <1>1, <1>3, <2>1 DEF Tick
<1>4. CASE RootMissing \/ FetchFails
  BY <1>4, ThrowKeepsIInv DEF RootMissing, FetchFails
<1> QED BY <1>2, <1>3, <1>4, BeginKeepsIInv, ScanKeepsIInv, FetchKeepsIInv, DiffKeepsIInv,
           EndsKeepIInv, UploadKeepsIInv, FilesKeepIInv DEF SyncNext

LEMMA SyncIInvImplies == SyncIInv => SyncSafe
<1> SUFFICES ASSUME SyncIInv PROVE SyncSafe
  OBVIOUS
<1> USE DEF SyncIInv
<1>1. SyncTypeOK
  BY DEF SyncTypes, Cmd, SyncTypeOK
<1>2. PushSyncs
  <2> SUFFICES ASSUME done("push"), NEW p \in Path \ cmd.skipped, disk[p] # NoFile
               PROVE  synced(p) \/ blind(p)
    BY DEF PushSyncs, synced
  <2>1. /\ cmd.op = "push" /\ cmd.phase = "exit" /\ cmd.failed = 0 /\ cmd.quiet
        /\ p \in Path /\ p \notin cmd.skipped /\ Comparing
    BY DEF done, Comparing
  <2>2. cmd.local[p] = disk[p]
    BY <2>1 DEF Scanned
  <2>3. Classified(p)
    BY <2>1 DEF Compared
  <2>4. tried = cmd.new \cup cmd.modified
    BY <2>1 DEF tried
  <2>5. CASE p \in tried
    BY <2>1, <2>5 DEF Uploaded, synced
  <2>6. CASE p \notin tried
    <3>1. server[p] = cmd.manifest[p] /\ p \in cmd.unchanged
      BY <2>1, <2>2, <2>3, <2>4, <2>6 DEF Uploaded, Classified
    <3> QED BY <2>1, <2>2, <2>3, <3>1 DEF Classified, metadataMatches, synced, blind
  <2> QED BY <2>5, <2>6
<1>3. VerifyExact
  <2> SUFFICES ASSUME done("verify"), NEW p \in Path \ cmd.skipped
               PROVE  /\ p \in cmd.new <=> disk[p] # NoFile /\ cmd.manifest[p] = NoFile
                      /\ p \in deleted <=> disk[p] = NoFile /\ cmd.manifest[p] # NoFile
                      /\ p \in cmd.unchanged <=>
                            /\ disk[p] # NoFile /\ cmd.manifest[p] # NoFile
                            /\ disk[p].content = cmd.manifest[p].content
    BY DEF VerifyExact
  <2>1. /\ cmd.op = "verify" /\ cmd.phase = "exit" /\ cmd.failed = 0 /\ cmd.quiet
        /\ p \in Path /\ p \notin cmd.skipped /\ Comparing
    BY DEF done, Comparing
  <2>2. cmd.local[p] = disk[p]
    BY <2>1 DEF Scanned
  <2>3. Classified(p)
    BY <2>1 DEF Compared
  <2>4. ~metadataMatches(p)
    BY <2>1 DEF metadataMatches
  <2> QED BY <2>1, <2>2, <2>3, <2>4 DEF Classified, deleted
<1> QED BY <1>1, <1>2, <1>3 DEF SyncSafe

\* A push or verify that exits with 0 over files that did not change says what
\* is so (SyncEngine.cpp:16-80), whatever went wrong before it, for any set of
\* files.
THEOREM SyncIsSafe == SyncSpec => []SyncSafe
  BY SyncInitIInv, SyncNextIInv, SyncIInvImplies, PTL DEF SyncSpec

\* Only an upload changes what the server has, and only of a file the server
\* lacks or has with other content (ManifestDiffer.cpp:71-74).
THEOREM UploadsAreNeeded == SyncSpec => NoNeedlessUpload
<1> DEFINE Needed == \A p \in Path : server'[p] # server[p] /\ cmd.quiet =>
                        server[p] = NoFile \/ server[p].content # disk[p].content
<1>1. ASSUME SyncIInv, [SyncNext]_syncVars PROVE [Needed]_syncVars
  <2>1. CASE server' = server
    BY <2>1
  <2>2. ASSUME NEW p \in Path, NEW a \in BOOLEAN, Upload(p, a) PROVE Needed
    <3>1. \A q \in Path : server'[q] # server[q] => q = p
      BY <1>1, <2>2 DEF Upload, SyncIInv, SyncTypes
    <3>2. cmd.phase \in {"uploadNew", "uploadModified"} /\ p \in cmd.todo
      BY <2>2 DEF Upload, uploading
    <3>3. Comparing /\ cmd.op = "push" /\ Classified(p)
      BY <1>1, <3>2 DEF SyncIInv, Phases, Compared, Comparing
    <3>4. p \notin tried /\ p \in cmd.new \cup cmd.modified
      <4>1. CASE cmd.phase = "uploadNew"
        BY <1>1, <3>2, <4>1 DEF SyncIInv, Uploaded, tried
      <4>2. CASE cmd.phase = "uploadModified"
        BY <1>1, <3>2, <3>3, <4>2 DEF SyncIInv, Uploaded, tried, Classified
      <4> QED BY <3>2, <4>1, <4>2
    <3>5. server[p] = cmd.manifest[p]
      BY <1>1, <3>3, <3>4 DEF SyncIInv, Uploaded
    <3> QED BY <3>1, <3>3, <3>4, <3>5 DEF Classified
  <2> QED BY <1>1, <2>1, <2>2 DEF SyncNext, syncVars, BeginCommand, RootMissing, WalkFails,
             EndScan, Fetch, FetchFails, EndDiff, EndNew, EndPush, Killed, Tick, Visit,
             StatFails, Diff, UploadFails, EditFile, Touch, Delete, Throw, Step
<1> QED BY <1>1, SyncInitIInv, SyncNextIInv, PTL DEF SyncSpec, NoNeedlessUpload

-----------------------------------------------------------------------------
(* Playback.                                                                *)

\* Every index of a set of indices has a place of its own, and no place is left
\* empty.
LEMMA PlaceProperties ==
    ASSUME NEW n \in Nat, NEW I \in SUBSET (1..n)
    PROVE  /\ Cardinality(I) \in Nat
           /\ \A i \in I : placeOf(I, i) \in 1..Cardinality(I)
           /\ \A i, j \in I : placeOf(I, i) = placeOf(I, j) => i = j
           /\ \A k \in 1..Cardinality(I) : \E i \in I : placeOf(I, i) = k
<1> DEFINE c == Cardinality(I)
           Upto(i) == {j \in I : j <= i}
<1>1. IsFiniteSet(I) /\ c \in Nat
  <2>1. IsFiniteSet(1..n)
    BY FS_Interval
  <2> QED BY <2>1, FS_Subset, FS_CardinalityType
<1>2. ASSUME NEW i \in I
      PROVE  /\ i \in Upto(i) /\ IsFiniteSet(Upto(i))
             /\ Cardinality(Upto(i)) \in 1..c /\ placeOf(I, i) = Cardinality(Upto(i))
  <2>1. i \in Upto(i) /\ Upto(i) \subseteq I
    OBVIOUS
  <2>2. IsFiniteSet(Upto(i)) /\ Cardinality(Upto(i)) <= c
    BY <2>1, <1>1, FS_Subset
  <2>3. Cardinality(Upto(i)) \in Nat /\ Cardinality(Upto(i)) # 0
    BY <2>1, <2>2, FS_CardinalityType, FS_EmptySet
  <2> QED BY <1>1, <2>1, <2>2, <2>3 DEF placeOf
<1>3. ASSUME NEW i \in I, NEW j \in I, i < j PROVE placeOf(I, i) # placeOf(I, j)
  <2>1. Upto(i) \subseteq Upto(j) /\ j \notin Upto(i)
    <3>1. \A x \in I : x \in Int
      OBVIOUS
    <3>2. ~(j <= i) /\ \A x \in I : x <= i => x <= j
      BY <1>3, <3>1
    <3> QED BY <3>2
  <2>2. IsFiniteSet(Upto(j)) /\ j \in Upto(j)
    BY <1>2
  <2>3. placeOf(I, i) = Cardinality(Upto(i)) /\ placeOf(I, j) = Cardinality(Upto(j))
    BY <1>2
  <2> HIDE DEF Upto
  <2>4. Cardinality(Upto(j)) = Cardinality(Upto(i)) => Upto(j) = Upto(i)
    BY <2>1, <2>2, FS_Subset
  <2> QED BY <2>1, <2>2, <2>3, <2>4
<1>4. \A i \in I : placeOf(I, i) \in 1..c
  BY <1>2
<1>5. \A i, j \in I : placeOf(I, i) = placeOf(I, j) => i = j
  <2> SUFFICES ASSUME NEW i \in I, NEW j \in I, i # j PROVE placeOf(I, i) # placeOf(I, j)
    OBVIOUS
  <2>1. i < j \/ j < i
    OBVIOUS
  <2> QED BY <2>1, <1>3
<1>6. ASSUME NEW k \in 1..c PROVE \E i \in I : placeOf(I, i) = k
  <2> DEFINE f == [i \in I |-> placeOf(I, i)]
  <2>1. f \in [I -> 1..c] /\ \A i, j \in I : f[i] = f[j] => i = j
    BY <1>4, <1>5
  <2>2. IsFiniteSet(1..c) /\ Cardinality(1..c) = c
    BY <1>1, FS_Interval
  <2> HIDE DEF f
  <2>3. f \in Injection(I, 1..c)
    BY <2>1 DEF Injection, IsInjective
  <2>4. f \in Surjection(I, 1..c)
    BY <2>2, <2>3, FS_Injection
  <2>5. \E i \in I : f[i] = k
    BY <2>4 DEF Surjection
  <2> QED BY <2>5 DEF f
<1> QED BY <1>1, <1>4, <1>5, <1>6

\* At() returns rows of the queue, and each of those that were asked for.
LEMMA AtProperties ==
    ASSUME NEW q \in Seq(Tracks), NEW I \in SUBSET (DOMAIN q)
    PROVE  /\ At(q, I) \in Seq(Tracks)
           /\ \A i \in I : \E k \in DOMAIN At(q, I) : At(q, I)[k] = q[i]
<1> DEFINE c == Cardinality(I)
           idx(k) == CHOOSE i \in I : placeOf(I, i) = k
<1>1. Len(q) \in Nat /\ DOMAIN q = 1..Len(q) /\ I \in SUBSET (1..Len(q))
  BY LenProperties
<1>2. c \in Nat /\ \A k \in 1..c : idx(k) \in I /\ placeOf(I, idx(k)) = k
  BY <1>1, PlaceProperties
<1>3. \A i \in I : placeOf(I, i) \in 1..c /\ idx(placeOf(I, i)) = i
  BY <1>1, <1>2, PlaceProperties
<1>4. At(q, I) = [k \in 1..c |-> q[idx(k)]]
  BY DEF At
<1> HIDE DEF idx
<1>5. \A i \in I : q[i] \in Tracks
  BY <1>1, ElementOfSeq
<1>6. At(q, I) \in [1..c -> Tracks]
  BY <1>2, <1>4, <1>5
<1>7. At(q, I) \in Seq(Tracks) /\ DOMAIN At(q, I) = 1..c
  BY <1>2, <1>6
<1>8. ASSUME NEW i \in I PROVE \E k \in DOMAIN At(q, I) : At(q, I)[k] = q[i]
  <2>1. At(q, I)[placeOf(I, i)] = q[i]
    BY <1>3, <1>4
  <2> QED BY <1>3, <1>7, <2>1
<1> QED BY <1>7, <1>8

LEMMA FirstIndexProperties ==
    ASSUME NEW q \in Seq(Tracks), NEW t
    PROVE  /\ firstIndex(q, t) \in 0..Len(q)
           /\ firstIndex(q, t) # 0 => q[firstIndex(q, t)] = t
           /\ (\E i \in DOMAIN q : q[i] = t) => firstIndex(q, t) # 0
<1> DEFINE S == {i \in DOMAIN q : q[i] = t}
           R == OpToRel(<, Nat)
<1>1. Len(q) \in Nat /\ DOMAIN q = 1..Len(q)
  BY LenProperties
<1>2. CASE S = {}
  BY <1>1, <1>2 DEF firstIndex
<1>3. CASE S # {}
  <2>1. S \subseteq Nat
    BY <1>1
  <2>a. IsWellFoundedOn(R, Nat)
    BY NatLessThanWellFounded
  <2>b. \A i, j \in Nat : i < j => <<i, j>> \in R
    BY DEF OpToRel
  <2> HIDE DEF R
  <2>2. PICK m \in S : \A i \in S : ~(<<i, m>> \in R)
    <3> HIDE DEF S
    <3> QED BY <1>3, <2>1, <2>a, WFMin
  <2>3. ASSUME NEW j \in 1..m - 1 PROVE q[j] # t
    <3>1. m \in 1..Len(q) /\ j \in 1..Len(q) /\ j \in Nat /\ m \in Nat /\ j < m
      BY <1>1, <2>2
    <3>2. j \notin S
      BY <2>b, <2>2, <3>1
    <3> QED BY <1>1, <3>1, <3>2
  <2>4. \E i \in DOMAIN q : q[i] = t /\ \A j \in 1..i - 1 : q[j] # t
    BY <2>2, <2>3
  <2>5. /\ firstIndex(q, t) = CHOOSE i \in DOMAIN q : q[i] = t /\ \A j \in 1..i - 1 : q[j] # t
    BY <2>2 DEF firstIndex
  <2>6. firstIndex(q, t) \in DOMAIN q /\ q[firstIndex(q, t)] = t
    BY <2>4, <2>5
  <2> QED BY <1>1, <2>6
<1> QED BY <1>2, <1>3

\* Moving rows loses none.
LEMMA MovedProperties ==
    ASSUME NEW q \in Seq(Tracks), NEW source \in SUBSET (DOMAIN q), NEW d \in Int
    PROVE  /\ moved(q, source, d) \in Seq(Tracks)
           /\ \A i \in DOMAIN q : \E k \in DOMAIN moved(q, source, d) :
                  moved(q, source, d)[k] = q[i]
<1> DEFINE before == {i \in (DOMAIN q) \ source : i < d}
           after == {i \in (DOMAIN q) \ source : i >= d}
           A == At(q, before)
           B == At(q, source)
           C == At(q, after)
<1>1. moved(q, source, d) = (A \o B) \o C
  BY DEF moved
<1>2. DOMAIN q = 1..Len(q) /\ Len(q) \in Nat
  BY LenProperties
<1>3. \A i \in DOMAIN q : i \in before \/ i \in source \/ i \in after
  BY <1>2
<1>4. /\ A \in Seq(Tracks) /\ \A i \in before : \E k \in DOMAIN A : A[k] = q[i]
      /\ B \in Seq(Tracks) /\ \A i \in source : \E k \in DOMAIN B : B[k] = q[i]
      /\ C \in Seq(Tracks) /\ \A i \in after : \E k \in DOMAIN C : C[k] = q[i]
  <2>1. before \in SUBSET (DOMAIN q) /\ after \in SUBSET (DOMAIN q)
    OBVIOUS
  <2> HIDE DEF before, after
  <2> QED BY <2>1, AtProperties
<1> HIDE DEF before, after, A, B, C
<1>5. ASSUME NEW x \in Seq(Tracks), NEW y \in Seq(Tracks)
      PROVE  /\ x \o y \in Seq(Tracks)
             /\ \A k \in DOMAIN x : k \in DOMAIN (x \o y) /\ (x \o y)[k] = x[k]
             /\ \A k \in DOMAIN y :
                    Len(x) + k \in DOMAIN (x \o y) /\ (x \o y)[Len(x) + k] = y[k]
  OBVIOUS
<1>6. A \o B \in Seq(Tracks)
  BY <1>4, <1>5
<1>7. ASSUME NEW i \in DOMAIN q PROVE \E k \in DOMAIN ((A \o B) \o C) : ((A \o B) \o C)[k] = q[i]
  <2> DEFINE AB == A \o B
  <2>0. /\ AB \in Seq(Tracks)
        /\ \A k \in DOMAIN AB : k \in DOMAIN (AB \o C) /\ (AB \o C)[k] = AB[k]
    BY <1>4, <1>5, <1>6
  <2>1. CASE i \in before
    <3>1. PICK k \in DOMAIN A : A[k] = q[i]
      BY <1>4, <2>1
    <3>2. k \in DOMAIN AB /\ AB[k] = q[i]
      BY <1>4, <1>5, <3>1
    <3> HIDE DEF AB
    <3>3. k \in DOMAIN (AB \o C) /\ (AB \o C)[k] = q[i]
      BY <2>0, <3>2
    <3> QED BY <3>3 DEF AB
  <2>2. CASE i \in source
    <3>1. PICK k \in DOMAIN B : B[k] = q[i]
      BY <1>4, <2>2
    <3>2. Len(A) + k \in DOMAIN AB /\ AB[Len(A) + k] = q[i]
      BY <1>4, <1>5, <3>1
    <3> HIDE DEF AB
    <3>3. Len(A) + k \in DOMAIN (AB \o C) /\ (AB \o C)[Len(A) + k] = q[i]
      BY <2>0, <3>2
    <3> QED BY <3>3 DEF AB
  <2>3. CASE i \in after
    <3>1. PICK k \in DOMAIN C : C[k] = q[i]
      BY <1>4, <2>3
    <3>2. /\ Len(A \o B) + k \in DOMAIN ((A \o B) \o C)
          /\ ((A \o B) \o C)[Len(A \o B) + k] = q[i]
      BY <1>4, <1>5, <1>6, <3>1
    <3> QED BY <3>2
  <2> QED BY <1>3, <2>1, <2>2, <2>3
<1> QED BY <1>1, <1>4, <1>5, <1>6, <1>7

\* In a permutation of the rows every row is found.
LEMMA OrdersProperties ==
    ASSUME NEW n \in Nat
    PROVE  /\ Indices(n) \in Orders(n)
           /\ \A s \in Orders(n) :
                 /\ s \in [1..n -> 1..n] /\ Len(s) = n
                 /\ \A i \in 1..n : \E k \in 1..n : s[k] = i
<1>1. Indices(n) \in Orders(n)
  BY DEF Indices, Orders
<1>2. ASSUME NEW s \in Orders(n)
      PROVE  s \in [1..n -> 1..n] /\ Len(s) = n
             /\ \A i \in 1..n : \E k \in 1..n : s[k] = i
  <2>1. s \in [1..n -> 1..n] /\ \A i, j \in 1..n : s[i] = s[j] => i = j
    BY DEF Orders
  <2>2. Len(s) = n
    BY <2>1
  <2>3. s \in Injection(1..n, 1..n)
    BY <2>1 DEF Injection, IsInjective
  <2>4. IsFiniteSet(1..n)
    BY FS_Interval
  <2>5. s \in Surjection(1..n, 1..n)
    BY <2>3, <2>4, FS_Injection
  <2> QED BY <2>1, <2>2, <2>5 DEF Surjection
<1> QED BY <1>1, <1>2

LEMMA ReindexProperty ==
    ASSUME NEW n \in Nat, NEW shuffle \in BOOLEAN, reindexShuffleOrder(n, shuffle)
    PROVE  shuffleOrder' \in Orders(n)
  BY OrdersProperties DEF reindexShuffleOrder

LEMMA PlaybackInitSafe == PlaybackInit => PlaybackSafe
<1> SUFFICES ASSUME PlaybackInit PROVE PlaybackSafe
  OBVIOUS
<1>1. queue \in Seq(Tracks) /\ Len(queue) = 0
  BY DEF PlaybackInit
<1>2. <<>> \in Orders(0)
  BY DEF Orders
<1>3. 0 \in 0..MaxEnds /\ 0 \in 0..0
  BY PlaybackAssumption
<1>4. shuffleOrder \in Orders(Len(queue)) /\ currentIndex \in 0..Len(queue)
  BY <1>1, <1>2, <1>3 DEF PlaybackInit
<1>5. PlaybackTypeOK
  BY <1>1, <1>3, <1>4 DEF PlaybackInit, PlaybackTypeOK
<1> QED BY <1>5 DEF PlaybackInit, PlaybackSafe, PlayerHasCurrent

LEMMA PlaySafe ==
    ASSUME PlaybackSafe, NEW l \in Seq(Tracks), NEW i \in DOMAIN l, play(l, i)
    PROVE  PlaybackSafe'
<1>1. Len(l) \in Nat /\ i \in 1..Len(l) /\ i \in 0..Len(l) /\ i # 0 /\ l[i] \in Tracks
  BY LenProperties, ElementOfSeq
<1>2. shuffleOrder' \in Orders(Len(l))
  BY <1>1, ReindexProperty DEF play, PlaybackSafe, PlaybackTypeOK
<1>3. PlaybackTypeOK'
  BY <1>1, <1>2 DEF play, loadCurrentItem, settings, PlaybackSafe, PlaybackTypeOK
<1>4. PlayerHasCurrent'
  BY <1>1 DEF play, loadCurrentItem, PlayerHasCurrent
<1> QED BY <1>3, <1>4 DEF PlaybackSafe

\* advance() lands on a row of the queue, and the player gets that row's track.
LEMMA AdvanceSafe ==
    ASSUME PlaybackSafe, NEW delta \in {-1, 1}, advance(delta), ends' \in 0..MaxEnds
    PROVE  PlaybackSafe'
<1> DEFINE order == IF shuffleEnabled THEN shuffleOrder ELSE Indices(Len(queue))
           position == CHOOSE k \in DOMAIN order : order[k] = currentIndex
           to == target(position, delta, Len(order), repeatMode = "all")
           n == Len(queue)
<1> USE DEF PlaybackSafe
<1>1. n \in Nat /\ queue \in Seq(Tracks) /\ \A i \in 1..n : queue[i] \in Tracks
  BY ElementOfSeq DEF PlaybackTypeOK
<1>2. CASE currentIndex = 0
  BY <1>2 DEF advance, player, settings, PlaybackTypeOK, PlayerHasCurrent
<1>3. CASE currentIndex # 0
  <2>1. order \in Orders(n) /\ currentIndex \in 1..n
    BY <1>1, <1>3, OrdersProperties DEF PlaybackTypeOK
  <2> HIDE DEF order
  <2>2. order \in [1..n -> 1..n] /\ Len(order) = n /\ \E k \in 1..n : order[k] = currentIndex
    BY <1>1, <2>1, OrdersProperties
  <2>3. position \in 1..n
    BY <2>2
  <2> HIDE DEF position, n
  <2>4. to \in 0..n
    BY <1>1, <2>2, <2>3 DEF target
  <2>5. IF to = 0
        THEN /\ rate' = FALSE /\ isPlaying' = FALSE
             /\ UNCHANGED <<queue, currentIndex, settings, shuffleOrder, item, atEnd>>
        ELSE /\ currentIndex' = order[to]
             /\ loadCurrentItem(queue[order[to]], isPlaying)
             /\ UNCHANGED <<queue, settings, shuffleOrder>>
    BY <1>3 DEF advance, order, position
  <2> HIDE DEF to
  <2>6. CASE to = 0
    BY <2>5, <2>6 DEF settings, PlaybackTypeOK, PlayerHasCurrent
  <2>7. CASE to # 0
    <3>1. /\ order[to] \in 1..n /\ order[to] \in 0..n /\ order[to] # 0
          /\ queue[order[to]] \in Tracks
      <4>1. to \in 1..n
        BY <1>1, <2>4, <2>7
      <4>2. order[to] \in 1..n
        BY <2>2, <4>1
      <4> QED BY <1>1, <4>2
    <3>2. /\ currentIndex' = order[to]
          /\ loadCurrentItem(queue[order[to]], isPlaying)
          /\ UNCHANGED <<queue, settings, shuffleOrder>>
      BY <2>5, <2>7
    <3>3. PlaybackTypeOK'
      BY <3>1, <3>2 DEF loadCurrentItem, settings, PlaybackTypeOK, n
    <3>4. PlayerHasCurrent'
      BY <3>1, <3>2 DEF loadCurrentItem, PlayerHasCurrent
    <3> QED BY <3>3, <3>4
  <2> QED BY <2>6, <2>7
<1> QED BY <1>2, <1>3

\* An edit that keeps the current track current.
LEMMA EditSafe ==
    ASSUME PlaybackSafe, NEW q \in Seq(Tracks), NEW index \in 0..Len(q), Edit(q, index),
           IF currentIndex = 0 THEN index = 0
           ELSE index # 0 /\ q[index] = queue[currentIndex]
    PROVE  PlaybackSafe'
<1>1. Len(q) \in Nat
  BY LenProperties
<1>2. shuffleOrder' \in Orders(Len(q))
  BY <1>1, ReindexProperty DEF Edit, PlaybackSafe, PlaybackTypeOK
<1>3. PlaybackTypeOK'
  BY <1>2 DEF Edit, settings, player, PlaybackSafe, PlaybackTypeOK
<1>4. PlayerHasCurrent'
  BY DEF Edit, player, PlaybackSafe, PlayerHasCurrent
<1> QED BY <1>3, <1>4 DEF PlaybackSafe

LEMMA InsertSafe ==
    ASSUME PlaybackSafe, NEW t \in Tracks, playNext(t) \/ addToQueue(t)
    PROVE  PlaybackSafe'
<1>1. queue \in Seq(Tracks) /\ Len(queue) \in Nat /\ currentIndex \in 0..Len(queue)
  BY LenProperties DEF PlaybackSafe, PlaybackTypeOK
<1>2. CASE play(<<t>>, 1)
  <2>1. <<t>> \in Seq(Tracks) /\ 1 \in DOMAIN <<t>>
    OBVIOUS
  <2> QED BY <1>2, <2>1, PlaySafe
<1>3. CASE /\ currentIndex # 0
           /\ Edit(SubSeq(queue, 1, currentIndex) \o <<t>>
                      \o SubSeq(queue, currentIndex + 1, Len(queue)), currentIndex)
  <2> DEFINE A == SubSeq(queue, 1, currentIndex)
             B == A \o <<t>>
             C == SubSeq(queue, currentIndex + 1, Len(queue))
             q == B \o C
  <2>1. /\ A \in Seq(Tracks) /\ Len(A) = currentIndex /\ A[currentIndex] = queue[currentIndex]
        /\ C \in Seq(Tracks)
    <3>1. currentIndex \in 1..Len(queue) /\ currentIndex \in Nat
      BY <1>1, <1>3
    <3>2. \A i \in 1..Len(queue) : queue[i] \in Tracks
      BY <1>1, ElementOfSeq
    <3> QED BY <1>1, <3>1, <3>2
  <2> HIDE DEF A, C
  <2>2. /\ B \in Seq(Tracks) /\ Len(B) = currentIndex + 1
        /\ B[currentIndex] = queue[currentIndex]
    BY <1>1, <1>3, <2>1
  <2> HIDE DEF B
  <2>3. /\ q \in Seq(Tracks) /\ currentIndex \in 0..Len(q)
        /\ q[currentIndex] = queue[currentIndex]
    BY <1>1, <1>3, <2>1, <2>2
  <2>4. Edit(q, currentIndex)
    BY <1>3 DEF A, B, C
  <2> HIDE DEF q
  <2> QED BY <1>3, <2>3, <2>4, EditSafe
<1>4. CASE currentIndex # 0 /\ Edit(Append(queue, t), currentIndex)
  <2>1. /\ Append(queue, t) \in Seq(Tracks) /\ currentIndex \in 0..Len(Append(queue, t))
        /\ Append(queue, t)[currentIndex] = queue[currentIndex]
    BY <1>1, <1>4
  <2> QED BY <1>4, <2>1, EditSafe
<1> QED BY <1>2, <1>3, <1>4 DEF playNext, addToQueue

LEMMA MoveSafe ==
    ASSUME PlaybackSafe, NEW source \in SUBSET (DOMAIN queue), NEW d \in 1..Len(queue) + 1,
           moveQueueItems(source, d)
    PROVE  PlaybackSafe'
<1> DEFINE q == moved(queue, source, d)
           index == IF currentIndex = 0 THEN 0 ELSE firstIndex(q, queue[currentIndex])
<1>1. /\ queue \in Seq(Tracks) /\ DOMAIN queue = 1..Len(queue)
      /\ currentIndex \in 0..Len(queue) /\ Len(queue) \in Nat /\ d \in Int
  BY LenProperties DEF PlaybackSafe, PlaybackTypeOK
<1>2. /\ q \in Seq(Tracks) /\ \A i \in DOMAIN queue : \E k \in DOMAIN q : q[k] = queue[i]
  BY <1>1, MovedProperties
<1>3. Edit(q, index)
  BY DEF moveQueueItems
<1> HIDE DEF q
<1>4. index \in 0..Len(q)
  BY <1>1, <1>2, LenProperties, FirstIndexProperties
<1>5. IF currentIndex = 0 THEN index = 0 ELSE index # 0 /\ q[index] = queue[currentIndex]
  BY <1>1, <1>2, FirstIndexProperties
<1> HIDE DEF index
<1> QED BY <1>2, <1>3, <1>4, <1>5, EditSafe

LEMMA RemoveSafe ==
    ASSUME PlaybackSafe, NEW offsets \in SUBSET (DOMAIN queue), removeQueueItems(offsets)
    PROVE  PlaybackSafe'
<1> DEFINE q == At(queue, (DOMAIN queue) \ offsets)
           index == IF currentIndex = 0 THEN 0 ELSE firstIndex(q, queue[currentIndex])
<1>1. queue \in Seq(Tracks) /\ q \in Seq(Tracks)
  BY AtProperties DEF PlaybackSafe, PlaybackTypeOK
<1>2. \/ index # 0 /\ Edit(q, index)
      \/ /\ index = 0
         /\ queue' = q /\ currentIndex' = 0 /\ stopped
         /\ reindexShuffleOrder(Len(q), shuffleEnabled)
         /\ UNCHANGED <<settings, ends>>
  BY DEF removeQueueItems
<1> HIDE DEF q
<1>3. Len(q) \in Nat /\ index \in 0..Len(q)
  BY <1>1, LenProperties, FirstIndexProperties
<1>4. index # 0 => currentIndex # 0 /\ q[index] = queue[currentIndex]
  BY <1>1, FirstIndexProperties
<1> HIDE DEF index
<1>5. CASE index # 0 /\ Edit(q, index)
  BY <1>1, <1>3, <1>4, <1>5, EditSafe
<1>6. CASE /\ queue' = q /\ currentIndex' = 0 /\ stopped
           /\ reindexShuffleOrder(Len(q), shuffleEnabled)
           /\ UNCHANGED <<settings, ends>>
  <2>1. shuffleOrder' \in Orders(Len(q))
    BY <1>3, <1>6, ReindexProperty DEF PlaybackSafe, PlaybackTypeOK
  <2>2. PlaybackTypeOK'
    <3>1. /\ rate' \in BOOLEAN /\ isPlaying' \in BOOLEAN /\ atEnd' \in BOOLEAN
          /\ item' \in Tracks \cup {NoTrack}
      BY <1>6 DEF stopped, PlaybackSafe, PlaybackTypeOK
    <3>2. currentIndex' \in 0..Len(q)
      BY <1>3, <1>6
    <3> QED BY <1>1, <1>6, <2>1, <3>1, <3>2 DEF settings, PlaybackSafe, PlaybackTypeOK
  <2>3. PlayerHasCurrent'
    BY <1>6 DEF stopped, PlayerHasCurrent
  <2> QED BY <2>2, <2>3 DEF PlaybackSafe
<1> QED BY <1>2, <1>5, <1>6

LEMMA PlaybackNextSafe == PlaybackSafe /\ [PlaybackNext]_playbackVars => PlaybackSafe'
<1> SUFFICES ASSUME PlaybackSafe, [PlaybackNext]_playbackVars PROVE PlaybackSafe'
  OBVIOUS
<1>0. /\ queue \in Seq(Tracks) /\ Len(queue) \in Nat /\ DOMAIN queue = 1..Len(queue)
      /\ \A i \in DOMAIN queue : queue[i] \in Tracks /\ i # 0 /\ i \in 0..Len(queue)
  BY LenProperties, ElementOfSeq DEF PlaybackSafe, PlaybackTypeOK
<1>1. CASE UNCHANGED playbackVars
  BY <1>1 DEF playbackVars, PlaybackSafe, PlaybackTypeOK, PlayerHasCurrent
<1>2. ASSUME NEW l \in Lists, NEW i \in DOMAIN l, play(l, i) PROVE PlaybackSafe'
  BY <1>2, PlaySafe, PlaybackAssumption
<1>3. CASE resume \/ pause \/ seek
  <2>1. rate' \in BOOLEAN /\ isPlaying' \in BOOLEAN /\ atEnd' \in BOOLEAN
    BY <1>3 DEF resume, pause, seek, PlaybackSafe, PlaybackTypeOK
  <2>2. /\ UNCHANGED <<queue, currentIndex, settings, shuffleOrder, item, ends>>
        /\ isPlaying' => isPlaying \/ currentIndex # 0
    BY <1>3 DEF resume, pause, seek
  <2> QED BY <2>1, <2>2 DEF settings, PlaybackSafe, PlaybackTypeOK, PlayerHasCurrent
<1>4. CASE skipToNext \/ skipToPrevious
  BY <1>3, <1>4, AdvanceSafe DEF skipToNext, skipToPrevious, PlaybackSafe, PlaybackTypeOK
<1>5. ASSUME NEW on \in BOOLEAN, setShuffle(on) PROVE PlaybackSafe'
  <2>1. shuffleOrder' \in Orders(Len(queue))
    BY <1>0, <1>5, ReindexProperty DEF setShuffle
  <2> QED BY <1>5, <2>1 DEF setShuffle, player, PlaybackSafe, PlaybackTypeOK, PlayerHasCurrent
<1>6. ASSUME NEW mode \in {"off", "all", "one"}, setRepeatMode(mode) PROVE PlaybackSafe'
  BY <1>6 DEF setRepeatMode, player, PlaybackSafe, PlaybackTypeOK, PlayerHasCurrent
<1>7. ASSUME NEW i \in DOMAIN queue, playQueueItem(i) PROVE PlaybackSafe'
  <2>1. PlaybackTypeOK'
    BY <1>0, <1>7 DEF playQueueItem, loadCurrentItem, settings, PlaybackSafe, PlaybackTypeOK
  <2>2. PlayerHasCurrent'
    BY <1>0, <1>7 DEF playQueueItem, loadCurrentItem, PlayerHasCurrent
  <2> QED BY <2>1, <2>2 DEF PlaybackSafe
<1>8. CASE ItemEnds
  <2>1. ends' \in 0..MaxEnds
    BY <1>8, PlaybackAssumption DEF ItemEnds, PlaybackSafe, PlaybackTypeOK
  <2> QED BY <1>8, <2>1 DEF ItemEnds, settings, PlaybackSafe, PlaybackTypeOK, PlayerHasCurrent
<1>9. CASE handlePlaybackEnded
  <2>1. ends' \in 0..MaxEnds
    BY <1>9, PlaybackAssumption DEF handlePlaybackEnded, PlaybackSafe, PlaybackTypeOK
  <2>2. CASE advance(1)
    BY <2>1, <2>2, AdvanceSafe
  <2>3. CASE /\ restart
             /\ UNCHANGED <<queue, currentIndex, isPlaying, settings, shuffleOrder, item>>
    BY <2>1, <2>3 DEF restart, settings, PlaybackSafe, PlaybackTypeOK, PlayerHasCurrent
  <2> QED BY <1>9, <2>2, <2>3 DEF handlePlaybackEnded
<1> QED BY <1>1, <1>2, <1>3, <1>4, <1>5, <1>6, <1>7, <1>8, <1>9, InsertSafe, MoveSafe,
           RemoveSafe DEF PlaybackNext, User

\* Queue, current row, shuffle order and player agree after every edit, skip and
\* late end-of-item Task (PlaybackController.swift:191-279), for any library and
\* a queue of any length.
THEOREM PlaybackIsSafe == PlaybackSpec => []PlaybackSafe
  BY PlaybackInitSafe, PlaybackNextSafe, PTL DEF PlaybackSpec
=============================================================================
