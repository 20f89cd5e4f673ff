----------------------------- MODULE HttpClient ------------------------------
(***************************************************************************)
(* One exchange of the sync client with its server: SimpleHttpClient's     *)
(* get() and postFile() (sync-client/src/HttpClient.cpp) as uploadFile()   *)
(* (UploadTransport.cpp) and fetchManifest() (ServerManifestSource.cpp)    *)
(* use them, against a peer that behaves like musicbox-server or dies, and *)
(* a file that changes while it is sent.                                   *)
(*                                                                         *)
(* Bytes are counted in units: a request head is one, a response head two. *)
(* Every system call is one step; an EINTR is a stuttering step.  A send() *)
(* to a peer that has closed succeeds and provokes a reset, after which    *)
(* the next one raises SIGPIPE: the client passes no MSG_NOSIGNAL and,     *)
(* unlike the server, does not ignore the signal.                          *)
(***************************************************************************)
EXTENDS Integers

CONSTANTS
    MaxSize,       \* bound: size of the file
    Chunk,         \* units read from the file at a time (64 KiB in the code)
    Window,        \* bound: units a connection holds in one direction
    MaxBody,       \* largest request body the server accepts (10 MiB)
    ResponseBody   \* units of a response's body

ASSUME ClientAssumption ==
    /\ MaxSize \in Nat /\ Chunk \in Nat \ {0} /\ Window \in Nat \ {0}
    /\ MaxBody \in Nat /\ ResponseBody \in Nat

VARIABLES
    file,    \* size of the file on disk
    call,    \* the client: phase and local variables
    link,    \* the connection: state, units under way up and down
    peer     \* the server's side: units read, answer, units of it sent

callVars == <<file, call, link, peer>>

\* pos is how far the file was read, pending what is left of the chunk, short
\* is history: the body ended before the declared length.
Fresh == [op |-> "none", phase |-> "idle", declared |-> 0, pos |-> 0, pending |-> 0,
          got |-> 0, connected |-> FALSE, ok |-> FALSE, short |-> FALSE]
NoLink == [state |-> "none", up |-> 0, down |-> 0]
NoPeer == [read |-> 0, status |-> "none", lengthGiven |-> TRUE, sent |-> 0]

ResponseHead == 2
Response == ResponseHead + ResponseBody

CallInit == file \in 0..MaxSize /\ call = Fresh /\ link = NoLink /\ peer = NoPeer

-----------------------------------------------------------------------------
(* The client.                                                              *)

ended == call.phase \in {"returned", "killed"}

\* Mutant: an answer is a success whatever its status.
uploadFile_AnyStatus(connected, status) == connected

\* uploadFile(): connected and 2xx.  fetchManifest() asks for 200.
uploadFile(connected, status) == connected /\ status = "ok"

\* Every return closes the socket (ScopedSocket).
Return(c, connected) ==
    /\ call' = [c EXCEPT !.phase = "returned", !.connected = connected,
                         !.ok = uploadFile(connected, peer.status)]
    /\ link' = NoLink

Goto(phase) == call' = [call EXCEPT !.phase = phase] /\ UNCHANGED link

BeginCall(op) ==
    /\ call.phase = "idle"
    /\ call' = [call EXCEPT !.op = op, !.phase = IF op = "get" THEN "connect" ELSE "stat"]
    /\ UNCHANGED <<file, link, peer>>

\* postFile(): file_size() decides Content-Length.
Stat == /\ call.phase = "stat"
        /\ call' = [call EXCEPT !.phase = "open", !.declared = file]
        /\ UNCHANGED <<file, link, peer>>

Open == call.phase = "open" /\ Goto("connect") /\ UNCHANGED <<file, peer>>

\* connectTo(): one of the resolved addresses accepts.
Connect == /\ call.phase = "connect"
           /\ link' = [NoLink EXCEPT !.state = "up"]
           /\ call' = [call EXCEPT !.phase = "head"]
           /\ UNCHANGED <<file, peer>>

\* The file cannot be examined or opened, or no address accepts.
SetupFails == /\ call.phase \in {"stat", "open", "connect"}
              /\ Return(call, FALSE)
              /\ UNCHANGED <<file, peer>>

\* send() takes n units.  After a FIN they go nowhere, and the reset they
\* provoke arrives now or later.
Send(n) == \/ /\ link.state = "up" /\ link.up + n <= Window
              /\ link' = [link EXCEPT !.up = @ + n]
           \/ /\ link.state = "fin"
              /\ \E s \in {"fin", "pipe"} : link' = [link EXCEPT !.state = s]

\* sendAll() of the request head.
SendHead ==
    /\ call.phase = "head" /\ Send(1)
    /\ call' = [call EXCEPT !.phase = IF call.op = "get" THEN "recvHead" ELSE "read"]
    /\ UNCHANGED <<file, peer>>

\* file.read(): at the end of the file the body is done, however long it was.
ReadChunk ==
    /\ call.phase = "read"
    /\ LET n == IF file - call.pos > Chunk THEN Chunk ELSE file - call.pos
       IN  call' = IF n <= 0
                   THEN [call EXCEPT !.phase = "recvHead", !.short = call.pos < call.declared]
                   ELSE [call EXCEPT !.phase = "send", !.pending = n, !.pos = @ + n]
    /\ UNCHANGED <<file, link, peer>>

\* The stream goes bad: the loop ends as at the end of the file.
ReadFails ==
    /\ call.phase = "read"
    /\ call' = [call EXCEPT !.phase = "recvHead", !.short = call.pos < call.declared]
    /\ UNCHANGED <<file, link, peer>>

\* sendAll() of a chunk: as many send() calls as it takes.
SendChunk(n) ==
    /\ call.phase = "send" /\ n \in 1..call.pending /\ Send(n)
    /\ call' = [call EXCEPT !.pending = @ - n,
                            !.phase = IF n = call.pending THEN "read" ELSE "send"]
    /\ UNCHANGED <<file, peer>>

\* send() on a reset connection: ECONNRESET, and the call returns.
SendFails == /\ call.phase \in {"head", "send"} /\ link.state = "rst"
             /\ Return(call, FALSE)
             /\ UNCHANGED <<file, peer>>

\* send() after FIN and reset: SIGPIPE ends the process.
SigPipe == /\ call.phase \in {"head", "send"} /\ link.state = "pipe"
           /\ call' = [call EXCEPT !.phase = "killed"]
           /\ link' = NoLink
           /\ UNCHANGED <<file, peer>>

\* readResponse(): Content-Length, if given, says when the body is complete;
\* otherwise only the end of the connection does.
bodyDone(got) == peer.lengthGiven /\ got >= Response

\* recv() of n units, of head or body.
Recv(n) ==
    /\ call.phase \in {"recvHead", "recvBody"} /\ n \in 1..link.down
    /\ LET c == [call EXCEPT !.got = @ + n,
                    !.phase = IF call.got + n >= ResponseHead THEN "recvBody" ELSE @]
       IN  IF c.phase = "recvBody" /\ bodyDone(c.got)
           THEN Return(c, TRUE)
           ELSE call' = c /\ link' = [link EXCEPT !.down = @ - n]
    /\ UNCHANGED <<file, peer>>

\* Mutant: end of file while the head is read is taken for an EINTR.
RecvEof_Retry ==
    /\ call.phase \in {"recvHead", "recvBody"}
    /\ link.down = 0 /\ link.state \in {"fin", "pipe"}
    /\ IF call.phase = "recvHead" THEN UNCHANGED <<call, link>> ELSE Return(call, TRUE)
    /\ UNCHANGED <<file, peer>>

\* recv() returns 0: an error in the head; in the body what has come so far
\* is the answer.
RecvEof ==
    /\ call.phase \in {"recvHead", "recvBody"}
    /\ link.down = 0 /\ link.state \in {"fin", "pipe"}
    /\ Return(call, call.phase = "recvBody")
    /\ UNCHANGED <<file, peer>>

\* recv() fails: an error, unless the body was to last until the connection ends.
RecvFails ==
    /\ call.phase \in {"recvHead", "recvBody"}
    /\ link.down = 0 /\ link.state \in {"rst", "pipe"}
    /\ Return(call, call.phase = "recvBody" /\ ~peer.lengthGiven)
    /\ UNCHANGED <<file, peer>>

\* The next file of uploadAll(), or the next run of the program: a client and a
\* connection of its own.
Again == /\ ended
         /\ call' = Fresh /\ link' = NoLink /\ peer' = NoPeer
         /\ UNCHANGED file

Client == \/ Stat \/ Open \/ Connect \/ SetupFails \/ SendHead \/ ReadChunk \/ ReadFails
          \/ \E n \in 1..Chunk : SendChunk(n)
          \/ SendFails \/ SigPipe
          \/ \E n \in 1..Window : Recv(n)
          \/ RecvEof \/ RecvFails \/ Again

-----------------------------------------------------------------------------
(* The environment.                                                         *)

\* The file is truncated, extended or replaced in place.
FileChanges == file' \in (0..MaxSize) \ {file} /\ UNCHANGED <<call, link, peer>>

\* The server reads whatever arrives, also while its response drains.
PeerRead == /\ link.state = "up" /\ link.up > 0
            /\ link' = [link EXCEPT !.up = @ - 1]
            /\ peer' = [peer EXCEPT !.read = @ + 1]
            /\ UNCHANGED <<file, call>>

\* The whole request is there: head and declared body.
complete == peer.read >= 1 + call.declared

\* The server answers a complete request, or refuses one that declares too
\* large a body as soon as it has its head.
PeerAnswer(status, lengthGiven) ==
    /\ link.state = "up" /\ peer.status = "none" /\ peer.read >= 1
    /\ IF call.declared > MaxBody THEN status = "refused" ELSE complete
    /\ peer' = [peer EXCEPT !.status = status, !.lengthGiven = lengthGiven]
    /\ UNCHANGED <<file, call, link>>

PeerSend == /\ link.state = "up" /\ peer.status # "none" /\ peer.sent < Response
            /\ link.down < Window
            /\ link' = [link EXCEPT !.down = @ + 1]
            /\ peer' = [peer EXCEPT !.sent = @ + 1]
            /\ UNCHANGED <<file, call>>

\* close() with nothing unread is a FIN, otherwise a reset that may cost the
\* client what it has not read yet.
Close == /\ link' \in IF link.up = 0 THEN {[link EXCEPT !.state = "fin"]}
                      ELSE {[link EXCEPT !.state = "rst", !.up = 0, !.down = d] : d \in {0, link.down}}
         /\ UNCHANGED <<file, call, peer>>

PeerClose == link.state = "up" /\ peer.sent = Response /\ Close
PeerDies == link.state = "up" /\ peer.sent < Response /\ Close

Peer == \/ PeerRead \/ PeerSend \/ PeerClose
        \/ \E status \in {"ok", "refused"}, given \in BOOLEAN : PeerAnswer(status, given)

CallNext == \/ \E op \in {"get", "post"} : BeginCall(op)
            \/ Client \/ Peer \/ PeerDies \/ FileChanges

\* The process and the server's loop run whenever they can.
CallFairness == WF_callVars(Client) /\ WF_callVars(Peer)

CallSpec == CallInit /\ [][CallNext]_callVars /\ CallFairness

-----------------------------------------------------------------------------
(* Properties.                                                              *)

CallTypeOK ==
    /\ file \in 0..MaxSize
    /\ call.declared \in 0..MaxSize /\ call.pos \in 0..MaxSize
    /\ call.pending \in 0..Chunk /\ call.got \in 0..Response
    /\ link.state \in {"none", "up", "fin", "rst", "pipe"}
    /\ link.up \in 0..Window /\ link.down \in 0..Window
    /\ peer.status \in {"none", "ok", "refused"} /\ peer.sent \in 0..Response

\* uploadFile() returns true (UploadTransport.cpp:24) only if the server has
\* read every byte that Content-Length announced, although the file may have
\* changed since file_size() (HttpClient.cpp:252) and the answer may have come
\* before the body was sent.
SuccessMeansDelivered ==
    call.ok /\ call.phase = "returned" => peer.read >= 1 + call.declared

\* The safety of an exchange, whatever the peer and the file do meanwhile.
CallSafe == CallTypeOK /\ SuccessMeansDelivered

\* get() and postFile() return or the process dies, unless the file turned
\* out shorter than its announced length (HttpClient.cpp:298): then client
\* and server wait for each other, and neither has a timeout.
CallEnds == call.phase = "connect" ~> ended \/ call.short
=============================================================================
