---------------------------- MODULE RecordingClient ----------------------------
(***************************************************************************)
(* ZDRecordingClient: the socket to the ZDTalk server on the main thread,  *)
(* the commands it posts to the OBS thread, the notifications that come    *)
(* back, and the end of the process when the socket drops.                 *)
(*                                                                         *)
(* The socket is a stream of bytes.  Message i of the server is <<i, 1>>   *)
(* and <<i, 2>>, its size, <<i, 3>>, its event, and its payload.           *)
(* onSocketReadyRead parses what readAll returns, whatever that is; it     *)
(* ignores the size, and a read past the end yields 0.  The commands'      *)
(* slots are those of RecordOutput, StreamOutput and ObsContext: here a    *)
(* command only runs, and may answer.                                      *)
(***************************************************************************)
EXTENDS Integers, Sequences

CONSTANTS
    Events,        \* events the client knows
    Unknown,       \* an event it does not
    Initialize,    \* event 0: EventInitialize
    PayloadSize,   \* [Events \cup {Unknown} -> bytes of the payload]
    MaxMessages    \* bound: messages of the server

AllEvents == Events \cup {Unknown}

ASSUME RecordingClientAssumption ==
    /\ Unknown \notin Events
    /\ Initialize \in Events
    /\ PayloadSize \in [AllEvents -> Nat]
    /\ MaxMessages \in Nat

VARIABLES
    server,   \* the server and its end of the socket
    wire,     \* bytes on their way to the client
    client,   \* the main thread
    obs       \* the OBS thread and the two event queues between the threads

vars == <<server, wire, client, obs>>

Bytes == (1..MaxMessages) \X Nat

\* A command that was not parsed from a whole message is of message 0.
Commands == [event : Events, of : 0..MaxMessages]

\* The server's messages, whether its end of the socket is open, and the
\* notifications it received, by their number.
ServerType == [sent : Seq(AllEvents), open : BOOLEAN, received : Seq(Nat)]

\* garbled tells that a read ended inside a message, or that the payload of
\* an unknown event was taken for a message.
ClientType ==
    [main : {"start", "loop", "parse", "quit", "wait", "exited"},
     data : Seq(Bytes), garbled : BOOLEAN]

\* posted are the commands posted to the OBS thread, notices the
\* notifications posted to the main thread.
ObsType ==
    [thread : {"none", "running", "quitting", "finished"},
     posted : Seq(Commands), executed : Seq(Commands),
     notices : Seq(Nat)]

Message(i, event) == [k \in 1..(3 + PayloadSize[event]) |-> <<i, k>>]
IsLast(byte) == byte[2] = 3 + PayloadSize[server.sent[byte[1]]]

Init ==
    /\ server = [sent |-> <<>>, open |-> TRUE, received |-> <<>>]
    /\ wire = <<>>
    /\ client = [main |-> "start", data |-> <<>>, garbled |-> FALSE]
    /\ obs = [thread |-> "none", posted |-> <<>>, executed |-> <<>>,
              notices |-> <<>>]

-----------------------------------------------------------------------------
(***************************************************************************)
(* The server.                                                             *)
(***************************************************************************)
SendCommand(event) ==
    /\ server.open /\ client.main # "start"
    /\ Len(server.sent) < MaxMessages
    /\ server' = [server EXCEPT !.sent = Append(@, event)]
    /\ wire' = wire \o Message(Len(server.sent) + 1, event)
    /\ UNCHANGED <<client, obs>>

Close ==
    /\ server.open /\ client.main # "start"
    /\ server' = [server EXCEPT !.open = FALSE]
    /\ UNCHANGED <<wire, client, obs>>

-----------------------------------------------------------------------------
(***************************************************************************)
(* The slots of the main thread.                                           *)
(***************************************************************************)
\* Mutant: the OBS thread is not started.
SocketConnectedOnly ==
    /\ client.main = "start"
    /\ client' = [client EXCEPT !.main = "loop"]
    /\ UNCHANGED <<server, wire, obs>>

\* connectToServer and onSocketConnected.
SocketConnected ==
    /\ client.main = "start"
    /\ client' = [client EXCEPT !.main = "loop"]
    /\ obs' = [obs EXCEPT !.thread = "running"]
    /\ UNCHANGED <<server, wire>>

\* Mutant: a read that ends inside a message leaves all it read for the next.
SocketReadAgain ==
    /\ client.main = "loop"
    /\ \E k \in DOMAIN wire :
         /\ client' = [client EXCEPT
                         !.main    = IF k < 2 THEN "loop" ELSE "parse",
                         !.data    = IF k < 2 THEN <<>> ELSE SubSeq(wire, 1, k),
                         !.garbled = @ \/ ~IsLast(wire[k])]
         /\ wire' = IF IsLast(wire[k]) THEN SubSeq(wire, k + 1, Len(wire)) ELSE wire
    /\ UNCHANGED <<server, obs>>

\* readAll returns what has arrived.  A single byte is thrown away.
SocketReadyRead ==
    /\ client.main = "loop"
    /\ \E k \in DOMAIN wire :
         /\ client' = [client EXCEPT
                         !.main    = IF k < 2 THEN "loop" ELSE "parse",
                         !.data    = IF k < 2 THEN <<>> ELSE SubSeq(wire, 1, k),
                         !.garbled = @ \/ ~IsLast(wire[k])]
         /\ wire' = SubSeq(wire, k + 1, Len(wire))
    /\ UNCHANGED <<server, obs>>

\* The event that is read where the event byte is due.
EventRead(data) ==
    IF Len(data) < 3 THEN {Initialize}
    ELSE IF data[3][2] = 3 THEN {server.sent[data[3][1]]}
    ELSE AllEvents

\* Where the fields of that event end.  A string read from other bytes than
\* its own has any length: too long a one takes all there is.
PayloadEnd(data, event) ==
    IF Len(data) < 3 THEN {Len(data)}
    ELSE IF event = Unknown THEN {3}
    ELSE IF data[3][2] = 3
      THEN {IF PayloadSize[event] + 3 < Len(data) THEN PayloadSize[event] + 3
            ELSE Len(data)}
    ELSE {3, Len(data)}

\* Whether the fields were those of one message.
IsWhole(data, end) == Len(data) >= 3 /\ data[3][2] = 3 /\ IsLast(data[end])

\* Mutant: only the first message of a read is parsed.
ParseFirst ==
    /\ client.main = "parse"
    /\ \E event \in EventRead(client.data) :
       \E end \in PayloadEnd(client.data, event) :
         LET whole   == IsWhole(client.data, end)
             command == [event |-> event,
                         of    |-> IF whole THEN client.data[3][1] ELSE 0]
         IN  /\ obs' = IF event = Unknown THEN obs
                       ELSE [obs EXCEPT !.posted = Append(@, command)]
             /\ client' = [client EXCEPT !.main = "loop", !.data = <<>>,
                                         !.garbled = @ \/ ~whole]
    /\ UNCHANGED <<server, wire>>

\* One turn of onSocketReadyRead's loop.
ParseMessage ==
    /\ client.main = "parse"
    /\ \E event \in EventRead(client.data) :
       \E end \in PayloadEnd(client.data, event) :
         LET rest    == SubSeq(client.data, end + 1, Len(client.data))
             whole   == IsWhole(client.data, end)
             command == [event |-> event,
                         of    |-> IF whole THEN client.data[3][1] ELSE 0]
         IN  /\ obs' = IF event = Unknown THEN obs
                       ELSE [obs EXCEPT !.posted = Append(@, command)]
             /\ client' = [client EXCEPT
                             !.main = IF rest = <<>> THEN "loop" ELSE "parse",
                             !.data = rest,
                             !.garbled = @ \/ ~whole]
    /\ UNCHANGED <<server, wire>>

\* sendMessageToServer, unless the socket is not writable.
SendMessageToServer ==
    /\ client.main = "loop"
    /\ obs.notices # <<>>
    /\ obs' = [obs EXCEPT !.notices = Tail(@)]
    /\ server' = IF server.open
                   THEN [server EXCEPT !.received = Append(@, Head(obs.notices))]
                   ELSE server
    /\ UNCHANGED <<wire, client>>

\* onSocketDisconnected; what was not read is lost.
SocketDisconnected ==
    /\ client.main = "loop"
    /\ ~server.open
    /\ client' = [client EXCEPT !.main = "quit"]
    /\ UNCHANGED <<server, wire, obs>>

\* ~ZDRecordingClient.
Quit ==
    /\ client.main = "quit"
    /\ client' = [client EXCEPT !.main = "wait"]
    /\ obs' = [obs EXCEPT !.thread = "quitting"]
    /\ UNCHANGED <<server, wire>>

\* The thread has ended, or spends more than a second in a command (which
\* RecordOutput and StreamOutput look into).
Waited ==
    /\ client.main = "wait"
    /\ obs.thread = "finished"
    /\ client' = [client EXCEPT !.main = "exited"]
    /\ obs' = [obs EXCEPT !.posted = <<>>, !.notices = <<>>]
    /\ UNCHANGED <<server, wire>>

-----------------------------------------------------------------------------
(***************************************************************************)
(* The OBS thread.                                                         *)
(***************************************************************************)
\* A command runs and answers (those that do are initialize and the starts
\* and stops); the answer is posted to the main thread.
Execute ==
    /\ obs.thread \in {"running", "quitting"}
    /\ obs.posted # <<>>
    /\ obs' = [obs EXCEPT !.posted   = Tail(@),
                          !.executed = Append(@, Head(obs.posted)),
                          !.notices  = Append(@, Len(obs.executed) + 1)]
    /\ UNCHANGED <<server, wire, client>>

\* quit() lets the events that are being processed finish, no others.
ThreadFinishes ==
    /\ obs.thread = "quitting"
    /\ obs' = [obs EXCEPT !.thread = "finished"]
    /\ UNCHANGED <<server, wire, client>>

Main == \/ SocketReadyRead \/ ParseMessage \/ SendMessageToServer
        \/ SocketDisconnected \/ Quit \/ Waited

ObsThread == Execute \/ ThreadFinishes

Next ==
    /\ client.main # "exited"
    /\ \/ \E event \in AllEvents : SendCommand(event)
       \/ Close \/ SocketConnected \/ Main \/ ObsThread

Spec == Init /\ [][Next]_vars

\* Both event loops run, and an event loop leaves no event waiting for ever.
\* The server may not be there to connect to, and nothing obliges it to send
\* or to close.
Fairness ==
    /\ WF_vars(Main) /\ WF_vars(ObsThread)
    /\ SF_vars(SocketReadyRead) /\ SF_vars(SocketDisconnected)
    /\ WF_vars(ThreadFinishes)

FairSpec == Spec /\ Fairness

-----------------------------------------------------------------------------
\* Every variable keeps its type.
TypeOK ==
    /\ server \in ServerType
    /\ wire \in Seq(Bytes)
    /\ client \in ClientType
    /\ obs \in ObsType

\* However many messages a read returns, and whichever thread is ahead, the
\* OBS thread runs the commands as they were sent: each is a message, and no
\* command sent before it is left out or still to come, as long as no message
\* was cut in two.
ExecutedAsSent ==
    ~client.garbled => \A i \in DOMAIN obs.executed :
        LET c == obs.executed[i] IN
        /\ c.of \in DOMAIN server.sent /\ c.event = server.sent[c.of]
        /\ \A m \in 1..(c.of - 1) : server.sent[m] # Unknown =>
               \E j \in 1..(i - 1) : obs.executed[j].of = m

\* What is read once is not read again: even when messages are cut, those
\* that arrive whole run at most once and in order.
NeverTwice ==
    \A i, j \in DOMAIN obs.executed :
        i < j /\ obs.executed[i].of > 0 /\ obs.executed[j].of > 0
            => obs.executed[i].of < obs.executed[j].of

\* Every command is run, unless messages are garbled or the server goes.
EveryCommandRuns ==
    \A m \in 1..MaxMessages :
        m \in DOMAIN server.sent /\ server.sent[m] # Unknown ~>
            \/ \E i \in DOMAIN obs.executed : obs.executed[i].of = m
            \/ client.garbled \/ ~server.open
=============================================================================
