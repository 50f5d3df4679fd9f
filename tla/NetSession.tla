----------------------------- MODULE NetSession -----------------------------
(***************************************************************************)
(* The PC's side door (net/DopplerNetServer.c, threads/threads.c): a       *)
(* server thread accepts one PC after the other and acts on what each recv *)
(* returns, the draw thread sends frames to the PC that asked for them.    *)
(*                                                                         *)
(* The PC's program and TCP are not in the repository: a PC may send       *)
(* commands one at a time or in a row, long ones reach the server in two   *)
(* pieces, and it may leave at any moment.  What a command does besides    *)
(* the transfer of frames is in Refresh and Groups.                        *)
(***************************************************************************)
EXTENDS Integers, Sequences

CONSTANTS Conns,        \* connections, each made once
          NoConn,       \* a socket that accept has failed to make
          MaxCommands,  \* bound on the commands of any two connections
          MaxSockets,   \* sockets the program may have open for connections
          Backlog,      \* connections that may wait to be accepted
          Blocks        \* blocks of a frame

ASSUME NetAssumption == /\ NoConn \notin Conns
                        /\ {MaxCommands, MaxSockets} \subseteq Nat
                        /\ {Backlog, Blocks} \subseteq Nat \ {0}

VARIABLES
  peer,       \* how far each connection has come, as its socket shows it
  sent,       \* number of commands each PC has sent
  heard,      \* number of answers it has read, the greeting included
  stream,     \* what it has sent and the server has not received
  answers,    \* number of answers on their way to it
  waiting,    \* connections to be accepted
  pc,         \* where the server thread is
  current,    \* TcpClientSocketID
  sockets,    \* number of sockets accepted; none is ever closed
  recvBuf,    \* the command the server acts on
  udpAddr,    \* UdpRemoteAddr, NoConn for the address it begins with
  udpOpen,    \* UdpClientSocketID is a socket
  transfer,   \* g_bNetTransferData
  sending,    \* the block the draw thread sends next, 0 for none
  acted,      \* the commands of each PC that were acted on, 0 for a piece of one (history)
  orderly,    \* it sends known, short commands one at a time (history)
  enabler     \* the PC that enabled the transfer last (history)

pcVars == <<peer, sent, heard, stream, answers>>
tcpVars == <<waiting, pc, current, sockets, recvBuf>>
udpVars == <<udpAddr, udpOpen, transfer>>
vars == <<pcVars, tcpVars, udpVars, sending, acted, orderly, enabler>>

Kinds == {"short", "long", "on", "off", "unknown"}
Segment == [nr : 0 .. MaxCommands, kind : Kinds, part : {"whole", "head", "tail"}]
Command == [conn : Conns \cup {NoConn}, nr : 0 .. MaxCommands, kind : Kinds]

\* recvBuf is filled with 'A' before each recv, and 'A' is no command.
Filler == [conn |-> NoConn, nr |-> 0, kind |-> "unknown"]

Init ==
  /\ peer = [c \in Conns |-> "away"]
  /\ sent = [c \in Conns |-> 0] /\ heard = [c \in Conns |-> 0]
  /\ stream = [c \in Conns |-> <<>>] /\ answers = [c \in Conns |-> 0]
  /\ waiting = <<>> /\ pc = "accept" /\ current = NoConn /\ sockets = 0
  /\ recvBuf = Filler
  /\ udpAddr = NoConn /\ udpOpen \in BOOLEAN /\ transfer = FALSE
  /\ sending = 0
  /\ acted = [c \in Conns |-> <<>>] /\ orderly = [c \in Conns |-> TRUE]
  /\ enabler = NoConn

-----------------------------------------------------------------------------
(* The PC and TCP *)

Connect(c) ==
  /\ peer[c] = "away" /\ Len(waiting) < Backlog
  /\ peer' = [peer EXCEPT ![c] = "here"]
  /\ waiting' = Append(waiting, c)
  /\ UNCHANGED <<sent, heard, stream, answers, pc, current, sockets, recvBuf, udpVars,
                 sending, acted, orderly, enabler>>

Pieces(nr, kind) ==
  IF kind = "long" THEN <<[nr |-> nr, kind |-> kind, part |-> "head"],
                          [nr |-> nr, kind |-> kind, part |-> "tail"]>>
  ELSE <<[nr |-> nr, kind |-> kind, part |-> "whole"]>>

SendCommand(c, kind) ==
  /\ peer[c] = "here" /\ sent[c] < MaxCommands
  /\ \A d \in Conns \ {c} : sent[c] + sent[d] < MaxCommands
  /\ sent' = [sent EXCEPT ![c] = @ + 1]
  /\ stream' = [stream EXCEPT ![c] = @ \o Pieces(sent[c] + 1, kind)]
  /\ orderly' = [orderly EXCEPT ![c] = /\ @
                                       /\ kind \in {"short", "on", "off"}
                                       /\ heard[c] = sent[c] + 1]
  /\ UNCHANGED <<peer, heard, answers, tcpVars, udpVars, sending, acted, enabler>>

ReadAnswers(c) ==
  /\ peer[c] = "here" /\ answers[c] > 0
  /\ heard' = [heard EXCEPT ![c] = @ + answers[c]]
  /\ answers' = [answers EXCEPT ![c] = 0]
  /\ UNCHANGED <<peer, sent, stream, tcpVars, udpVars, sending, acted, orderly, enabler>>

\* A PC that leaves with answers unread resets the connection, which may cost the last
\* of what it has sent.
Leave(c) ==
  /\ peer[c] = "here"
  /\ \/ /\ answers[c] = 0
        /\ peer' = [peer EXCEPT ![c] = "closed"] /\ UNCHANGED stream
     \/ /\ answers[c] > 0
        /\ peer' = [peer EXCEPT ![c] = "reset"]
        /\ \E n \in 0 .. Len(stream[c]) :
              stream' = [stream EXCEPT ![c] = SubSeq(@, 1, n)]
  /\ UNCHANGED <<sent, heard, answers, tcpVars, udpVars, sending, acted, orderly, enabler>>

\* A PC that has left refuses what is sent to it.
Refuse(c) ==
  /\ peer[c] = "answered"
  /\ peer' = [peer EXCEPT ![c] = "refused"]
  /\ UNCHANGED <<sent, heard, stream, answers, tcpVars, udpVars, sending, acted, orderly,
                 enabler>>

-----------------------------------------------------------------------------
(* The server thread *)

\* ServerTcpSendToClient, on a connection that still takes data
SendTo(c) ==
  /\ answers' = [answers EXCEPT ![c] = IF peer[c] = "here" THEN @ + 1 ELSE @]
  /\ peer' = [peer EXCEPT ![c] = IF @ = "closed" THEN "answered" ELSE @]

Accept ==
  /\ pc = "accept" /\ sockets < MaxSockets /\ waiting # <<>>
  /\ current' = Head(waiting) /\ waiting' = Tail(waiting)
  /\ sockets' = sockets + 1
  /\ SendTo(Head(waiting))
  /\ pc' = "recv"
  /\ UNCHANGED <<sent, heard, stream, recvBuf, udpVars, sending, acted, orderly, enabler>>

\* The result of accept is not looked at.
AcceptFails ==
  /\ pc = "accept" /\ sockets = MaxSockets
  /\ current' = NoConn
  /\ pc' = "recv"
  /\ UNCHANGED <<pcVars, waiting, sockets, recvBuf, udpVars, sending, acted, orderly,
                 enabler>>

\* recv returns what has arrived; only its beginning is looked at.  A piece from the
\* middle of a command may be taken for any other.
Receive ==
  /\ pc = "recv" /\ current # NoConn /\ stream[current] # <<>>
  /\ \E n \in 1 .. Len(stream[current]) :
        stream' = [stream EXCEPT ![current] = SubSeq(@, n + 1, Len(@))]
  /\ LET first == Head(stream[current])
     IN IF first.part = "tail"
        THEN \E kind \in Kinds : recvBuf' = [conn |-> current, nr |-> 0, kind |-> kind]
        ELSE recvBuf' = [conn |-> current, nr |-> first.nr, kind |-> first.kind]
  /\ pc' = "act"
  /\ UNCHANGED <<peer, sent, heard, answers, waiting, current, sockets, udpVars, sending,
                 acted, orderly, enabler>>

\* Faulty variant: an end of the connection is taken for nothing received.
ReceiveEndAsNothing ==
  /\ pc = "recv" /\ current # NoConn /\ stream[current] = <<>>
  /\ peer[current] \in {"closed", "answered", "over"}
  /\ UNCHANGED vars

ReceiveEnd ==
  /\ pc = "recv" /\ current # NoConn /\ stream[current] = <<>>
  /\ peer[current] \in {"closed", "answered", "over"}
  /\ pc' = "accept"
  /\ UNCHANGED <<pcVars, waiting, current, sockets, recvBuf, udpVars, sending, acted,
                 orderly, enabler>>

\* Faulty variant: the buffer is not filled, and keeps the last command.
ReceiveFailsStale ==
  /\ pc = "recv"
  /\ \/ current = NoConn /\ UNCHANGED peer
     \/ /\ current # NoConn /\ stream[current] = <<>>
        /\ peer[current] \in {"reset", "refused"}
        /\ peer' = [peer EXCEPT ![current] = "over"]
  /\ pc' = "act"
  /\ UNCHANGED <<sent, heard, stream, answers, waiting, current, sockets, recvBuf, udpVars,
                 sending, acted, orderly, enabler>>

\* A failure of recv, -1, is taken for success; recvBuf is as it was filled.
ReceiveFails ==
  /\ pc = "recv"
  /\ \/ current = NoConn /\ UNCHANGED peer
     \/ /\ current # NoConn /\ stream[current] = <<>>
        /\ peer[current] \in {"reset", "refused"}
        /\ peer' = [peer EXCEPT ![current] = "over"]
  /\ recvBuf' = Filler
  /\ pc' = "act"
  /\ UNCHANGED <<sent, heard, stream, answers, waiting, current, sockets, udpVars,
                 sending, acted, orderly, enabler>>

\* Faulty variant: an unknown command is answered like the others.
DropSessionAnswered ==
  /\ pc = "act" /\ recvBuf.kind = "unknown"
  /\ pc' = "answer"
  /\ UNCHANGED <<pcVars, waiting, current, sockets, recvBuf, udpVars, sending, acted,
                 orderly, enabler>>

\* CommandTransfer of an unknown command: no answer, and the next PC's turn
DropSession ==
  /\ pc = "act" /\ recvBuf.kind = "unknown"
  /\ pc' = "accept"
  /\ UNCHANGED <<pcVars, waiting, current, sockets, recvBuf, udpVars, sending, acted,
                 orderly, enabler>>

Acted == IF recvBuf.conn = NoConn THEN acted
         ELSE [acted EXCEPT ![recvBuf.conn] = Append(@, recvBuf.nr)]

\* Faulty variant: the answer is forgotten.
ActSilently ==
  /\ pc = "act" /\ recvBuf.kind \in {"short", "long", "off"}
  /\ transfer' = (transfer /\ recvBuf.kind # "off")
  /\ acted' = Acted
  /\ pc' = "recv"
  /\ UNCHANGED <<pcVars, waiting, current, sockets, recvBuf, udpAddr, udpOpen, sending,
                 orderly, enabler>>

\* Any command but the one that enables the transfer
Act ==
  /\ pc = "act" /\ recvBuf.kind \in {"short", "long", "off"}
  /\ transfer' = (transfer /\ recvBuf.kind # "off")
  /\ acted' = Acted
  /\ pc' = "answer"
  /\ UNCHANGED <<pcVars, waiting, current, sockets, recvBuf, udpAddr, udpOpen, sending,
                 orderly, enabler>>

(***************************************************************************)
(* setup_CMD_ENABLE_DATA_TRANSFER: the socket is closed, given the new     *)
(* address and opened before the draw thread is told.                      *)
(***************************************************************************)
\* Faulty variant: the draw thread is told first.
EnableFlagFirst ==
  /\ pc = "act" /\ recvBuf.kind = "on"
  /\ transfer' = TRUE
  /\ acted' = Acted /\ enabler' = current
  /\ pc' = "closeUdp"
  /\ UNCHANGED <<pcVars, waiting, current, sockets, recvBuf, udpAddr, udpOpen, sending,
                 orderly>>

Enable ==
  /\ pc = "act" /\ recvBuf.kind = "on"
  /\ acted' = Acted /\ enabler' = current
  /\ pc' = "closeUdp"
  /\ UNCHANGED <<pcVars, waiting, current, sockets, recvBuf, udpVars, sending, orderly>>

CloseUdp ==
  /\ pc = "closeUdp"
  /\ udpOpen' = FALSE
  /\ pc' = "address"
  /\ UNCHANGED <<pcVars, waiting, current, sockets, recvBuf, udpAddr, transfer, sending,
                 acted, orderly, enabler>>

SetUdpAddress ==
  /\ pc = "address"
  /\ udpAddr' = current
  /\ pc' = "openUdp"
  /\ UNCHANGED <<pcVars, waiting, current, sockets, recvBuf, udpOpen, transfer, sending,
                 acted, orderly, enabler>>

\* The result of socket is not looked at.
OpenUdp ==
  /\ pc = "openUdp"
  /\ udpOpen' \in BOOLEAN
  /\ pc' = "raise"
  /\ UNCHANGED <<pcVars, waiting, current, sockets, recvBuf, udpAddr, transfer, sending,
                 acted, orderly, enabler>>

RaiseTransfer ==
  /\ pc = "raise"
  /\ transfer' = TRUE
  /\ pc' = "answer"
  /\ UNCHANGED <<pcVars, waiting, current, sockets, recvBuf, udpAddr, udpOpen, sending,
                 acted, orderly, enabler>>

Answer ==
  /\ pc = "answer" /\ current # NoConn
  /\ peer[current] \in {"here", "closed", "answered"}
  /\ SendTo(current)
  /\ pc' = "recv"
  /\ UNCHANGED <<sent, heard, stream, waiting, current, sockets, recvBuf, udpVars, sending,
                 acted, orderly, enabler>>

\* send fails: the next PC's turn
AnswerFails ==
  /\ pc = "answer"
  /\ \/ current = NoConn /\ UNCHANGED peer
     \/ /\ current # NoConn /\ peer[current] = "reset"
        /\ peer' = [peer EXCEPT ![current] = "over"]
  /\ pc' = "accept"
  /\ UNCHANGED <<sent, heard, stream, answers, waiting, current, sockets, recvBuf, udpVars,
                 sending, acted, orderly, enabler>>

\* A second answer to a PC that has left is a broken pipe: SIGPIPE ends the program.
AnswerBreaks ==
  /\ pc = "answer" /\ current # NoConn
  /\ peer[current] \in {"refused", "over"}
  /\ pc' = "ended"
  /\ UNCHANGED <<pcVars, waiting, current, sockets, recvBuf, udpVars, sending, acted,
                 orderly, enabler>>

Server ==
  \/ Accept \/ AcceptFails
  \/ Receive \/ ReceiveEnd \/ ReceiveFails
  \/ DropSession \/ Act \/ Enable
  \/ CloseUdp \/ SetUdpAddress \/ OpenUdp \/ RaiseTransfer
  \/ Answer \/ AnswerFails \/ AnswerBreaks

-----------------------------------------------------------------------------
(* The draw thread: TransferDataToPC, UdpSendBlocksToServer *)

BeginFrame ==
  /\ pc # "ended" /\ sending = 0 /\ transfer
  /\ sending' = 1
  /\ UNCHANGED <<pcVars, tcpVars, udpVars, acted, orderly, enabler>>

\* Faulty variant: one block more than the frame has
SendBlockPastEnd ==
  /\ pc # "ended" /\ sending > 0 /\ udpOpen
  /\ sending' = IF sending > Blocks THEN 0 ELSE sending + 1
  /\ UNCHANGED <<pcVars, tcpVars, udpVars, acted, orderly, enabler>>

SendBlock ==
  /\ pc # "ended" /\ sending > 0 /\ udpOpen
  /\ sending' = IF sending = Blocks THEN 0 ELSE sending + 1
  /\ UNCHANGED <<pcVars, tcpVars, udpVars, acted, orderly, enabler>>

\* The rest of the frame is not sent.
SendBlockFails ==
  /\ pc # "ended" /\ sending > 0 /\ ~udpOpen
  /\ sending' = 0
  /\ UNCHANGED <<pcVars, tcpVars, udpVars, acted, orderly, enabler>>

Next ==
  \/ \E c \in Conns : \/ Connect(c) \/ ReadAnswers(c) \/ Leave(c) \/ Refuse(c)
                      \/ \E kind \in Kinds : SendCommand(c, kind)
  \/ Server
  \/ BeginFrame \/ SendBlock \/ SendBlockFails

\* The server thread waits for nothing but the PC.
Spec == Init /\ [][Next]_vars /\ WF_vars(Server)

-----------------------------------------------------------------------------
PCTypeOK ==
  /\ peer \in [Conns -> {"away", "here", "closed", "answered", "refused", "reset", "over"}]
  /\ sent \in [Conns -> 0 .. MaxCommands] /\ heard \in [Conns -> Nat]
  /\ stream \in [Conns -> Seq(Segment)] /\ answers \in [Conns -> Nat]
  /\ orderly \in [Conns -> BOOLEAN]

ServerTypeOK ==
  /\ waiting \in Seq(Conns) /\ Len(waiting) <= Backlog
  /\ pc \in {"accept", "recv", "act", "closeUdp", "address", "openUdp", "raise", "answer",
             "ended"}
  /\ current \in Conns \cup {NoConn} /\ sockets \in 0 .. MaxSockets
  /\ recvBuf \in Command /\ acted \in [Conns -> Seq(0 .. MaxCommands)]

TransferTypeOK ==
  /\ udpAddr \in Conns \cup {NoConn} /\ enabler \in Conns \cup {NoConn}
  /\ udpOpen \in BOOLEAN /\ transfer \in BOOLEAN
  /\ sending \in 0 .. Blocks

TypeOK == PCTypeOK /\ ServerTypeOK /\ TransferTypeOK

(***************************************************************************)
(* No command is acted on twice or after a later one, however the stream   *)
(* is cut and however recv and accept fail; those of a PC that sends known *)
(* and short commands and waits for each answer are acted on one by one,   *)
(* and none is passed over.                                                *)
(***************************************************************************)
ActsOnce ==
  \A c \in Conns :
    /\ \A j, k \in DOMAIN acted[c] : j < k /\ acted[c][k] # 0 => acted[c][j] < acted[c][k]
    /\ orderly[c] => \A k \in DOMAIN acted[c] : acted[c][k] = k

(***************************************************************************)
(* As long as all PCs send that way, none of them ends the program by      *)
(* leaving: nothing is sent a second time to a PC that has left.           *)
(***************************************************************************)
OrderlyPCsHarmless == (\A c \in Conns : orderly[c]) => pc # "ended"

(***************************************************************************)
(* Blocks go to the PC that enabled the transfer last, or while that is    *)
(* under way to the one before; never to the address built in, though the  *)
(* draw thread may be in the middle of a frame at any step of the server.  *)
(***************************************************************************)
BlocksToEnabler ==
  [][SendBlock => /\ udpAddr # NoConn
                  /\ pc \notin {"closeUdp", "address"} => udpAddr = enabler]_vars

(***************************************************************************)
(* Each command of such a PC that the server has turned to is answered, if *)
(* the PC waits for it.  (A command also waits for the GDK lock, which     *)
(* whoever holds it always releases.)                                      *)
(***************************************************************************)
Owed == /\ current # NoConn
        /\ orderly[current] /\ peer[current] = "here"
        /\ heard[current] + answers[current] = sent[current]
Answered == Owed ~> ~Owed

(***************************************************************************)
(* A PC that leaves, at whatever point and with whatever it has sent,      *)
(* frees the server for the next.  (TCP tells the server of its leaving; a *)
(* link that goes silently, on which recv waits for ever, is left out.)    *)
(***************************************************************************)
ServedGone == /\ pc \notin {"accept", "ended"}
              /\ current # NoConn /\ peer[current] # "here"
ServerFreed == ServedGone ~> ~ServedGone
=============================================================================
