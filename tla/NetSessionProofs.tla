-------------------------- MODULE NetSessionProofs --------------------------
(***************************************************************************)
(* Proofs about the PC's side door: the types, to whom the draw thread's   *)
(* blocks go while the server reopens the transfer under it, that no       *)
(* command is acted on twice or out of turn, and that orderly PCs do not   *)
(* end the program; for any number of connections, commands and blocks.    *)
(***************************************************************************)
EXTENDS NetSession, SequenceTheorems, TLAPS

\* The steps of setup_CMD_ENABLE_DATA_TRANSFER
Enabling == {"closeUdp", "address", "openUdp", "raise"}

\* A command that failed to arrive is no command, so only a PC that is there enables the
\* transfer; its address is in place but for the two steps before it is set, and it was
\* set before the draw thread was first told.
TransferInv ==
  /\ pc = "act" /\ current = NoConn => recvBuf.kind = "unknown"
  /\ pc \in Enabling => current # NoConn /\ enabler = current
  /\ pc \notin {"closeUdp", "address"} => udpAddr = enabler
  /\ transfer \/ sending > 0 => udpAddr # NoConn

-----------------------------------------------------------------------------
(* The commands on their way *)

LEMMA PiecesType ==
  ASSUME NEW nr \in 0 .. MaxCommands, NEW kind \in Kinds
  PROVE  Pieces(nr, kind) \in Seq(Segment)
<1>1. \A part \in {"whole", "head", "tail"} : [nr |-> nr, kind |-> kind, part |-> part] \in Segment
  BY DEF Segment
<1> QED
  BY <1>1 DEF Pieces

LEMMA CutType ==
  ASSUME NEW S, NEW s \in Seq(S), NEW n \in 0 .. Len(s)
  PROVE  SubSeq(s, n + 1, Len(s)) \in Seq(S) /\ SubSeq(s, 1, n) \in Seq(S)
<1>1. \A i \in 1 .. Len(s) : s[i] \in S
  OBVIOUS
<1> QED
  BY <1>1, SubSeqProperties

-----------------------------------------------------------------------------
(* The types *)

LEMMA InitType == Init => TypeOK
<1> SUFFICES ASSUME Init PROVE TypeOK
  OBVIOUS
<1> USE NetAssumption DEF Init
<1>1. PCTypeOK
  BY DEF PCTypeOK
<1>2. Filler \in Command
  BY DEF Filler, Command, Kinds
<1>3. ServerTypeOK
  <2>1. waiting \in Seq(Conns) /\ Len(waiting) = 0 /\ 0 <= Backlog
    OBVIOUS
  <2>2. acted \in [Conns -> Seq(0 .. MaxCommands)]
    <3>1. <<>> \in Seq(0 .. MaxCommands)
      OBVIOUS
    <3> QED
      BY <3>1
  <2>3. pc = "accept" /\ current = NoConn /\ sockets \in 0 .. MaxSockets
    OBVIOUS
  <2> QED
    BY <1>2, <2>1, <2>2, <2>3 DEF ServerTypeOK
<1>4. TransferTypeOK
  <2>1. udpOpen \in BOOLEAN /\ transfer \in BOOLEAN
    BY Zenon
  <2>2. sending \in 0 .. Blocks
    OBVIOUS
  <2> QED
    BY <2>1, <2>2 DEF TransferTypeOK
<1> QED
  BY <1>1, <1>3, <1>4 DEF TypeOK

LEMMA SendCommandType ==
  ASSUME PCTypeOK, NEW c \in Conns, NEW kind \in Kinds, SendCommand(c, kind)
  PROVE  PCTypeOK'
<1> USE NetAssumption DEF PCTypeOK
<1>1. sent[c] + 1 \in 0 .. MaxCommands
  BY DEF SendCommand
<1>2. stream[c] \o Pieces(sent[c] + 1, kind) \in Seq(Segment)
  BY <1>1, PiecesType, ConcatProperties
<1>3. stream' \in [Conns -> Seq(Segment)]
  BY <1>2 DEF SendCommand
<1>4. orderly' \in [Conns -> BOOLEAN]
  BY DEF SendCommand
<1>5. sent' \in [Conns -> 0 .. MaxCommands]
  BY <1>1 DEF SendCommand
<1> QED
  BY <1>3, <1>4, <1>5 DEF SendCommand

LEMMA LeaveType ==
  ASSUME PCTypeOK, NEW c \in Conns, Leave(c)
  PROVE  PCTypeOK'
<1> USE DEF PCTypeOK
<1>1. stream' \in [Conns -> Seq(Segment)]
  <2>1. CASE answers[c] = 0
    BY <2>1 DEF Leave
  <2>2. CASE answers[c] > 0
    <3>1. PICK n \in 0 .. Len(stream[c]) : stream' = [stream EXCEPT ![c] = SubSeq(@, 1, n)]
      BY <2>2 DEF Leave
    <3>2. SubSeq(stream[c], 1, n) \in Seq(Segment)
      BY CutType
    <3> QED
      BY <3>1, <3>2
  <2> QED
    BY <2>1, <2>2
<1>2. peer' \in [Conns -> {"away", "here", "closed", "answered", "refused", "reset", "over"}]
  BY DEF Leave
<1> QED
  BY <1>1, <1>2 DEF Leave

\* What the PC does
LEMMA PCType ==
  ASSUME TypeOK, NEW c \in Conns,
         \/ Connect(c) \/ ReadAnswers(c) \/ Leave(c) \/ Refuse(c)
         \/ \E kind \in Kinds : SendCommand(c, kind)
  PROVE  TypeOK'
<1> USE DEF TypeOK
<1>1. PCTypeOK'
  <2>1. CASE Connect(c)
    BY <2>1 DEF Connect, PCTypeOK
  <2>2. CASE ReadAnswers(c)
    BY <2>2 DEF ReadAnswers, PCTypeOK
  <2>3. CASE Refuse(c)
    BY <2>3 DEF Refuse, PCTypeOK
  <2> QED
    BY <2>1, <2>2, <2>3, LeaveType, SendCommandType
<1>2. ServerTypeOK'
  <2>1. CASE Connect(c)
    <3>1. waiting' \in Seq(Conns) /\ Len(waiting') <= Backlog
      BY <2>1, NetAssumption DEF Connect, ServerTypeOK
    <3> QED
      BY <2>1, <3>1 DEF Connect, ServerTypeOK
  <2>2. CASE ~Connect(c)
    <3>1. UNCHANGED <<tcpVars, acted>>
      BY <2>2 DEF ReadAnswers, Leave, Refuse, SendCommand
    <3> QED
      BY <3>1 DEF tcpVars, ServerTypeOK
  <2> QED
    BY <2>1, <2>2
<1>3. UNCHANGED <<udpVars, sending, enabler>>
  BY DEF Connect, ReadAnswers, Leave, Refuse, SendCommand
<1>4. TransferTypeOK'
  BY <1>3 DEF udpVars, TransferTypeOK
<1> QED
  BY <1>1, <1>2, <1>4

\* What an answer does to the connection
LEMMA SendToType ==
  ASSUME PCTypeOK, NEW c \in Conns, SendTo(c), UNCHANGED <<sent, heard, stream, orderly>>
  PROVE  PCTypeOK'
  BY DEF SendTo, PCTypeOK

LEMMA PCTypeStays ==
  ASSUME PCTypeOK, UNCHANGED <<pcVars, orderly>>
  PROVE  PCTypeOK'
  BY DEF pcVars, PCTypeOK

LEMMA TransferTypeStays ==
  ASSUME TransferTypeOK, UNCHANGED <<udpVars, sending, enabler>>
  PROVE  TransferTypeOK'
  BY DEF udpVars, TransferTypeOK

LEMMA AcceptType == TypeOK /\ Accept => TypeOK'
<1> SUFFICES ASSUME TypeOK, Accept PROVE TypeOK'
  OBVIOUS
<1> USE DEF TypeOK
<1>1. /\ Head(waiting) \in Conns
      /\ Tail(waiting) \in Seq(Conns) /\ Len(Tail(waiting)) <= Backlog
  BY NetAssumption DEF Accept, ServerTypeOK
<1>2. PCTypeOK'
  BY <1>1, SendToType DEF Accept
<1>3. ServerTypeOK'
  BY <1>1, NetAssumption DEF Accept, ServerTypeOK
<1> QED
  BY <1>2, <1>3, TransferTypeStays DEF Accept

LEMMA ReceiveType == TypeOK /\ Receive => TypeOK'
<1> SUFFICES ASSUME TypeOK, Receive PROVE TypeOK'
  OBVIOUS
<1> USE DEF TypeOK
<1>1. current \in Conns /\ stream[current] \in Seq(Segment) /\ stream[current] # <<>>
  BY DEF Receive, PCTypeOK, ServerTypeOK
<1>2. stream' \in [Conns -> Seq(Segment)]
  <2>1. PICK n \in 1 .. Len(stream[current]) :
          stream' = [stream EXCEPT ![current] = SubSeq(@, n + 1, Len(@))]
    BY DEF Receive
  <2>2. SubSeq(stream[current], n + 1, Len(stream[current])) \in Seq(Segment)
    BY <1>1, CutType
  <2> QED
    BY <2>1, <2>2 DEF PCTypeOK
<1>3. Head(stream[current]) \in Segment
  BY <1>1
<1>4. recvBuf' \in Command
  BY <1>1, <1>3, NetAssumption DEF Receive, Command, Segment
<1>5. PCTypeOK'
  BY <1>2 DEF Receive, PCTypeOK
<1>6. ServerTypeOK'
  BY <1>4 DEF Receive, ServerTypeOK
<1> QED
  BY <1>5, <1>6, TransferTypeStays DEF Receive

\* The steps of the server that touch no connection
LEMMA CommandType ==
  ASSUME TypeOK,
         \/ AcceptFails \/ ReceiveEnd \/ AnswerBreaks \/ DropSession \/ Act \/ Enable
         \/ CloseUdp \/ SetUdpAddress \/ OpenUdp \/ RaiseTransfer
  PROVE  TypeOK'
<1> USE DEF TypeOK
<1> DEFINE Rest == UNCHANGED <<udpVars, sending, enabler>>
           Kept == UNCHANGED <<waiting, sockets, recvBuf>>
<1>1. Acted \in [Conns -> Seq(0 .. MaxCommands)]
  BY DEF Acted, Command, ServerTypeOK
<1>2. UNCHANGED <<pcVars, orderly>>
  BY DEF AcceptFails, ReceiveEnd, AnswerBreaks, DropSession, Act, Enable, CloseUdp,
         SetUdpAddress, OpenUdp, RaiseTransfer
<1>3. ServerTypeOK'
  <2>1. acted' \in {acted, Acted} /\ Kept /\ current' \in {current, NoConn}
    BY DEF AcceptFails, ReceiveEnd, AnswerBreaks, DropSession, Act, Enable, CloseUdp,
           SetUdpAddress, OpenUdp, RaiseTransfer
  <2>2. pc' \in {"accept", "recv", "closeUdp", "address", "openUdp", "raise", "answer",
                 "ended"}
    BY DEF AcceptFails, ReceiveEnd, AnswerBreaks, DropSession, Act, Enable, CloseUdp,
           SetUdpAddress, OpenUdp, RaiseTransfer
  <2> QED
    BY <1>1, <2>1, <2>2 DEF ServerTypeOK
<1>4. TransferTypeOK'
  <2>1. CASE AcceptFails \/ ReceiveEnd \/ AnswerBreaks \/ DropSession
    <3>1. Rest
      BY <2>1 DEF AcceptFails, ReceiveEnd, AnswerBreaks, DropSession
    <3> QED
      BY <3>1, TransferTypeStays
  <2>2. CASE Act
    BY <2>2 DEF Act, TransferTypeOK
  <2>3. CASE Enable
    BY <2>3 DEF Enable, udpVars, TransferTypeOK, ServerTypeOK
  <2>4. CASE CloseUdp
    BY <2>4 DEF CloseUdp, TransferTypeOK
  <2>5. CASE SetUdpAddress
    BY <2>5 DEF SetUdpAddress, TransferTypeOK, ServerTypeOK
  <2>6. CASE OpenUdp
    BY <2>6 DEF OpenUdp, TransferTypeOK
  <2>7. CASE RaiseTransfer
    BY <2>7 DEF RaiseTransfer, TransferTypeOK
  <2> QED
    BY <2>1, <2>2, <2>3, <2>4, <2>5, <2>6, <2>7
<1> QED
  BY <1>2, <1>3, <1>4, PCTypeStays

\* The steps of the server that only tell how the connection has ended
LEMMA EndType ==
  ASSUME TypeOK, ReceiveFails \/ AnswerFails
  PROVE  TypeOK'
<1> USE DEF TypeOK
<1>1. /\ \/ UNCHANGED peer
         \/ current \in Conns /\ peer' = [peer EXCEPT ![current] = "over"]
      /\ UNCHANGED <<sent, heard, stream, answers, orderly>>
  BY DEF ReceiveFails, AnswerFails, ServerTypeOK
<1>2. PCTypeOK'
  <2>1. peer' \in [Conns -> {"away", "here", "closed", "answered", "refused", "reset", "over"}]
    <3>1. CASE UNCHANGED peer
      BY <3>1 DEF PCTypeOK
    <3>2. CASE current \in Conns /\ peer' = [peer EXCEPT ![current] = "over"]
      BY <3>2 DEF PCTypeOK
    <3> QED
      BY <1>1, <3>1, <3>2
  <2> QED
    BY <1>1, <2>1 DEF PCTypeOK
<1>3. Filler \in Command
  BY NetAssumption DEF Filler, Command, Kinds
<1>4. ServerTypeOK'
  <2>1. CASE ReceiveFails
    BY <1>3, <2>1 DEF ReceiveFails, ServerTypeOK
  <2>2. CASE AnswerFails
    BY <2>2 DEF AnswerFails, ServerTypeOK
  <2> QED
    BY <2>1, <2>2
<1>5. UNCHANGED <<udpVars, sending, enabler>>
  BY DEF ReceiveFails, AnswerFails
<1> QED
  BY <1>2, <1>4, <1>5, TransferTypeStays

LEMMA ServerType == TypeOK /\ Server => TypeOK'
<1> SUFFICES ASSUME TypeOK, Server PROVE TypeOK'
  OBVIOUS
<1>1. CASE Answer
  <2>1. current \in Conns /\ SendTo(current) /\ UNCHANGED <<sent, heard, stream, orderly>>
    BY <1>1 DEF Answer, TypeOK, ServerTypeOK
  <2>2. PCTypeOK'
    BY <2>1, SendToType DEF TypeOK
  <2>3. ServerTypeOK'
    BY <1>1 DEF Answer, TypeOK, ServerTypeOK
  <2> QED
    BY <1>1, <2>2, <2>3, TransferTypeStays DEF Answer, TypeOK
<1> QED
  BY <1>1, AcceptType, ReceiveType, CommandType, EndType DEF Server

LEMMA DrawType == TypeOK /\ (BeginFrame \/ SendBlock \/ SendBlockFails) => TypeOK'
<1> SUFFICES ASSUME TypeOK, BeginFrame \/ SendBlock \/ SendBlockFails PROVE TypeOK'
  OBVIOUS
<1> USE DEF TypeOK
<1>1. sending' \in 0 .. Blocks
  BY NetAssumption DEF TransferTypeOK, BeginFrame, SendBlock, SendBlockFails
<1>2. UNCHANGED <<pcVars, tcpVars, udpVars, acted, orderly, enabler>>
  BY DEF BeginFrame, SendBlock, SendBlockFails
<1>3. PCTypeOK'
  BY <1>2, PCTypeStays
<1>4. ServerTypeOK'
  BY <1>2 DEF tcpVars, ServerTypeOK
<1>5. TransferTypeOK'
  BY <1>1, <1>2 DEF udpVars, TransferTypeOK
<1> QED
  BY <1>3, <1>4, <1>5

LEMMA StepType == TypeOK /\ [Next]_vars => TypeOK'
<1> SUFFICES ASSUME TypeOK, [Next]_vars PROVE TypeOK'
  OBVIOUS
<1>1. CASE Next
  BY <1>1, PCType, ServerType, DrawType DEF Next
<1>2. CASE UNCHANGED vars
  BY <1>2, PCTypeStays, TransferTypeStays DEF TypeOK, ServerTypeOK, vars, tcpVars
<1> QED
  BY <1>1, <1>2

\* Every variable has its type: the counters of the commands and the sockets stay within
\* their bounds, and what is received is made of commands.
THEOREM TypeCorrect == Spec => []TypeOK
  BY InitType, StepType, PTL DEF Spec

-----------------------------------------------------------------------------
(* The transfer *)

LEMMA InitTransfer == Init => TransferInv
  BY DEF Init, TransferInv, Enabling

LEMMA StepTransfer == TypeOK /\ TransferInv /\ [Next]_vars => TransferInv'
<1> SUFFICES ASSUME TypeOK, TransferInv, [Next]_vars PROVE TransferInv'
  OBVIOUS
<1> USE NetAssumption DEF TransferInv, Enabling
<1>1. ASSUME NEW c \in Conns,
             \/ Connect(c) \/ ReadAnswers(c) \/ Leave(c) \/ Refuse(c)
             \/ \E kind \in Kinds : SendCommand(c, kind)
      PROVE  TransferInv'
  <2>1. UNCHANGED <<pc, current, recvBuf, udpAddr, transfer, sending, enabler>>
    BY <1>1 DEF Connect, ReadAnswers, Leave, Refuse, SendCommand, tcpVars, udpVars
  <2> QED
    BY <2>1
<1>2. CASE Accept
  BY <1>2 DEF Accept, udpVars
<1>3. CASE AcceptFails
  BY <1>3 DEF AcceptFails, udpVars
<1>4. CASE Receive
  BY <1>4 DEF Receive, udpVars
<1>5. CASE ReceiveEnd
  BY <1>5 DEF ReceiveEnd, udpVars
<1>6. CASE ReceiveFails
  BY <1>6 DEF ReceiveFails, udpVars, Filler
<1>7. CASE DropSession
  BY <1>7 DEF DropSession, udpVars
<1>8. CASE Act
  BY <1>8 DEF Act
<1>9. CASE Enable
  BY <1>9 DEF Enable, udpVars
<1>10. CASE CloseUdp
  BY <1>10 DEF CloseUdp
<1>11. CASE SetUdpAddress
  BY <1>11 DEF SetUdpAddress
<1>12. CASE OpenUdp
  BY <1>12 DEF OpenUdp
<1>13. CASE RaiseTransfer
  BY <1>13 DEF RaiseTransfer
<1>14. CASE Answer \/ AnswerFails \/ AnswerBreaks
  BY <1>14 DEF Answer, AnswerFails, AnswerBreaks, udpVars
<1>15. CASE BeginFrame \/ SendBlock \/ SendBlockFails
  <2>1. sending' > 0 => transfer \/ sending > 0
    BY <1>15 DEF BeginFrame, SendBlock, SendBlockFails
  <2>2. UNCHANGED <<pc, current, recvBuf, udpAddr, transfer, enabler>>
    BY <1>15 DEF BeginFrame, SendBlock, SendBlockFails, tcpVars, udpVars
  <2> QED
    BY <2>1, <2>2
<1>16. CASE UNCHANGED vars
  BY <1>16 DEF vars, tcpVars, udpVars
<1> QED
  BY <1>1, <1>2, <1>3, <1>4, <1>5, <1>6, <1>7, <1>8, <1>9, <1>10, <1>11, <1>12, <1>13,
     <1>14, <1>15, <1>16 DEF Next, Server

\* Whenever the draw thread sends a block, in whatever step of the server, it goes to the
\* PC that enabled the transfer last, or to the one before while that is under way.
THEOREM Blocks_ToEnabler == Spec => BlocksToEnabler
<1>1. TypeOK /\ TransferInv /\ [Next]_vars =>
        [SendBlock => /\ udpAddr # NoConn
                      /\ pc \notin {"closeUdp", "address"} => udpAddr = enabler]_vars
  BY DEF TransferInv, SendBlock
<1> QED
  BY <1>1, InitType, StepType, InitTransfer, StepTransfer, PTL DEF Spec, BlocksToEnabler
-----------------------------------------------------------------------------
(* The commands *)

\* A command of c is in the server's hands.
InHand(c) == pc = "act" /\ recvBuf.conn = c

\* A command of c was acted on and is not answered.
Answering(c) == current = c /\ pc \in Enabling \cup {"answer"}

Unaccepted(c) == peer[c] = "away" \/ \E i \in 1 .. Len(waiting) : waiting[i] = c

\* Something was sent to c after it had left.
Gone(c) == peer[c] \in {"answered", "refused", "over"}

\* The server acts on commands of the connection it has, and accepts each once.
SessionInv ==
  /\ pc = "act" => (current \in Conns /\ recvBuf.conn = current) \/ recvBuf = Filler
  /\ current \in Conns => peer[current] # "away"
  /\ \A i \in 1 .. Len(waiting) : peer[waiting[i]] # "away" /\ waiting[i] # current
  /\ \A i, j \in 1 .. Len(waiting) : waiting[i] = waiting[j] => i = j

\* Commands arrive in the order they were sent in, after those in hand and those that
\* were acted on.  A piece from the middle of a command does not count.
InOrder(c) ==
  /\ \A i \in 1 .. Len(stream[c]) : stream[c][i].part # "tail" =>
       /\ 1 <= stream[c][i].nr /\ stream[c][i].nr <= sent[c]
       /\ InHand(c) => recvBuf.nr < stream[c][i].nr
       /\ \A k \in 1 .. Len(acted[c]) : acted[c][k] < stream[c][i].nr
       /\ \A j \in 1 .. Len(stream[c]) :
            j > i /\ stream[c][j].part # "tail" => stream[c][i].nr < stream[c][j].nr
  /\ InHand(c) => /\ recvBuf.nr <= sent[c]
                  /\ \A k \in 1 .. Len(acted[c]) : recvBuf.nr # 0 => acted[c][k] < recvBuf.nr
  /\ \A k \in 1 .. Len(acted[c]) : acted[c][k] <= sent[c]
  /\ \A j, k \in 1 .. Len(acted[c]) : j < k /\ acted[c][k] # 0 => acted[c][j] < acted[c][k]

\* A PC gets the greeting and an answer to what was acted on, no more.
NoMoreAnswers(c) ==
  /\ Unaccepted(c) => heard[c] + answers[c] = 0
  /\ heard[c] + answers[c] <= Len(acted[c]) + 1
  /\ Answering(c) => heard[c] + answers[c] <= Len(acted[c])

Known == {"short", "on", "off"}

\* An orderly PC has one command on its way at most, the next to be acted on, and none
\* once something was sent to it in vain.
OneOnItsWay(c) ==
  orderly[c] =>
    /\ \A k \in 1 .. Len(acted[c]) : acted[c][k] = k
    /\ sent[c] <= heard[c]
    /\ Len(stream[c]) <= 1
    /\ stream[c] # <<>> => /\ Len(acted[c]) + 1 = sent[c] /\ ~InHand(c)
                           /\ stream[c][1].nr = sent[c] /\ stream[c][1].part = "whole"
                           /\ stream[c][1].kind \in Known
    /\ InHand(c) => /\ Len(acted[c]) + 1 = sent[c]
                    /\ recvBuf.nr = sent[c] /\ recvBuf.kind \in Known
    /\ peer[c] \in {"away", "here"} /\ stream[c] = <<>> /\ ~InHand(c) => Len(acted[c]) = sent[c]
    /\ Gone(c) => stream[c] = <<>> /\ ~InHand(c) /\ ~Answering(c)

ConnInv(c) == InOrder(c) /\ NoMoreAnswers(c) /\ OneOnItsWay(c)

CommandInv == SessionInv /\ \A c \in Conns : ConnInv(c)

LEMMA InitCommand == Init => CommandInv
<1> SUFFICES ASSUME Init PROVE CommandInv
  OBVIOUS
<1> USE NetAssumption DEF Init
<1>1. SessionInv
  BY DEF SessionInv
<1>2. ASSUME NEW c \in Conns PROVE ConnInv(c)
  <2>1. stream[c] = <<>> /\ acted[c] = <<>> /\ sent[c] = 0 /\ heard[c] = 0 /\ answers[c] = 0
        /\ peer[c] = "away"
    OBVIOUS
  <2>2. ~InHand(c) /\ ~Answering(c) /\ ~Gone(c)
    BY <2>1 DEF InHand, Answering, Gone, Enabling
  <2> QED
    BY <2>1, <2>2 DEF ConnInv, InOrder, NoMoreAnswers, OneOnItsWay
<1> QED
  BY <1>1, <1>2 DEF CommandInv

\* What a member of Seq is, in the words the proofs use.
LEMMA Elements ==
  ASSUME NEW S, NEW s \in Seq(S)
  PROVE  /\ Len(s) \in Nat /\ DOMAIN s = 1 .. Len(s)
         /\ \A i \in 1 .. Len(s) : s[i] \in S
OBVIOUS

LEMMA ConnTypes ==
  ASSUME TypeOK, NEW c \in Conns
  PROVE  /\ sent[c] \in Nat /\ heard[c] \in Nat /\ answers[c] \in Nat
         /\ stream[c] \in Seq(Segment) /\ Len(stream[c]) \in Nat
         /\ \A i \in 1 .. Len(stream[c]) : stream[c][i].nr \in Nat
         /\ acted[c] \in Seq(0 .. MaxCommands) /\ Len(acted[c]) \in Nat
         /\ DOMAIN acted[c] = 1 .. Len(acted[c])
         /\ \A k \in 1 .. Len(acted[c]) : acted[c][k] \in Nat
         /\ recvBuf.nr \in 0 .. MaxCommands /\ recvBuf.nr \in Nat
<1>1. /\ sent[c] \in Nat /\ heard[c] \in Nat /\ answers[c] \in Nat
      /\ stream[c] \in Seq(Segment)
  BY NetAssumption DEF TypeOK, PCTypeOK
<1>2. acted[c] \in Seq(0 .. MaxCommands) /\ recvBuf \in Command
  BY DEF TypeOK, ServerTypeOK
<1>3. Len(stream[c]) \in Nat /\ \A i \in 1 .. Len(stream[c]) : stream[c][i] \in Segment
  BY <1>1, Elements
<1>4. /\ Len(acted[c]) \in Nat /\ DOMAIN acted[c] = 1 .. Len(acted[c])
      /\ \A k \in 1 .. Len(acted[c]) : acted[c][k] \in 0 .. MaxCommands
  BY <1>2, Elements
<1>5. \A g \in Segment : g.nr \in Nat
  BY NetAssumption DEF Segment
<1>6. \A g \in 0 .. MaxCommands : g \in Nat
  BY NetAssumption
<1>7. recvBuf.nr \in 0 .. MaxCommands
  BY <1>2 DEF Command
<1> QED
  BY <1>1, <1>2, <1>3, <1>4, <1>5, <1>6, <1>7

\* A step that does nothing to a connection but what the invariant does not tell apart
LEMMA Undisturbed ==
  ASSUME TypeOK, NEW c \in Conns, ConnInv(c),
         sent'[c] = sent[c], stream'[c] = stream[c], acted'[c] = acted[c],
         orderly'[c] = orderly[c],
         heard'[c] \in Nat, heard'[c] >= heard[c], heard'[c] + answers'[c] = heard[c] + answers[c],
         InHand(c)' <=> InHand(c), InHand(c) => recvBuf' = recvBuf,
         Answering(c)' => Answering(c), Unaccepted(c)' => Unaccepted(c), Gone(c)' => Gone(c),
         peer'[c] \in {"away", "here"} => peer[c] \in {"away", "here"}
  PROVE  ConnInv(c)'
<1>1. heard[c] \in Nat /\ answers[c] \in Nat /\ sent[c] \in Nat
  BY ConnTypes
<1>2. InOrder(c)'
  BY DEF ConnInv, InOrder
<1>3. NoMoreAnswers(c)'
  BY <1>1 DEF ConnInv, NoMoreAnswers
<1>4. OneOnItsWay(c)'
  <2> SUFFICES ASSUME orderly[c] PROVE OneOnItsWay(c)'
    BY DEF OneOnItsWay
  <2>1. sent'[c] <= heard'[c]
    <3>1. sent[c] <= heard[c]
      BY DEF ConnInv, OneOnItsWay
    <3> QED
      BY <1>1, <3>1
  <2> QED
    BY <2>1 DEF ConnInv, OneOnItsWay
<1> QED
  BY <1>2, <1>3, <1>4 DEF ConnInv

LEMMA SessionKept ==
  ASSUME TypeOK, SessionInv, waiting' = waiting, current' = current,
         \A c \in Conns : peer[c] # "away" => peer'[c] # "away",
         pc' = "act" => (current \in Conns /\ recvBuf'.conn = current) \/ recvBuf' = Filler
  PROVE  SessionInv'
<1>1. \A i \in 1 .. Len(waiting) : waiting[i] \in Conns
  BY DEF TypeOK, ServerTypeOK
<1> QED
  BY <1>1 DEF SessionInv

LEMMA StepSession == TypeOK /\ SessionInv /\ [Next]_vars => SessionInv'
<1> SUFFICES ASSUME TypeOK, SessionInv, [Next]_vars PROVE SessionInv'
  OBVIOUS
<1>1. /\ waiting \in Seq(Conns) /\ \A i \in 1 .. Len(waiting) : waiting[i] \in Conns
      /\ current \in Conns \cup {NoConn} /\ NoConn \notin Conns
      /\ peer \in [Conns -> {"away", "here", "closed", "answered", "refused", "reset", "over"}]
  <2>1. waiting \in Seq(Conns)
    BY DEF TypeOK, ServerTypeOK
  <2>2. current \in Conns \cup {NoConn} /\ NoConn \notin Conns
    BY NetAssumption DEF TypeOK, ServerTypeOK
  <2>3. peer \in [Conns -> {"away", "here", "closed", "answered", "refused", "reset", "over"}]
    BY DEF TypeOK, PCTypeOK
  <2> QED
    BY <2>1, <2>2, <2>3
<1>2. ASSUME NEW c \in Conns, Connect(c) PROVE SessionInv'
  <2>1. /\ waiting' = Append(waiting, c) /\ current' = current /\ pc' = pc
        /\ recvBuf' = recvBuf /\ peer[c] = "away"
        /\ \A d \in Conns : peer'[d] = IF d = c THEN "here" ELSE peer[d]
    BY <1>1, <1>2 DEF Connect
  <2>2. \A i \in 1 .. Len(waiting) : waiting[i] # c
    BY <2>1 DEF SessionInv
  <2>3. current # c
    BY <2>1 DEF SessionInv
  <2>4. /\ Len(waiting') = Len(waiting) + 1 /\ Len(waiting) \in Nat
        /\ \A i \in 1 .. Len(waiting') :
             waiting'[i] = IF i = Len(waiting) + 1 THEN c ELSE waiting[i]
    BY <1>1, <2>1
  <2>5. \A i \in 1 .. Len(waiting') : i = Len(waiting) + 1 \/ i \in 1 .. Len(waiting)
    BY <2>4
  <2>6. \A i \in 1 .. Len(waiting') : peer'[waiting'[i]] # "away" /\ waiting'[i] # current'
    BY <1>1, <2>1, <2>2, <2>3, <2>4, <2>5 DEF SessionInv
  <2>7. \A i, j \in 1 .. Len(waiting') : waiting'[i] = waiting'[j] => i = j
    BY <2>2, <2>4, <2>5 DEF SessionInv
  <2> QED
    BY <1>1, <2>1, <2>6, <2>7 DEF SessionInv
<1>3. CASE \E c \in Conns : \/ ReadAnswers(c) \/ Leave(c) \/ Refuse(c)
                            \/ \E kind \in Kinds : SendCommand(c, kind)
  <2>1. PICK c \in Conns : \/ ReadAnswers(c) \/ Leave(c) \/ Refuse(c)
                           \/ \E kind \in Kinds : SendCommand(c, kind)
    BY <1>3
  <2>2. waiting' = waiting /\ current' = current /\ pc' = pc /\ recvBuf' = recvBuf
    BY <2>1 DEF ReadAnswers, Leave, Refuse, SendCommand, tcpVars
  <2>3. \A d \in Conns : peer[d] # "away" => peer'[d] # "away"
    BY <1>1, <2>1 DEF ReadAnswers, Leave, Refuse, SendCommand
  <2> QED
    BY <2>2, <2>3, SessionKept DEF SessionInv
<1>4. CASE Accept
  <2>1. /\ waiting # <<>> /\ current' = Head(waiting) /\ waiting' = Tail(waiting) /\ pc' = "recv"
        /\ \A d \in Conns : peer[d] # "away" => peer'[d] # "away"
    BY <1>1, <1>4 DEF Accept, SendTo
  <2>2. /\ Len(waiting) \in Nat /\ Len(waiting) > 0 /\ current' = waiting[1]
        /\ Len(waiting') = Len(waiting) - 1
        /\ \A i \in 1 .. Len(waiting') : waiting'[i] = waiting[i + 1]
    BY <1>1, <2>1
  <2>3. \A i \in 1 .. Len(waiting') : i + 1 \in 1 .. Len(waiting) /\ i + 1 # 1
    BY <2>2
  <2>4. 1 \in 1 .. Len(waiting)
    BY <2>2
  <2>5. \A i \in 1 .. Len(waiting') : peer'[waiting'[i]] # "away" /\ waiting'[i] # current'
    BY <1>1, <2>1, <2>2, <2>3, <2>4 DEF SessionInv
  <2>6. \A i, j \in 1 .. Len(waiting') : waiting'[i] = waiting'[j] => i = j
    BY <2>2, <2>3 DEF SessionInv
  <2>7. peer'[current'] # "away"
    BY <1>1, <2>1, <2>2, <2>4 DEF SessionInv
  <2> QED
    BY <2>1, <2>5, <2>6, <2>7 DEF SessionInv
<1>5. CASE AcceptFails
  BY <1>1, <1>5 DEF AcceptFails, SessionInv, pcVars
<1>6. CASE Receive
  <2>1. waiting' = waiting /\ current' = current /\ peer' = peer
    BY <1>6 DEF Receive
  <2>2. current \in Conns /\ recvBuf'.conn = current
    BY <1>1, <1>6 DEF Receive
  <2> QED
    BY <2>1, <2>2, SessionKept
<1>7. CASE ReceiveFails
  BY <1>1, <1>7, SessionKept DEF ReceiveFails
<1>8. CASE \/ ReceiveEnd \/ DropSession \/ Act \/ Enable \/ CloseUdp \/ SetUdpAddress
           \/ OpenUdp \/ RaiseTransfer \/ AnswerBreaks
  <2>1. waiting' = waiting /\ current' = current /\ peer' = peer /\ pc' # "act"
    BY <1>8 DEF ReceiveEnd, DropSession, Act, Enable, CloseUdp, SetUdpAddress, OpenUdp,
                RaiseTransfer, AnswerBreaks, pcVars
  <2> QED
    BY <2>1, SessionKept
<1>9. CASE Answer \/ AnswerFails
  <2>1. waiting' = waiting /\ current' = current /\ pc' # "act"
    BY <1>9 DEF Answer, AnswerFails
  <2>2. \A d \in Conns : peer[d] # "away" => peer'[d] # "away"
    BY <1>1, <1>9 DEF Answer, AnswerFails, SendTo
  <2> QED
    BY <2>1, <2>2, SessionKept
<1>10. CASE BeginFrame \/ SendBlock \/ SendBlockFails \/ UNCHANGED vars
  <2>1. UNCHANGED <<waiting, current, peer, pc, recvBuf>>
    BY <1>10 DEF BeginFrame, SendBlock, SendBlockFails, vars, pcVars, tcpVars
  <2> QED
    BY <2>1, SessionKept DEF SessionInv
<1> QED
  BY <1>2, <1>3, <1>4, <1>5, <1>6, <1>7, <1>8, <1>9, <1>10 DEF Next, Server

-----------------------------------------------------------------------------
(* The steps that do something to a connection *)

LEMMA PiecesAre ==
  ASSUME NEW nr, NEW kind
  PROVE  LET p == Pieces(nr, kind)
         IN /\ Len(p) \in 1 .. 2
            /\ p[1].nr = nr /\ p[1].kind = kind /\ p[1].part # "tail"
            /\ Len(p) = 2 => p[2].part = "tail"
            /\ kind # "long" => Len(p) = 1 /\ p[1].part = "whole"
  BY DEF Pieces

LEMMA SendCommandStep ==
  ASSUME TypeOK, NEW c \in Conns, NEW kind \in Kinds, SendCommand(c, kind), ConnInv(c)
  PROVE  ConnInv(c)'
<1> DEFINE s == stream[c]
           p == Pieces(sent[c] + 1, kind)
<1>1. /\ s \in Seq(Segment) /\ sent[c] \in Nat /\ heard[c] \in Nat /\ answers[c] \in Nat
      /\ acted[c] \in Seq(0 .. MaxCommands)
      /\ \A i \in 1 .. Len(s) : s[i].nr \in Nat
      /\ recvBuf.nr \in Nat /\ \A k \in 1 .. Len(acted[c]) : acted[c][k] \in Nat
  BY ConnTypes
<1>2. /\ sent'[c] = sent[c] + 1 /\ stream'[c] = s \o p
      /\ acted' = acted /\ heard' = heard /\ answers' = answers /\ peer' = peer
      /\ pc' = pc /\ current' = current /\ recvBuf' = recvBuf /\ waiting' = waiting
      /\ peer[c] = "here"
      /\ orderly'[c] => orderly[c] /\ kind \in Known /\ heard[c] = sent[c] + 1
  BY DEF SendCommand, TypeOK, PCTypeOK, tcpVars, Known
<1>3. /\ Len(p) \in 1 .. 2
      /\ p[1].nr = sent[c] + 1 /\ p[1].kind = kind /\ p[1].part # "tail"
      /\ Len(p) = 2 => p[2].part = "tail"
      /\ kind # "long" => Len(p) = 1 /\ p[1].part = "whole"
  BY PiecesAre
<1>4. p \in Seq(Segment)
  <2>1. sent[c] + 1 \in 0 .. MaxCommands
    BY <1>1, NetAssumption DEF SendCommand
  <2> QED
    BY <2>1, PiecesType
<1> HIDE DEF s, p
<1>5. /\ Len(stream'[c]) = Len(s) + Len(p) /\ Len(s) \in Nat
      /\ \A i \in 1 .. Len(s) : stream'[c][i] = s[i]
      /\ \A i \in 1 .. Len(p) : stream'[c][Len(s) + i] = p[i]
  BY <1>1, <1>2, <1>4, ConcatProperties
<1>6. \A i \in 1 .. Len(stream'[c]) :
        stream'[c][i].part # "tail" =>
          \/ i \in 1 .. Len(s) /\ stream'[c][i] = s[i]
          \/ i = Len(s) + 1 /\ stream'[c][i].nr = sent[c] + 1
  <2> SUFFICES ASSUME NEW i \in 1 .. Len(stream'[c]), stream'[c][i].part # "tail",
                      i \notin 1 .. Len(s)
               PROVE  i = Len(s) + 1 /\ stream'[c][i].nr = sent[c] + 1
    BY <1>5
  <2>1. i = Len(s) + 1 \/ (i = Len(s) + 2 /\ Len(p) = 2)
    BY <1>3, <1>5
  <2>2. CASE i = Len(s) + 1
    BY <1>3, <1>5, <2>2
  <2>3. CASE i = Len(s) + 2 /\ Len(p) = 2
    BY <1>3, <1>5, <2>3
  <2> QED
    BY <2>1, <2>2, <2>3
<1>7. /\ InHand(c)' <=> InHand(c)
      /\ Answering(c)' <=> Answering(c)
      /\ Unaccepted(c)' <=> Unaccepted(c)
  BY <1>2 DEF InHand, Answering, Unaccepted
<1>8. InOrder(c)'
  <2>1. InOrder(c)
    BY DEF ConnInv
  <2>2. \A i \in 1 .. Len(s) : s[i].part # "tail" =>
          /\ 1 <= s[i].nr /\ s[i].nr <= sent[c]
          /\ InHand(c) => recvBuf.nr < s[i].nr
          /\ \A k \in 1 .. Len(acted[c]) : acted[c][k] < s[i].nr
          /\ \A j \in 1 .. Len(s) : j > i /\ s[j].part # "tail" => s[i].nr < s[j].nr
    BY <2>1 DEF InOrder, s
  <2>3. /\ InHand(c) => recvBuf.nr < sent[c] + 1
        /\ \A k \in 1 .. Len(acted[c]) : acted[c][k] < sent[c] + 1
    BY <1>1, <2>1 DEF InOrder
  <2>4. ASSUME NEW i \in 1 .. Len(stream'[c]), stream'[c][i].part # "tail"
        PROVE  /\ 1 <= stream'[c][i].nr /\ stream'[c][i].nr <= sent'[c]
               /\ InHand(c) => recvBuf.nr < stream'[c][i].nr
               /\ \A k \in 1 .. Len(acted[c]) : acted[c][k] < stream'[c][i].nr
               /\ \A j \in 1 .. Len(stream'[c]) :
                    j > i /\ stream'[c][j].part # "tail" => stream'[c][i].nr < stream'[c][j].nr
    <3>1. CASE i \in 1 .. Len(s) /\ stream'[c][i] = s[i]
      <4>1. /\ 1 <= s[i].nr /\ s[i].nr <= sent[c]
            /\ InHand(c) => recvBuf.nr < s[i].nr
            /\ \A k \in 1 .. Len(acted[c]) : acted[c][k] < s[i].nr
        BY <2>2, <2>4, <3>1
      <4>2. ASSUME NEW j \in 1 .. Len(stream'[c]), j > i, stream'[c][j].part # "tail"
            PROVE  stream'[c][i].nr < stream'[c][j].nr
        <5>1. CASE j \in 1 .. Len(s) /\ stream'[c][j] = s[j]
          BY <2>2, <2>4, <3>1, <4>2, <5>1
        <5>2. CASE j = Len(s) + 1 /\ stream'[c][j].nr = sent[c] + 1
          BY <1>1, <3>1, <4>1, <5>2
        <5> QED
          BY <1>6, <4>2, <5>1, <5>2
      <4> QED
        BY <1>1, <1>2, <3>1, <4>1, <4>2
    <3>2. CASE i = Len(s) + 1 /\ stream'[c][i].nr = sent[c] + 1
      <4>1. \A j \in 1 .. Len(stream'[c]) : j > i => stream'[c][j].part = "tail"
        BY <1>5, <1>6, <3>2
      <4> QED
        BY <1>1, <1>2, <2>3, <3>2, <4>1
    <3> QED
      BY <1>6, <2>4, <3>1, <3>2
  <2>5. /\ InHand(c) => recvBuf.nr <= sent'[c]
        /\ \A k \in 1 .. Len(acted[c]) : acted[c][k] <= sent'[c]
    BY <1>1, <1>2, <2>3
  <2>6. InOrder(c)' <=>
          /\ \A i \in 1 .. Len(stream'[c]) : stream'[c][i].part # "tail" =>
               /\ 1 <= stream'[c][i].nr /\ stream'[c][i].nr <= sent'[c]
               /\ InHand(c) => recvBuf.nr < stream'[c][i].nr
               /\ \A k \in 1 .. Len(acted[c]) : acted[c][k] < stream'[c][i].nr
               /\ \A j \in 1 .. Len(stream'[c]) :
                    j > i /\ stream'[c][j].part # "tail" => stream'[c][i].nr < stream'[c][j].nr
          /\ InHand(c) =>
               /\ recvBuf.nr <= sent'[c]
               /\ \A k \in 1 .. Len(acted[c]) : recvBuf.nr # 0 => acted[c][k] < recvBuf.nr
          /\ \A k \in 1 .. Len(acted[c]) : acted[c][k] <= sent'[c]
          /\ \A j, k \in 1 .. Len(acted[c]) : j < k /\ acted[c][k] # 0 => acted[c][j] < acted[c][k]
    BY <1>2, <1>7 DEF InOrder
  <2> QED
    BY <2>1, <2>4, <2>5, <2>6 DEF InOrder
<1>9. NoMoreAnswers(c)'
  BY <1>2, <1>7 DEF ConnInv, NoMoreAnswers
<1>10. heard[c] = sent[c] + 1 => Len(acted[c]) + 1 # sent[c]
  <2>1. heard[c] + answers[c] <= Len(acted[c]) + 1
    BY DEF ConnInv, NoMoreAnswers
  <2>2. /\ Len(acted[c]) \in Nat /\ sent[c] \in Nat
        /\ heard[c] \in Nat /\ answers[c] \in Nat
    BY ConnTypes
  <2> QED
    BY <2>1, <2>2
<1>11. OneOnItsWay(c)'
  <2> SUFFICES ASSUME orderly'[c] PROVE OneOnItsWay(c)'
    BY DEF OneOnItsWay
  <2>1. orderly[c] /\ peer[c] = "here" /\ Len(acted[c]) + 1 # sent[c]
    BY <1>2, <1>10
  <2>2. /\ s = <<>> /\ ~InHand(c) /\ Len(acted[c]) = sent[c]
        /\ \A k \in 1 .. Len(acted[c]) : acted[c][k] = k
    <3>1. /\ \A k \in 1 .. Len(acted[c]) : acted[c][k] = k
          /\ stream[c] # <<>> => Len(acted[c]) + 1 = sent[c]
          /\ InHand(c) => Len(acted[c]) + 1 = sent[c]
          /\ peer[c] \in {"away", "here"} /\ stream[c] = <<>> /\ ~InHand(c)
                => Len(acted[c]) = sent[c]
      BY <2>1, Zenon DEF ConnInv, OneOnItsWay
    <3> QED
      BY <2>1, <3>1, Zenon DEF s
  <2>3. /\ Len(stream'[c]) = 1 /\ stream'[c] # <<>> /\ stream'[c][1].nr = sent[c] + 1
        /\ stream'[c][1].part = "whole" /\ stream'[c][1].kind \in Known
    <3>1. kind \in Known /\ Len(p) = 1 /\ p[1].part = "whole" /\ p[1].kind \in Known
      BY <1>2, <1>3 DEF Known
    <3>2. Len(s) = 0
      BY <2>2
    <3>3. Len(stream'[c]) = 1 /\ stream'[c][1] = p[1]
      BY <1>5, <3>1, <3>2
    <3> QED
      BY <1>3, <3>1, <3>3
  <2>4. ~Gone(c)'
    BY <1>2 DEF Gone
  <2> QED
    <3>1. ~InHand(c)' /\ Len(acted'[c]) + 1 = sent'[c]
      BY <1>1, <1>2, <1>7, <2>2
    <3>2. sent'[c] <= heard'[c]
      BY <1>1, <1>2
    <3>3. \A k \in 1 .. Len(acted'[c]) : acted'[c][k] = k
      BY <1>2, <2>2
    <3> QED
      BY <1>2, <2>3, <2>4, <3>1, <3>2, <3>3 DEF OneOnItsWay
<1> QED
  BY <1>8, <1>9, <1>11 DEF ConnInv

\* A reset costs the last of what was sent.
LEMMA ResetStep ==
  ASSUME TypeOK, NEW c \in Conns, Leave(c), answers[c] > 0, ConnInv(c)
  PROVE  ConnInv(c)'
<1>1. PICK n \in 0 .. Len(stream[c]) : stream' = [stream EXCEPT ![c] = SubSeq(@, 1, n)]
  BY DEF Leave, TypeOK, PCTypeOK
<1>2. stream[c] \in Seq(Segment) /\ stream'[c] = SubSeq(stream[c], 1, n)
  BY <1>1 DEF TypeOK, PCTypeOK
<1>3. /\ Len(stream'[c]) = n /\ Len(stream[c]) \in Nat
      /\ \A i \in 1 .. n : i \in 1 .. Len(stream[c]) /\ stream'[c][i] = stream[c][i]
      /\ stream'[c] # <<>> => n > 0
  BY <1>2, SubSeqProperties
<1>4. /\ sent' = sent /\ acted' = acted /\ orderly' = orderly /\ heard' = heard
      /\ answers' = answers /\ pc' = pc /\ recvBuf' = recvBuf /\ current' = current
      /\ waiting' = waiting /\ peer'[c] = "reset"
  BY DEF Leave, tcpVars, TypeOK, PCTypeOK
<1>5. /\ InHand(c)' <=> InHand(c)
      /\ Answering(c)' <=> Answering(c)
      /\ Unaccepted(c)' => Unaccepted(c)
      /\ ~Gone(c)'
  BY <1>4 DEF InHand, Answering, Unaccepted, Gone
<1>6. InOrder(c)'
  BY <1>3, <1>4, <1>5 DEF ConnInv, InOrder
<1>7. NoMoreAnswers(c)'
  BY <1>4, <1>5 DEF ConnInv, NoMoreAnswers
<1>8. OneOnItsWay(c)'
  <2> SUFFICES ASSUME orderly[c] PROVE OneOnItsWay(c)'
    BY <1>4 DEF OneOnItsWay
  <2>1. Len(stream'[c]) <= 1
    BY <1>3 DEF ConnInv, OneOnItsWay
  <2>2. stream'[c] # <<>> => stream[c] # <<>> /\ stream'[c][1] = stream[c][1]
    BY <1>2, <1>3
  <2> QED
    BY <1>4, <1>5, <2>1, <2>2 DEF ConnInv, OneOnItsWay
<1> QED
  BY <1>6, <1>7, <1>8 DEF ConnInv

\* The greeting
LEMMA AcceptStep ==
  ASSUME TypeOK, Accept, SessionInv', NEW c \in Conns, c = Head(waiting), ConnInv(c)
  PROVE  ConnInv(c)'
<1>1. /\ Len(waiting) \in Nat /\ Len(waiting) > 0 /\ waiting[1] = c
      /\ heard[c] \in Nat /\ answers[c] \in Nat /\ sent[c] \in Nat /\ Len(acted[c]) \in Nat
      /\ stream[c] \in Seq(Segment)
  <2>1. waiting \in Seq(Conns) /\ waiting # <<>>
    BY DEF Accept, TypeOK, ServerTypeOK
  <2> QED
    BY <2>1, ConnTypes
<1>2. heard[c] = 0 /\ answers[c] = 0
  <2>1. Unaccepted(c)
    BY <1>1 DEF Unaccepted
  <2> QED
    BY <1>1, <2>1 DEF ConnInv, NoMoreAnswers
<1>3. /\ sent' = sent /\ heard' = heard /\ stream' = stream /\ recvBuf' = recvBuf
      /\ acted' = acted /\ orderly' = orderly
      /\ answers'[c] \in {0, 1} /\ current' = c /\ pc' = "recv" /\ pc = "accept"
      /\ peer'[c] \in {"away", "here"} => peer[c] \in {"away", "here"}
  BY <1>2 DEF Accept, SendTo, TypeOK, PCTypeOK
<1>4. ~InHand(c) /\ ~InHand(c)' /\ ~Answering(c)'
  BY <1>3 DEF InHand, Answering, Enabling
<1>5. ~Unaccepted(c)'
  BY <1>3 DEF SessionInv, Unaccepted
<1>6. InOrder(c)'
  BY <1>3, <1>4 DEF ConnInv, InOrder
<1>7. NoMoreAnswers(c)'
  BY <1>1, <1>2, <1>3, <1>4, <1>5 DEF NoMoreAnswers
<1>8. OneOnItsWay(c)'
  <2> SUFFICES ASSUME orderly[c] PROVE OneOnItsWay(c)'
    BY <1>3 DEF OneOnItsWay
  <2>1. sent[c] = 0
    BY <1>1, <1>2 DEF ConnInv, OneOnItsWay
  <2>2. stream[c] = <<>>
    BY <1>1, <2>1 DEF ConnInv, OneOnItsWay
  <2> QED
    BY <1>3, <1>4, <2>2 DEF ConnInv, OneOnItsWay
<1> QED
  BY <1>6, <1>7, <1>8 DEF ConnInv

LEMMA OneOfOne ==
  ASSUME NEW m \in Nat, NEW n \in 1 .. m, m <= 1
  PROVE  m = 1 /\ n = 1
OBVIOUS

LEMMA TakeOne ==
  ASSUME NEW S, NEW q \in Seq(S), NEW n \in 1 .. Len(q), Len(q) <= 1
  PROVE  SubSeq(q, n + 1, Len(q)) = <<>>
<1>1. Len(q) = 1 /\ n = 1
  <2>1. Len(q) \in Nat
    BY Elements
  <2> QED
    BY <2>1, OneOfOne, Zenon
<1>2. n + 1 \in 1 .. Len(q) + 1
  BY <1>1
<1>3. Len(SubSeq(q, n + 1, Len(q))) = 0 /\ SubSeq(q, n + 1, Len(q)) \in Seq(S)
  BY <1>1, CutType, SubSeqProperties
<1> QED
  BY <1>3, EmptySeq

LEMMA ReceiveStep ==
  ASSUME TypeOK, Receive, NEW c \in Conns, c = current, ConnInv(c)
  PROVE  ConnInv(c)'
<1> DEFINE s == stream[c]
<1>1. PICK n \in 1 .. Len(s) : stream' = [stream EXCEPT ![current] = SubSeq(@, n + 1, Len(@))]
  BY DEF Receive
<1>2. s \in Seq(Segment) /\ s # <<>> /\ stream'[c] = SubSeq(s, n + 1, Len(s))
  BY <1>1 DEF Receive, TypeOK, PCTypeOK
<1>3. /\ Len(s) \in Nat /\ Len(s) >= 1 /\ Len(stream'[c]) = Len(s) - n
      /\ \A i \in 1 .. Len(stream'[c]) :
           /\ i + n \in 1 .. Len(s) /\ i + n > 1 /\ stream'[c][i] = s[i + n]
  <2>1. Len(s) \in Nat /\ Len(s) >= 1
    BY <1>2
  <2>2. Len(stream'[c]) = Len(s) - n
    BY <1>2, <2>1, SubSeqProperties
  <2>3. \A i \in 1 .. Len(stream'[c]) : stream'[c][i] = s[i + n]
    BY <1>2, <2>1, <2>2, SubSeqProperties
  <2> QED
    BY <2>1, <2>2, <2>3
<1>4. /\ sent' = sent /\ heard' = heard /\ answers' = answers /\ acted' = acted
      /\ orderly' = orderly /\ peer' = peer /\ waiting' = waiting /\ current' = current
      /\ pc = "recv" /\ pc' = "act" /\ recvBuf'.conn = c
      /\ \/ s[1].part = "tail" /\ recvBuf'.nr = 0
         \/ s[1].part # "tail" /\ recvBuf'.nr = s[1].nr /\ recvBuf'.kind = s[1].kind
  BY <1>2 DEF Receive
<1>5. /\ ~InHand(c) /\ InHand(c)' /\ ~Answering(c)'
      /\ Unaccepted(c)' <=> Unaccepted(c)
      /\ Gone(c)' <=> Gone(c)
  BY <1>4 DEF InHand, Answering, Enabling, Unaccepted, Gone
<1>6. /\ sent[c] \in Nat /\ \A i \in 1 .. Len(s) : s[i].nr \in Nat
      /\ \A k \in 1 .. Len(acted[c]) : acted[c][k] \in Nat
  BY ConnTypes
<1> HIDE DEF s
<1>7. InOrder(c)'
  <2>1. /\ \A i \in 1 .. Len(s) : s[i].part # "tail" =>
             /\ 1 <= s[i].nr /\ s[i].nr <= sent[c]
             /\ \A k \in 1 .. Len(acted[c]) : acted[c][k] < s[i].nr
             /\ \A j \in 1 .. Len(s) : j > i /\ s[j].part # "tail" => s[i].nr < s[j].nr
        /\ \A k \in 1 .. Len(acted[c]) : acted[c][k] <= sent[c]
        /\ \A j, k \in 1 .. Len(acted[c]) : j < k /\ acted[c][k] # 0 => acted[c][j] < acted[c][k]
    BY DEF ConnInv, InOrder, s
  <2>2. 1 \in 1 .. Len(s)
    BY <1>3
  <2>3. \A i \in 1 .. Len(s) : i > 1 /\ s[i].part # "tail" => recvBuf'.nr < s[i].nr
    <3>1. CASE s[1].part = "tail" /\ recvBuf'.nr = 0
      BY <1>6, <2>1, <3>1
    <3>2. CASE s[1].part # "tail" /\ recvBuf'.nr = s[1].nr
      BY <2>1, <2>2, <3>2
    <3> QED
      BY <1>4, <3>1, <3>2
  <2>4. /\ recvBuf'.nr <= sent[c]
        /\ \A k \in 1 .. Len(acted[c]) : recvBuf'.nr # 0 => acted[c][k] < recvBuf'.nr
    <3>1. CASE s[1].part = "tail" /\ recvBuf'.nr = 0
      BY <1>6, <3>1
    <3>2. CASE s[1].part # "tail" /\ recvBuf'.nr = s[1].nr
      BY <2>1, <2>2, <3>2
    <3> QED
      BY <1>4, <3>1, <3>2
  <2>5. ASSUME NEW i \in 1 .. Len(stream'[c]), stream'[c][i].part # "tail"
        PROVE  /\ 1 <= stream'[c][i].nr /\ stream'[c][i].nr <= sent[c]
               /\ recvBuf'.nr < stream'[c][i].nr
               /\ \A k \in 1 .. Len(acted[c]) : acted[c][k] < stream'[c][i].nr
               /\ \A j \in 1 .. Len(stream'[c]) :
                    j > i /\ stream'[c][j].part # "tail" => stream'[c][i].nr < stream'[c][j].nr
    <3>1. i + n \in 1 .. Len(s) /\ i + n > 1 /\ stream'[c][i] = s[i + n]
      BY <1>3
    <3>2. /\ 1 <= stream'[c][i].nr /\ stream'[c][i].nr <= sent[c]
          /\ recvBuf'.nr < stream'[c][i].nr
          /\ \A k \in 1 .. Len(acted[c]) : acted[c][k] < stream'[c][i].nr
      BY <2>1, <2>3, <2>5, <3>1
    <3>3. ASSUME NEW j \in 1 .. Len(stream'[c]), j > i, stream'[c][j].part # "tail"
          PROVE  stream'[c][i].nr < stream'[c][j].nr
      <4>1. j + n \in 1 .. Len(s) /\ j + n > i + n /\ stream'[c][j] = s[j + n]
        BY <1>3, <3>3
      <4> QED
        BY <2>1, <2>5, <3>1, <3>3, <4>1
    <3> QED
      BY <3>2, <3>3
  <2> QED
    BY <1>4, <1>5, <2>1, <2>4, <2>5 DEF InOrder
<1>8. NoMoreAnswers(c)'
  BY <1>4, <1>5 DEF ConnInv, NoMoreAnswers
<1>9. Len(stream[c]) <= 1 => stream'[c] = <<>>
  <2>1. stream[c] \in Seq(Segment) /\ n \in 1 .. Len(stream[c])
    BY <1>2 DEF s
  <2>2. stream'[c] = SubSeq(stream[c], n + 1, Len(stream[c]))
    BY <1>2 DEF s
  <2> QED
    BY <2>1, <2>2, TakeOne, Zenon
<1>10. OneOnItsWay(c)'
  <2> SUFFICES ASSUME orderly[c] PROVE OneOnItsWay(c)'
    BY <1>4 DEF OneOnItsWay
  <2>1. Len(stream[c]) <= 1
    BY DEF ConnInv, OneOnItsWay
  <2>2. stream'[c] = <<>>
    BY <1>9, <2>1
  <2>3. /\ Len(acted[c]) + 1 = sent[c] /\ recvBuf'.nr = sent[c] /\ recvBuf'.kind \in Known
        /\ ~Gone(c)
    BY <1>2, <1>4 DEF ConnInv, OneOnItsWay, s
  <2> QED
    BY <1>4, <1>5, <2>2, <2>3 DEF ConnInv, OneOnItsWay
<1> QED
  BY <1>7, <1>8, <1>10 DEF ConnInv

\* A command is acted on, whichever it is.
LEMMA ActStep ==
  ASSUME TypeOK, SessionInv, Act \/ Enable, NEW c \in Conns, c = recvBuf.conn, ConnInv(c)
  PROVE  ConnInv(c)'
<1>1. /\ pc = "act" /\ pc' \in {"answer", "closeUdp"} /\ acted' = Acted
      /\ UNCHANGED <<pcVars, waiting, current, recvBuf, orderly>>
  BY DEF Act, Enable
<1>2. current = c
  <2>1. recvBuf # Filler
    BY NetAssumption DEF Filler
  <2> QED
    BY <1>1, <2>1 DEF SessionInv
<1>3. /\ acted[c] \in Seq(0 .. MaxCommands) /\ recvBuf.nr \in 0 .. MaxCommands
      /\ sent[c] \in Nat /\ heard[c] \in Nat /\ answers[c] \in Nat
      /\ \A k \in 1 .. Len(acted[c]) : acted[c][k] \in Nat
      /\ recvBuf.nr \in Nat /\ Len(acted[c]) \in Nat
      /\ \A i \in 1 .. Len(stream[c]) : stream[c][i].nr \in Nat
  BY ConnTypes
<1>4. acted'[c] = Append(acted[c], recvBuf.nr)
  BY <1>1, NetAssumption DEF Acted, TypeOK, ServerTypeOK
<1>5. /\ Len(acted'[c]) = Len(acted[c]) + 1
      /\ \A k \in 1 .. Len(acted'[c]) :
           acted'[c][k] = IF k = Len(acted[c]) + 1 THEN recvBuf.nr ELSE acted[c][k]
      /\ \A k \in 1 .. Len(acted'[c]) : k # Len(acted[c]) + 1 => k \in 1 .. Len(acted[c])
  BY <1>3, <1>4
<1>6. /\ InHand(c) /\ ~InHand(c)' /\ Answering(c)'
      /\ Unaccepted(c)' <=> Unaccepted(c)
      /\ Gone(c)' <=> Gone(c)
  BY <1>1, <1>2 DEF InHand, Answering, Enabling, Unaccepted, Gone, pcVars
<1>7. InOrder(c)'
  <2>1. /\ recvBuf.nr <= sent[c]
        /\ \A k \in 1 .. Len(acted[c]) : recvBuf.nr # 0 => acted[c][k] < recvBuf.nr
        /\ \A k \in 1 .. Len(acted[c]) : acted[c][k] <= sent[c]
        /\ \A j, k \in 1 .. Len(acted[c]) : j < k /\ acted[c][k] # 0 => acted[c][j] < acted[c][k]
    BY <1>6 DEF ConnInv, InOrder
  <2>2. \A k \in 1 .. Len(acted'[c]) : acted'[c][k] <= sent[c]
    BY <1>3, <1>5, <2>1
  <2>3. \A j, k \in 1 .. Len(acted'[c]) :
          j < k /\ acted'[c][k] # 0 => acted'[c][j] < acted'[c][k]
    <3> SUFFICES ASSUME NEW j \in 1 .. Len(acted'[c]), NEW k \in 1 .. Len(acted'[c]),
                        j < k, acted'[c][k] # 0
                 PROVE  acted'[c][j] < acted'[c][k]
      OBVIOUS
    <3>1. j \in 1 .. Len(acted[c]) /\ acted'[c][j] = acted[c][j]
      BY <1>3, <1>5
    <3>2. CASE k = Len(acted[c]) + 1
      BY <1>5, <2>1, <3>1, <3>2
    <3>3. CASE k # Len(acted[c]) + 1
      BY <1>5, <2>1, <3>1, <3>3
    <3> QED
      BY <3>2, <3>3
  <2>4. \A i \in 1 .. Len(stream[c]) : stream[c][i].part # "tail" =>
          /\ 1 <= stream[c][i].nr /\ stream[c][i].nr <= sent[c]
          /\ \A k \in 1 .. Len(acted'[c]) : acted'[c][k] < stream[c][i].nr
          /\ \A j \in 1 .. Len(stream[c]) :
               j > i /\ stream[c][j].part # "tail" => stream[c][i].nr < stream[c][j].nr
    BY <1>3, <1>5, <1>6 DEF ConnInv, InOrder
  <2> QED
    BY <1>1, <1>6, <2>2, <2>3, <2>4 DEF InOrder, pcVars
<1>8. NoMoreAnswers(c)'
  BY <1>1, <1>3, <1>5, <1>6 DEF ConnInv, NoMoreAnswers, pcVars
<1>9. OneOnItsWay(c)'
  <2> SUFFICES ASSUME orderly[c] PROVE OneOnItsWay(c)'
    BY <1>1 DEF OneOnItsWay
  <2>1. /\ Len(acted[c]) + 1 = sent[c] /\ recvBuf.nr = sent[c] /\ stream[c] = <<>> /\ ~Gone(c)
        /\ sent[c] <= heard[c] /\ \A k \in 1 .. Len(acted[c]) : acted[c][k] = k
    BY <1>6 DEF ConnInv, OneOnItsWay
  <2>2. \A k \in 1 .. Len(acted'[c]) : acted'[c][k] = k
    BY <1>3, <1>5, <2>1
  <2>3. Len(acted'[c]) = sent[c]
    BY <1>5, <2>1
  <2> QED
    BY <1>1, <1>6, <2>1, <2>2, <2>3 DEF OneOnItsWay, pcVars
<1> QED
  BY <1>7, <1>8, <1>9 DEF ConnInv

\* An unknown command is dropped; it is not one of an orderly PC.
LEMMA DropStep ==
  ASSUME TypeOK, DropSession, NEW c \in Conns, c = recvBuf.conn, ConnInv(c)
  PROVE  ConnInv(c)'
<1>1. /\ pc = "act" /\ pc' = "accept" /\ recvBuf.kind = "unknown"
      /\ UNCHANGED <<pcVars, waiting, current, recvBuf, acted, orderly>>
  BY DEF DropSession
<1>2. /\ InHand(c) /\ ~InHand(c)' /\ ~Answering(c)'
      /\ Unaccepted(c)' <=> Unaccepted(c)
  BY <1>1 DEF InHand, Answering, Enabling, Unaccepted, pcVars
<1>3. ~orderly[c]
  BY <1>1, <1>2 DEF ConnInv, OneOnItsWay, Known
<1>4. InOrder(c)'
  BY <1>1, <1>2 DEF ConnInv, InOrder, pcVars
<1>5. NoMoreAnswers(c)'
  BY <1>1, <1>2 DEF ConnInv, NoMoreAnswers, pcVars
<1> QED
  BY <1>1, <1>3, <1>4, <1>5 DEF ConnInv, OneOnItsWay

\* When a command of an orderly PC is being answered, nothing more of it is on its way.
LEMMA LastOnItsWay ==
  ASSUME TypeOK, NEW c \in Conns, ConnInv(c), orderly[c], Answering(c)
  PROVE  stream[c] = <<>>
<1>1. sent[c] \in Nat /\ heard[c] \in Nat /\ answers[c] \in Nat /\ Len(acted[c]) \in Nat
  BY NetAssumption DEF TypeOK, PCTypeOK, ServerTypeOK
<1>2. heard[c] + answers[c] <= Len(acted[c]) /\ sent[c] <= heard[c]
  BY DEF ConnInv, NoMoreAnswers, OneOnItsWay
<1> QED
  BY <1>1, <1>2 DEF ConnInv, OneOnItsWay

LEMMA AnswerStep ==
  ASSUME TypeOK, Answer, NEW c \in Conns, c = current, SessionInv, ConnInv(c)
  PROVE  ConnInv(c)'
<1>1. /\ pc = "answer" /\ pc' = "recv" /\ peer[c] \in {"here", "closed", "answered"}
      /\ UNCHANGED <<sent, heard, stream, waiting, current, recvBuf, acted, orderly>>
      /\ answers'[c] \in {answers[c], answers[c] + 1}
      /\ peer'[c] \in {"away", "here"} => peer[c] \in {"away", "here"}
      /\ peer'[c] # "away"
  BY DEF Answer, SendTo, TypeOK, PCTypeOK
<1>2. /\ ~InHand(c) /\ ~InHand(c)' /\ Answering(c) /\ ~Answering(c)'
      /\ Unaccepted(c)' => Unaccepted(c)
      /\ ~Unaccepted(c)
  BY <1>1 DEF InHand, Answering, Enabling, Unaccepted, SessionInv
<1>3. sent[c] \in Nat /\ heard[c] \in Nat /\ answers[c] \in Nat /\ Len(acted[c]) \in Nat
  BY NetAssumption DEF TypeOK, PCTypeOK, ServerTypeOK
<1>4. InOrder(c)'
  BY <1>1, <1>2 DEF ConnInv, InOrder
<1>5. NoMoreAnswers(c)'
  BY <1>1, <1>2, <1>3 DEF ConnInv, NoMoreAnswers
<1>6. OneOnItsWay(c)'
  <2> SUFFICES ASSUME orderly[c] PROVE OneOnItsWay(c)'
    BY <1>1 DEF OneOnItsWay
  <2>1. stream[c] = <<>>
    BY <1>2, LastOnItsWay
  <2> QED
    BY <1>1, <1>2, <2>1 DEF ConnInv, OneOnItsWay
<1> QED
  BY <1>4, <1>5, <1>6 DEF ConnInv

\* recv or send has told that the connection is reset.
LEMMA OverStep ==
  ASSUME TypeOK, NEW c \in Conns, c = current, ConnInv(c), peer'[c] = "over",
         (ReceiveFails /\ stream[c] = <<>>) \/ AnswerFails
  PROVE  ConnInv(c)'
<1>1. /\ UNCHANGED <<sent, heard, stream, answers, waiting, current, acted, orderly>>
      /\ \/ pc = "recv" /\ pc' = "act" /\ recvBuf' = Filler
         \/ pc = "answer" /\ pc' = "accept" /\ recvBuf' = recvBuf
  BY DEF ReceiveFails, AnswerFails
<1>2. /\ ~InHand(c) /\ ~InHand(c)' /\ ~Answering(c)'
      /\ Unaccepted(c)' => Unaccepted(c)
  BY <1>1, NetAssumption DEF InHand, Answering, Enabling, Unaccepted, Filler
<1>3. InOrder(c)'
  BY <1>1, <1>2 DEF ConnInv, InOrder
<1>4. NoMoreAnswers(c)'
  BY <1>1, <1>2 DEF ConnInv, NoMoreAnswers
<1>5. OneOnItsWay(c)'
  <2> SUFFICES ASSUME orderly[c] PROVE OneOnItsWay(c)'
    BY <1>1 DEF OneOnItsWay
  <2>1. stream[c] = <<>>
    <3>1. CASE AnswerFails
      BY <3>1, LastOnItsWay DEF AnswerFails, Answering
    <3> QED
      BY <3>1
  <2> QED
    BY <1>1, <1>2, <2>1 DEF ConnInv, OneOnItsWay
<1> QED
  BY <1>3, <1>4, <1>5 DEF ConnInv

-----------------------------------------------------------------------------
(* Every step *)

LEMMA PCStep ==
  ASSUME TypeOK, CommandInv, NEW c \in Conns,
         \/ Connect(c) \/ ReadAnswers(c) \/ Leave(c) \/ Refuse(c)
         \/ \E kind \in Kinds : SendCommand(c, kind),
         NEW d \in Conns
  PROVE  ConnInv(d)'
<1>1. ConnInv(d) /\ heard[d] \in Nat /\ answers[d] \in Nat
  BY DEF CommandInv, TypeOK, PCTypeOK
<1> USE DEF TypeOK, PCTypeOK
<1>2. CASE Connect(c)
  <2>1. /\ UNCHANGED <<sent, heard, stream, answers, pc, current, recvBuf, acted, orderly>>
        /\ peer[c] = "away" /\ waiting' = Append(waiting, c)
        /\ peer'[d] = IF d = c THEN "here" ELSE peer[d]
    BY <1>2 DEF Connect
  <2>2. Unaccepted(d)' => Unaccepted(d)
    <3>1. \A i \in 1 .. Len(waiting') : \/ i \in 1 .. Len(waiting) /\ waiting'[i] = waiting[i]
                                        \/ waiting'[i] = c
      <4>1. waiting \in Seq(Conns)
        BY DEF ServerTypeOK
      <4>2. \A i \in 1 .. Len(waiting) + 1 :
              waiting'[i] = IF i = Len(waiting) + 1 THEN c ELSE waiting[i]
        BY <2>1, <4>1
      <4>3. Len(waiting') = Len(waiting) + 1 /\ Len(waiting) \in Nat
        BY <2>1, <4>1
      <4> QED
        BY <4>2, <4>3
    <3> QED
      BY <2>1, <3>1 DEF Unaccepted
  <2>3. /\ InHand(d)' <=> InHand(d)
        /\ Answering(d)' <=> Answering(d)
        /\ Gone(d)' => Gone(d)
    BY <2>1 DEF InHand, Answering, Gone
  <2>4. peer'[d] \in {"away", "here"} => peer[d] \in {"away", "here"}
    BY <2>1
  <2> QED
    BY <1>1, <2>1, <2>2, <2>3, <2>4, Undisturbed
<1>3. CASE ReadAnswers(c)
  <2>1. /\ UNCHANGED <<peer, sent, stream, waiting, pc, current, recvBuf, acted, orderly>>
        /\ heard'[d] \in Nat /\ heard'[d] >= heard[d]
        /\ heard'[d] + answers'[d] = heard[d] + answers[d]
    BY <1>1, <1>3 DEF ReadAnswers, tcpVars
  <2>2. /\ InHand(d)' <=> InHand(d)
        /\ Answering(d)' <=> Answering(d)
        /\ Unaccepted(d)' <=> Unaccepted(d)
        /\ Gone(d)' <=> Gone(d)
    BY <2>1 DEF InHand, Answering, Unaccepted, Gone
  <2> QED
    BY <1>1, <2>1, <2>2, Undisturbed
<1>4. CASE Refuse(c) \/ (Leave(c) /\ (answers[c] = 0 \/ d # c))
  <2>1. /\ UNCHANGED <<sent, heard, answers, waiting, pc, current, recvBuf, acted, orderly>>
        /\ stream'[d] = stream[d]
        /\ peer'[d] = peer[d] \/ peer'[d] = "closed" \/ (peer[d] = "answered" /\ peer'[d] = "refused")
    BY <1>4 DEF Refuse, Leave, tcpVars
  <2>2. /\ InHand(d)' <=> InHand(d)
        /\ Answering(d)' <=> Answering(d)
        /\ Unaccepted(d)' => Unaccepted(d)
        /\ Gone(d)' => Gone(d)
    BY <2>1 DEF InHand, Answering, Unaccepted, Gone
  <2>3. peer'[d] \in {"away", "here"} => peer[d] \in {"away", "here"}
    BY <2>1
  <2> QED
    BY <1>1, <2>1, <2>2, <2>3, Undisturbed
<1>5. CASE Leave(c) /\ answers[c] > 0 /\ d = c
  BY <1>1, <1>5, ResetStep
<1>6. ASSUME NEW kind \in Kinds, SendCommand(c, kind) PROVE ConnInv(d)'
  <2>1. CASE d = c
    BY <1>1, <1>6, <2>1, SendCommandStep
  <2>2. CASE d # c
    <3>1. /\ UNCHANGED <<peer, heard, answers, waiting, pc, current, recvBuf, acted>>
          /\ sent'[d] = sent[d] /\ stream'[d] = stream[d] /\ orderly'[d] = orderly[d]
      BY <1>6, <2>2 DEF SendCommand, tcpVars
    <3>2. /\ InHand(d)' <=> InHand(d)
          /\ Answering(d)' <=> Answering(d)
          /\ Unaccepted(d)' <=> Unaccepted(d)
          /\ Gone(d)' <=> Gone(d)
      BY <3>1 DEF InHand, Answering, Unaccepted, Gone
    <3> QED
      BY <1>1, <3>1, <3>2, Undisturbed
  <2> QED
    BY <2>1, <2>2
<1>7. Leave(c) => answers[c] = 0 \/ answers[c] > 0
  BY DEF Leave
<1> QED
  BY <1>2, <1>3, <1>4, <1>5, <1>6, <1>7

\* What the server does to the connections it is not concerned with
LEMMA OtherStep ==
  ASSUME TypeOK, CommandInv, NEW d \in Conns,
         UNCHANGED <<sent, heard, stream, orderly>> \/ (Receive /\ d # current),
         peer'[d] = peer[d], answers'[d] = answers[d], acted'[d] = acted[d],
         InHand(d)' <=> InHand(d), InHand(d) => recvBuf' = recvBuf,
         Answering(d)' => Answering(d), Unaccepted(d)' => Unaccepted(d)
  PROVE  ConnInv(d)'
<1>1. sent'[d] = sent[d] /\ heard'[d] = heard[d] /\ stream'[d] = stream[d] /\ orderly'[d] = orderly[d]
  BY DEF Receive, TypeOK, PCTypeOK
<1>2. heard[d] \in Nat /\ answers[d] \in Nat /\ ConnInv(d)
  BY DEF TypeOK, PCTypeOK, CommandInv
<1>3. Gone(d)' <=> Gone(d)
  BY DEF Gone
<1> QED
  BY <1>1, <1>2, <1>3, Undisturbed

LEMMA ServerStep ==
  ASSUME TypeOK, CommandInv, SessionInv', Server, NEW d \in Conns
  PROVE  ConnInv(d)'
<1>1. SessionInv /\ ConnInv(d) /\ NoConn \notin Conns
  BY NetAssumption DEF CommandInv
<1> USE DEF TypeOK, PCTypeOK, ServerTypeOK
<1>2. CASE Accept
  <2>1. CASE d = Head(waiting)
    BY <1>1, <1>2, <2>1, AcceptStep
  <2>2. CASE d # Head(waiting)
    <3>1. /\ UNCHANGED <<sent, heard, stream, recvBuf, acted, orderly>>
          /\ peer'[d] = peer[d] /\ answers'[d] = answers[d]
          /\ pc = "accept" /\ pc' = "recv" /\ waiting' = Tail(waiting) /\ waiting # <<>>
      BY <1>2, <2>2 DEF Accept, SendTo
    <3>2. ~InHand(d) /\ ~InHand(d)' /\ ~Answering(d)'
      BY <3>1 DEF InHand, Answering, Enabling
    <3>3. Unaccepted(d)' => Unaccepted(d)
      <4>1. \A i \in 1 .. Len(waiting') : i + 1 \in 1 .. Len(waiting) /\ waiting'[i] = waiting[i + 1]
        BY <3>1
      <4> QED
        BY <3>1, <4>1 DEF Unaccepted
    <3> QED
      BY <3>1, <3>2, <3>3, OtherStep
  <2> QED
    BY <2>1, <2>2
<1>3. CASE Receive
  <2>1. CASE d = current
    BY <1>1, <1>3, <2>1, ReceiveStep
  <2>2. CASE d # current
    <3>1. /\ UNCHANGED <<peer, answers, waiting, current, acted>>
          /\ pc = "recv" /\ pc' = "act" /\ recvBuf'.conn = current
      BY <1>3 DEF Receive
    <3>2. /\ ~InHand(d) /\ ~InHand(d)' /\ ~Answering(d)'
          /\ Unaccepted(d)' <=> Unaccepted(d)
      BY <2>2, <3>1 DEF InHand, Answering, Unaccepted
    <3> QED
      BY <1>3, <2>2, <3>1, <3>2, OtherStep
  <2> QED
    BY <2>1, <2>2
<1>4. CASE Act \/ Enable \/ DropSession
  <2>1. /\ pc = "act" /\ pc' \in {"answer", "closeUdp", "accept"} /\ acted' \in {acted, Acted}
        /\ UNCHANGED <<pcVars, waiting, current, recvBuf, orderly>>
    BY <1>4 DEF Act, Enable, DropSession
  <2>2. CASE d = recvBuf.conn
    BY <1>1, <1>4, <2>2, ActStep, DropStep
  <2>3. CASE d # recvBuf.conn
    <3>1. acted'[d] = acted[d]
      BY <2>1, <2>3 DEF Acted
    <3>2. /\ ~InHand(d) /\ ~InHand(d)'
          /\ Unaccepted(d)' <=> Unaccepted(d)
      BY <2>1, <2>3 DEF InHand, Unaccepted, pcVars
    <3>3. ~Answering(d)'
      <4>1. CASE DropSession
        BY <4>1 DEF DropSession, Answering, Enabling
      <4>2. CASE Act \/ Enable
        <5>1. recvBuf # Filler
          BY <4>2 DEF Act, Enable, Filler
        <5>2. current # d
          BY <1>1, <2>1, <2>3, <5>1 DEF SessionInv
        <5> QED
          BY <2>1, <5>2 DEF Answering
      <4> QED
        BY <1>4, <4>1, <4>2
    <3> QED
      BY <2>1, <3>1, <3>2, <3>3, OtherStep DEF pcVars
  <2> QED
    BY <2>2, <2>3
<1>5. CASE \/ AcceptFails \/ ReceiveEnd \/ AnswerBreaks
           \/ CloseUdp \/ SetUdpAddress \/ OpenUdp \/ RaiseTransfer
  <2>1. /\ UNCHANGED <<pcVars, waiting, recvBuf, acted, orderly>>
        /\ pc # "act" /\ pc' # "act"
        /\ \/ pc' \in {"recv", "accept", "ended"}
           \/ current' = current /\ pc \in Enabling
    BY <1>5 DEF AcceptFails, ReceiveEnd, AnswerBreaks, CloseUdp, SetUdpAddress, OpenUdp,
                RaiseTransfer, Enabling
  <2>2. /\ ~InHand(d) /\ ~InHand(d)'
        /\ Answering(d)' => Answering(d)
        /\ Unaccepted(d)' <=> Unaccepted(d)
    BY <2>1 DEF InHand, Answering, Enabling, Unaccepted, pcVars
  <2> QED
    BY <2>1, <2>2, OtherStep DEF pcVars
<1>6. CASE Answer
  <2>1. CASE d = current
    BY <1>1, <1>6, <2>1, AnswerStep
  <2>2. CASE d # current
    <3>1. /\ UNCHANGED <<sent, heard, stream, waiting, current, recvBuf, acted, orderly>>
          /\ peer'[d] = peer[d] /\ answers'[d] = answers[d]
          /\ pc = "answer" /\ pc' = "recv"
      BY <1>6, <2>2 DEF Answer, SendTo
    <3>2. /\ ~InHand(d) /\ ~InHand(d)' /\ ~Answering(d)'
          /\ Unaccepted(d)' <=> Unaccepted(d)
      BY <3>1 DEF InHand, Answering, Enabling, Unaccepted
    <3> QED
      BY <3>1, <3>2, OtherStep
  <2> QED
    BY <2>1, <2>2
<1>7. CASE ReceiveFails \/ AnswerFails
  <2>1. /\ UNCHANGED <<sent, heard, stream, answers, waiting, current, acted, orderly>>
        /\ \/ pc = "recv" /\ pc' = "act" /\ recvBuf' = Filler
           \/ pc = "answer" /\ pc' = "accept" /\ recvBuf' = recvBuf
        /\ \/ peer' = peer
           \/ current \in Conns /\ peer' = [peer EXCEPT ![current] = "over"]
    BY <1>7 DEF ReceiveFails, AnswerFails
  <2>2. CASE peer'[d] = peer[d]
    <3>1. /\ ~InHand(d) /\ ~InHand(d)' /\ ~Answering(d)'
          /\ Unaccepted(d)' <=> Unaccepted(d)
      BY <1>1, <2>1, <2>2 DEF InHand, Answering, Enabling, Unaccepted, Filler
    <3> QED
      BY <2>1, <2>2, <3>1, OtherStep
  <2>3. CASE peer'[d] # peer[d]
    <3>1. d = current /\ peer'[d] = "over"
      BY <2>1, <2>3
    <3>2. (ReceiveFails /\ stream[d] = <<>>) \/ AnswerFails
      BY <1>7, <2>3, <3>1 DEF ReceiveFails
    <3> QED
      BY <1>1, <3>1, <3>2, OverStep
  <2> QED
    BY <2>2, <2>3
<1> QED
  BY <1>2, <1>3, <1>4, <1>5, <1>6, <1>7 DEF Server

LEMMA StepCommand == TypeOK /\ CommandInv /\ [Next]_vars => CommandInv'
<1> SUFFICES ASSUME TypeOK, CommandInv, [Next]_vars PROVE CommandInv'
  OBVIOUS
<1>1. SessionInv'
  BY StepSession DEF CommandInv
<1>2. ASSUME NEW d \in Conns PROVE ConnInv(d)'
  <2>1. CASE BeginFrame \/ SendBlock \/ SendBlockFails \/ UNCHANGED vars
    <3>1. UNCHANGED <<pcVars, waiting, pc, current, recvBuf, acted, orderly>>
      BY <2>1 DEF BeginFrame, SendBlock, SendBlockFails, vars, tcpVars
    <3>2. /\ InHand(d)' <=> InHand(d)
          /\ Answering(d)' <=> Answering(d)
          /\ Unaccepted(d)' <=> Unaccepted(d)
      BY <3>1 DEF InHand, Answering, Unaccepted, pcVars
    <3> QED
      BY <3>1, <3>2, OtherStep DEF pcVars
  <2>2. CASE Server
    BY <1>1, <2>2, ServerStep
  <2>3. CASE \E c \in Conns : \/ Connect(c) \/ ReadAnswers(c) \/ Leave(c) \/ Refuse(c)
                              \/ \E kind \in Kinds : SendCommand(c, kind)
    BY <2>3, PCStep
  <2> QED
    BY <2>1, <2>2, <2>3 DEF Next
<1> QED
  BY <1>1, <1>2 DEF CommandInv

\* No command is acted on twice or after a later one, and those of an orderly PC are
\* acted on one by one: whatever the PCs send, and however the pieces of it arrive.
THEOREM Once == Spec => []ActsOnce
<1>1. TypeOK /\ CommandInv => ActsOnce
  <2>1. TypeOK => \A c \in Conns : DOMAIN acted[c] = 1 .. Len(acted[c])
    BY ConnTypes
  <2> QED
    BY <2>1 DEF CommandInv, ConnInv, InOrder, OneOnItsWay, ActsOnce
<1> QED
  BY <1>1, InitType, StepType, InitCommand, StepCommand, PTL DEF Spec

\* As long as all PCs are orderly none of them ends the program: a command that is being
\* answered is of a PC nothing was sent to in vain.
THEOREM Harmless == Spec => []OrderlyPCsHarmless
<1>1. Init => OrderlyPCsHarmless
  BY DEF Init, OrderlyPCsHarmless
<1>2. TypeOK /\ CommandInv /\ OrderlyPCsHarmless /\ [Next]_vars => OrderlyPCsHarmless'
  <2> SUFFICES ASSUME TypeOK, CommandInv, OrderlyPCsHarmless, [Next]_vars,
                      \A c \in Conns : orderly'[c]
               PROVE  pc' # "ended"
    BY DEF OrderlyPCsHarmless
  <2>1. \A c \in Conns : orderly[c]
    <3>1. CASE \E c \in Conns, kind \in Kinds : SendCommand(c, kind)
      BY <3>1 DEF SendCommand, TypeOK, PCTypeOK
    <3>2. CASE ~ \E c \in Conns, kind \in Kinds : SendCommand(c, kind)
      <4>1. orderly' = orderly
        BY <3>2 DEF Next, Server, Connect, ReadAnswers, Leave, Refuse, Accept, AcceptFails,
                    Receive, ReceiveEnd, ReceiveFails, DropSession, Act, Enable, CloseUdp,
                    SetUdpAddress, OpenUdp, RaiseTransfer, Answer, AnswerFails, AnswerBreaks,
                    BeginFrame, SendBlock, SendBlockFails, vars
      <4> QED
        BY <4>1
    <3> QED
      BY <3>1, <3>2
  <2>2. pc # "ended"
    BY <2>1 DEF OrderlyPCsHarmless
  <2>3. ~AnswerBreaks
    <3> SUFFICES ASSUME AnswerBreaks PROVE FALSE
      OBVIOUS
    <3>1. current \in Conns /\ Gone(current) /\ Answering(current)
      BY DEF AnswerBreaks, Gone, Answering, TypeOK, ServerTypeOK
    <3> QED
      BY <2>1, <3>1 DEF CommandInv, ConnInv, OneOnItsWay
  <2> QED
    BY <2>2, <2>3 DEF Next, Server, Connect, ReadAnswers, Leave, Refuse, SendCommand, Accept,
                      AcceptFails, Receive, ReceiveEnd, ReceiveFails, DropSession, Act, Enable,
                      CloseUdp, SetUdpAddress, OpenUdp, RaiseTransfer, Answer, AnswerFails,
                      BeginFrame, SendBlock, SendBlockFails, vars, tcpVars
<1> QED
  BY <1>1, <1>2, InitType, StepType, InitCommand, StepCommand, PTL DEF Spec
=============================================================================
