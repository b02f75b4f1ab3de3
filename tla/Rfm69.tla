-------------------------------- MODULE Rfm69 --------------------------------
(* The radio driver RFM69.cpp as the firmware of version 3 runs it: Thread1 *)
(* of main.cpp receives, acknowledges and sends, and the shell's command    *)
(* `date` reads the chip's temperature meanwhile.  The driver keeps the     *)
(* chip's mode in _mode and the last frame in static buffers, and nothing   *)
(* but the SPI bus is locked.  The shell has the higher priority: Thread1   *)
(* runs only while the shell waits, which it does on the bus.               *)
EXTENDS Integers, Sequences

CONSTANTS
    Peers,        \* the stations that answer and send
    HIGH_POWER,   \* _isRFM69HW
    PROMISCUOUS,  \* _promiscuousMode: on at the gateway
    RETRIES,      \* repetitions of sendWithRetry
    FRAMES,       \* bounds: frames of the peers, own messages, uses of `date`
    MESSAGES,
    DATES

ASSUME RadioAssumption ==
    /\ HIGH_POWER \in BOOLEAN /\ PROMISCUOUS \in BOOLEAN
    /\ RETRIES \in Nat /\ FRAMES \in Nat /\ MESSAGES \in Nat /\ DATES \in Nat

VARIABLES
    mode,     \* _mode
    chip,     \* the mode in the chip's REG_OPMODE
    fifo,     \* the received frame in the chip (PAYLOADREADY)
    buf,      \* DATA, SENDERID, TARGETID, ACK_RECEIVED; NoFrame: PAYLOADLEN = 0
    got,      \* what receiveDone has returned
    todo,     \* what Thread1 has still to do: a sequence of steps
    bus,      \* the SPI bus's owner and who waits for it, in order
    shell,    \* where the shell is in readTemperature
    history   \* what was sent, delivered and answered, and who asked for it: for
              \* the properties and to bound the exploration, not code

vars == <<mode, chip, fifo, buf, got, todo, bus, shell, history>>

NoFrame == [kind |-> "none"]

\* no: the peers' frames are numbered; of an ACK, how many transmissions of
\* ours had begun when it arrived.  The frames do not carry it.
Data(from, to, no) == [kind |-> "data", from |-> from, to |-> to, no |-> no]
AckOf(from, no) == [kind |-> "ack", from |-> from, to |-> "us", no |-> no]

\* ACKRequested: the peers' frames all ask for an ACK, but nobody answers one
\* to RF69_BROADCAST_ADDR.
AckRequested(f) == f.kind = "data" /\ f.to # "all"

\* main() before there is a shell: initialize() leaves the chip in standby.
Init == /\ mode = "standby" /\ chip = "standby"
        /\ fifo = NoFrame /\ buf = NoFrame /\ got = FALSE
        /\ todo = <<<<"initialize">>>>
        /\ bus = <<>> /\ shell = "none"
        /\ history = [aired |-> 0, delivered |-> <<>>, asked |-> <<>>, answers |-> <<>>,
                      sent |-> 0, due |-> 0, messages |-> 0, dates |-> 0,
                      acked |-> TRUE]

----------------------------------------------------------------------------
(* The steps of Thread1.  A call is the sequence of its steps.              *)

Doing(op) == todo # <<>> /\ Head(todo)[1] = op
Arg == Head(todo)[2]
Do(steps) == todo' = steps \o Tail(todo)

\* A step on the bus waits for its turn first; with it done, the bus goes to
\* who waits for it (chMtxUnlock).
OnBus == {"read", "write", "testpa1", "testpa2", "payload", "fetch", "restart", "fill"}
Acquire ==
    /\ todo # <<>> /\ Head(todo)[1] \in OnBus
    /\ \A i \in DOMAIN bus : bus[i] # "thread"
    /\ bus' = Append(bus, "thread")
    /\ UNCHANGED <<mode, chip, fifo, buf, got, todo, shell, history>>

Turn(op) == Doing(op) /\ bus # <<>> /\ Head(bus) = "thread" /\ bus' = Tail(bus)

\* Entering RX empties the chip's FIFO.
ChipTo(m) == /\ chip' = m
             /\ fifo' = IF m = "rx" /\ chip # "rx" THEN NoFrame ELSE fifo

\* Mutation of Following: _mode is set before the chip has followed.
FollowingEarly(op, m) ==
    CASE op = "read" -> "assign"
      [] op = "write" -> IF HIGH_POWER /\ m # "standby" THEN "testpa1" ELSE "assign"
      [] op = "testpa1" -> "testpa2"
      [] op = "testpa2" -> "assign"

\* setMode after its early return: OPMODE is read and written, the amplifier
\* is set in two writes, then _mode.
Following(op, m) ==
    CASE op = "read" -> "write"
      [] op = "write" -> IF HIGH_POWER /\ m # "standby" THEN "testpa1" ELSE "assign"
      [] op = "testpa1" -> "testpa2"
      [] op = "testpa2" -> "assign"

SetMode == /\ Doing("setMode")
           /\ Do(IF Arg = mode THEN <<>> ELSE <<<<"read", Arg>>>>)
           /\ UNCHANGED <<mode, chip, fifo, buf, got, bus, shell, history>>
Access(op) == /\ Turn(op)
              /\ Do(<<<<Following(op, Arg), Arg>>>>)
              /\ IF op = "write" THEN ChipTo(Arg) ELSE UNCHANGED <<chip, fifo>>
              /\ UNCHANGED <<mode, buf, got, shell, history>>
Assign == /\ Doing("assign")
          /\ mode' = Arg /\ Do(<<>>)
          /\ UNCHANGED <<chip, fifo, buf, got, bus, shell, history>>

\* main()'s call, which fails without a chip: then there is no Thread1.
Initialize == /\ Doing("initialize")
              /\ todo' \in {<<>>, <<<<"poll">>>>}
              /\ shell' = "idle"
              /\ UNCHANGED <<mode, chip, fifo, buf, got, bus, history>>

----------------------------------------------------------------------------
(* Receiving.                                                               *)

\* interruptHandler looks at _mode and the flag PAYLOADREADY, ...
Handler == /\ Doing("handler")
           /\ Do(IF mode = "rx" THEN <<<<"payload">>>> ELSE <<>>)
           /\ UNCHANGED <<mode, chip, fifo, buf, got, bus, shell, history>>
Payload == /\ Turn("payload")
           /\ Do(IF fifo = NoFrame THEN <<>>
                                   ELSE <<<<"setMode", "standby">>, <<"fetch">>>>)
           /\ UNCHANGED <<mode, chip, fifo, buf, got, shell, history>>

\* ... and fetches the frame, over the one in the buffers; a frame for another
\* station goes, with the earlier one.
Fetch == /\ Turn("fetch")
         /\ fifo' = NoFrame
         /\ IF fifo # NoFrame /\ (PROMISCUOUS \/ fifo.to # "another")
            THEN buf' = fifo /\ Do(<<<<"setMode", "rx">>>>)
            ELSE buf' = NoFrame /\ Do(<<<<"receiveBegin">>>>)
         /\ UNCHANGED <<mode, chip, got, shell, history>>

\* Mutation of ReceiveBegin: PAYLOADLEN is not cleared.
ReceiveBeginOver ==
    /\ Doing("receiveBegin")
    /\ Do(<<<<"restart">>, <<"setMode", "rx">>>>)
    /\ UNCHANGED <<mode, chip, fifo, buf, got, bus, shell, history>>

ReceiveBegin ==
    /\ Doing("receiveBegin")
    /\ buf' = NoFrame
    /\ Do(<<<<"restart">>, <<"setMode", "rx">>>>)
    /\ UNCHANGED <<mode, chip, fifo, got, bus, shell, history>>

\* RXRESTART, "avoid RX deadlocks": the frame in the chip may be gone by it.
Restart == /\ Turn("restart")
           /\ fifo' \in {fifo, NoFrame} /\ Do(<<>>)
           /\ UNCHANGED <<mode, chip, buf, got, shell, history>>

\* Mutation of Done: the radio is left receiving, with the frame in its buffers.
DoneStillReceiving ==
    /\ Doing("done")
    /\ got' = (mode = "rx" /\ buf # NoFrame)
    /\ Do(IF mode = "rx" THEN <<>> ELSE <<<<"receiveBegin">>>>)
    /\ UNCHANGED <<mode, chip, fifo, buf, bus, shell, history>>

\* receiveDone after its interruptHandler.
receiveDone == <<<<"handler">>, <<"done">>>>
Done == /\ Doing("done")
        /\ got' = (mode = "rx" /\ buf # NoFrame)
        /\ Do(CASE got' -> <<<<"setMode", "standby">>>>
                [] ~got' /\ mode = "rx" -> <<>>
                [] OTHER -> <<<<"receiveBegin">>>>)
        /\ UNCHANGED <<mode, chip, fifo, buf, bus, shell, history>>

----------------------------------------------------------------------------
(* Sending.  A job is what is to be sent: an ACK or a message, and to whom. *)

\* send, and sendACK with the sender of the frame it answers.
Send(job) == <<<<"restart">>, <<"csma", job>>>>

\* Mutation of Csma: the ACK goes to whoever SENDERID names by now.
CsmaForgetsSender ==
    /\ Doing("csma")
    /\ LET job == IF Arg.kind = "ack" /\ buf # NoFrame
                  THEN [Arg EXCEPT !.to = buf.from] ELSE Arg IN
       \/ mode = "rx" /\ buf = NoFrame /\ Do(<<<<"setMode", "standby">>, <<"sendFrame", job>>>>)
       \/ Do(<<<<"sendFrame", job>>>>)
       \/ Do(receiveDone \o <<<<"csma", Arg>>>>)
    /\ UNCHANGED <<mode, chip, fifo, buf, got, bus, shell, history>>

\* canSend gives the channel, if it is quiet; else receiveDone, again and
\* again; or the second is over and the frame is sent all the same.
Csma ==
    /\ Doing("csma")
    /\ \/ mode = "rx" /\ buf = NoFrame /\ Do(<<<<"setMode", "standby">>, <<"sendFrame", Arg>>>>)
       \/ Do(receiveDone \o <<<<"csma", Arg>>>>)
       \/ Do(<<<<"sendFrame", Arg>>>>)
    /\ UNCHANGED <<mode, chip, fifo, buf, got, bus, shell, history>>

SendFrame == /\ Doing("sendFrame")
             /\ Do(<<<<"setMode", "standby">>, <<"fill">>, <<"setMode", "tx">>, <<"sent", Arg>>>>)
             /\ UNCHANGED <<mode, chip, fifo, buf, got, bus, shell, history>>

\* What is left in the FIFO is replaced by the frame to be sent.
Fill == /\ Turn("fill")
        /\ fifo' = NoFrame /\ Do(<<>>)
        /\ UNCHANGED <<mode, chip, buf, got, shell, history>>

\* DIO0 says the frame is sent, or the wait for it ends after a second: the
\* shell has stopped the transmission.  A message that is sent may be answered.
Sent ==
    /\ Doing("sent") /\ Do(<<<<"setMode", "standby">>>>)
    /\ history' = IF Arg.kind = "ack"
                  THEN [history EXCEPT !.answers = Append(@, Arg.to)]
                  ELSE [history EXCEPT !.sent = @ + 1, !.acked = FALSE,
                                       !.due = IF chip = "tx" THEN @ + 1 ELSE @]
    /\ UNCHANGED <<mode, chip, fifo, buf, got, bus, shell>>

\* sendWithRetry's wait: interruptHandler, ACKReceived; or the time is over.
sendWithRetry(p, left) == Send([kind |-> "data", to |-> p])
                          \o <<<<"wait", [to |-> p, left |-> left]>>>>
Wait ==
    /\ Doing("wait")
    /\ \/ Do(<<<<"handler">>>> \o receiveDone \o <<<<"ACKReceived", Arg>>>>)
       \/ Arg.left > 0 /\ Do(sendWithRetry(Arg.to, Arg.left - 1))
       \/ Arg.left = 0 /\ Do(<<<<"poll">>>>)
    /\ UNCHANGED <<mode, chip, fifo, buf, got, bus, shell, history>>

ACKReceived ==
    /\ Doing("ACKReceived")
    /\ IF got /\ buf.from = Arg.to /\ buf.kind = "ack"
       THEN /\ history' = [history EXCEPT !.acked = buf.no = history.sent]
            /\ Do(<<<<"poll">>>>)
       ELSE /\ Do(<<<<"wait", Arg>>>>)
            /\ UNCHANGED history
    /\ UNCHANGED <<mode, chip, fifo, buf, got, bus, shell>>

----------------------------------------------------------------------------
(* Thread1's round.                                                         *)

\* irq.Get() and isr0, then receiveDone.
Poll ==
    /\ Doing("poll")
    /\ Do((IF chip = "rx" /\ fifo # NoFrame THEN <<<<"handler">>>> ELSE <<>>)
          \o receiveDone \o <<<<"deliver">>>>)
    /\ UNCHANGED <<mode, chip, fifo, buf, got, bus, shell, history>>

\* A frame goes to the FastBus, and is acknowledged if it asks for it.
Deliver ==
    /\ Doing("deliver")
    /\ history' = IF got
                  THEN [history EXCEPT !.delivered = Append(@, buf),
                                       !.asked = IF AckRequested(buf)
                                                 THEN Append(@, buf.from) ELSE @]
                  ELSE history
    /\ Do((IF got /\ AckRequested(buf)
           THEN Send([kind |-> "ack", to |-> buf.from]) ELSE <<>>) \o <<<<"round">>>>)
    /\ UNCHANGED <<mode, chip, fifo, buf, got, bus, shell>>

\* A message of the round, if there is one; then the next round.
Round ==
    /\ Doing("round")
    /\ \/ /\ history.messages < MESSAGES
          /\ history' = [history EXCEPT !.messages = @ + 1]
          /\ \E p \in Peers : Do(sendWithRetry(p, RETRIES))
       \/ Do(<<<<"poll">>>>) /\ UNCHANGED history
    /\ UNCHANGED <<mode, chip, fifo, buf, got, bus, shell>>

----------------------------------------------------------------------------
(* The shell's `date`: readTemperature, whose setMode comes here step by    *)
(* step; the measurement itself changes nothing.                            *)

Date ==
    /\ shell = "idle" /\ history.dates < DATES
    /\ history' = [history EXCEPT !.dates = @ + 1]
    /\ IF mode = "standby" THEN UNCHANGED <<shell, bus>>
       ELSE shell' = "reading" /\ bus' = Append(bus, "shell")
    /\ UNCHANGED <<mode, chip, fifo, buf, got, todo>>

\* OPMODE is read; the bus goes to Thread1 if it waits, and is asked for again.
ShellRead ==
    /\ shell = "reading" /\ Head(bus) = "shell"
    /\ shell' = "writing" /\ bus' = Append(Tail(bus), "shell")
    /\ UNCHANGED <<mode, chip, fifo, buf, got, todo, history>>

\* OPMODE is written and _mode set: Thread1 does not run in between.
ShellWrite ==
    /\ shell = "writing" /\ Head(bus) = "shell"
    /\ ChipTo("standby") /\ mode' = "standby"
    /\ shell' = "idle" /\ bus' = Tail(bus)
    /\ UNCHANGED <<buf, got, todo, history>>

----------------------------------------------------------------------------
(* The air: a frame reaches a chip that listens and holds none; others are  *)
(* lost.                                                                    *)

Listening == chip = "rx" /\ fifo = NoFrame

PeerSends(p, to) ==
    /\ history.aired < FRAMES
    /\ history' = [history EXCEPT !.aired = @ + 1]
    /\ fifo' = IF Listening THEN Data(p, to, history.aired + 1) ELSE fifo
    /\ UNCHANGED <<mode, chip, buf, got, todo, bus, shell>>

PeerAnswers(p) ==
    /\ history.due > 0
    /\ history' = [history EXCEPT !.due = @ - 1]
    /\ fifo' = IF Listening THEN AckOf(p, history.sent) ELSE fifo
    /\ UNCHANGED <<mode, chip, buf, got, todo, bus, shell>>

Thread == \/ Acquire \/ SetMode \/ Assign \/ Initialize
          \/ \E op \in {"read", "write", "testpa1", "testpa2"} : Access(op)
          \/ Handler \/ Payload \/ Fetch \/ ReceiveBegin \/ Restart \/ Done
          \/ Csma \/ SendFrame \/ Fill \/ Sent \/ Wait \/ ACKReceived
          \/ Poll \/ Deliver \/ Round

Next == \/ Thread
        \/ Date \/ ShellRead \/ ShellWrite
        \/ \E p \in Peers, to \in {"us", "another", "all"} : PeerSends(p, to)
        \/ \E p \in Peers : PeerAnswers(p)

Spec == Init /\ [][Next]_vars

----------------------------------------------------------------------------
\* A frame of a peer is delivered at most once, and in the order of arrival,
\* although receiveDone is called all over the driver and may find a frame
\* that an earlier call has left.
EachFrameOnce ==
    \A i, j \in DOMAIN history.delivered :
       LET f == history.delivered[i]  g == history.delivered[j] IN
       i < j /\ f.kind = "data" /\ g.kind = "data" => f.no < g.no

\* The ACKs go, one each and in order, to the senders of the frames that were
\* delivered and asked for one, whatever comes in while sendACK waits for the
\* channel.
AnswersGoToSenders ==
    /\ Len(history.answers) \in {Len(history.asked) - 1, Len(history.asked)}
    /\ \A i \in DOMAIN history.answers : history.answers[i] = history.asked[i]

\* sendWithRetry returns true only for an ACK that arrived after the frame had
\* been sent, and not for one left in the buffers from before.
AckIsNew == [][Doing("ACKReceived") /\ Head(todo') = <<"poll">> => history'.acked]_vars

\* _mode is the chip's mode unless Thread1 is in a setMode, between its write
\* of OPMODE and its assignment of _mode: were they to differ after it, the
\* radio would be deaf with nothing left to notice it.
ModeIsTheChips ==
    mode # chip => Doing("testpa1") \/ Doing("testpa2") \/ Doing("assign")
=============================================================================
