-------------------------- MODULE RadioThreadProofs --------------------------
(* Proofs of the safety of the USB pipe, for any number of buffers, frames, *)
(* commands, resets and suspends, whatever the thread does with the pipe;   *)
(* that the radio thread is, seen from the FastBus, one of the threads that *)
(* FastBus allows, so that what is proved of the pipe holds with it at its  *)
(* end; and type correctness of the radio thread.                           *)
EXTENDS RadioThread, SequenceTheorems, TLAPS

(* The pipe alone.                                                          *)

\* The output side: only a configured bus has a transfer, of the oldest frame.
OutInv ==
    /\ obqueue \in Seq(Nat) /\ Len(obqueue) <= BUFFERS
    /\ written \in Nat /\ shown \in Nat
    /\ in \in {"idle", "busy", "done"} /\ usb \in {"ready", "active", "suspended"}
    /\ usb = "ready" => in = "idle"
    /\ in # "idle" => obqueue # <<>>
    /\ FramesShownInOrder

\* The commands on their way, and that they are all the host has issued.
Got == taken \o ibqueue

\* The input side: a reception has a buffer to itself, and the command it ends
\* with is newer than all before.
InInv ==
    /\ ibqueue \in Seq(Nat) /\ Len(ibqueue) <= BUFFERS
    /\ issued \in Nat /\ taken \in Seq(Nat)
    /\ out \in {"idle", "busy", "done"} /\ usb \in {"ready", "active", "suspended"}
    /\ events \in [disconnects : Nat, suspends : Nat]
    /\ usb = "ready" => out = "idle"
    /\ usb = "suspended" => events.suspends > 0
    /\ out # "idle" => Len(ibqueue) < BUFFERS
    /\ \A i \in 1 .. Len(Got) : Got[i] <= issued /\ (out = "done" => Got[i] < issued)
    /\ InputNeverStalls /\ CommandsInOrder

\* The thread and the bus.
CpuInv ==
    /\ thread \in {"running", "reading"}
    /\ enabled \in BOOLEAN /\ locked \in BOOLEAN
    /\ usb # "ready" => enabled

BusInv == OutInv /\ InInv /\ CpuInv

----------------------------------------------------------------------------
(* Sequences of numbers, and what the start operations do to an endpoint.   *)

LEMMA AppendFacts ==
  ASSUME NEW q \in Seq(Nat), NEW x \in Nat
  PROVE  /\ Append(q, x) \in Seq(Nat)
         /\ Len(q) \in Nat /\ Len(Append(q, x)) = Len(q) + 1
         /\ \A i \in 1 .. Len(q) : Append(q, x)[i] = q[i]
         /\ Append(q, x)[Len(q) + 1] = x
         /\ Append(q, x) # <<>>
<1>1. Len(q) \in Nat
  BY LenProperties
<1>2. Append(q, x) \in Seq(Nat) /\ Len(Append(q, x)) = Len(q) + 1
  OBVIOUS
<1>3. \A i \in 1 .. Len(q) : Append(q, x)[i] = q[i]
  OBVIOUS
<1>4. Append(q, x)[Len(q) + 1] = x
  OBVIOUS
<1> QED BY <1>1, <1>2, <1>3, <1>4, EmptySeq

LEMMA TailFacts ==
  ASSUME NEW q \in Seq(Nat), q # <<>>
  PROVE  /\ Len(q) \in Nat \ {0} /\ Head(q) = q[1] /\ Head(q) \in Nat
         /\ Tail(q) \in Seq(Nat)
         /\ Len(Tail(q)) = Len(q) - 1
         /\ \A i \in 1 .. Len(q) - 1 : Tail(q)[i] = q[i + 1]
<1> QED BY HeadTailProperties, EmptySeq

LEMMA TransmitFacts ==
  ASSUME NEW q, NEW i
  PROVE  /\ StartTransmit(q, i) \in {i, "busy"}
         /\ StartTransmit(q, i) # i => usb = "active" /\ q # <<>>
<1> QED BY DEF StartTransmit, Usable

----------------------------------------------------------------------------
LEMMA BusInit == Init => BusInv
<1> SUFFICES ASSUME Init PROVE BusInv
  OBVIOUS
<1>1. Len(<<>>) = 0 /\ <<>> \in Seq(Nat)
  BY EmptySeq
<1>2. BUFFERS \in Nat \ {0}
  BY FastBusAssumption DEF FastBusAssumption
<1>3. OutInv
  <2>1. obqueue = <<>> /\ written = 0 /\ shown = 0 /\ in = "idle" /\ usb = "ready"
    BY DEF Init
  <2>2. FramesShownInOrder
    <3>1. Len(obqueue) = 0
      BY <1>1, <2>1
    <3>2. written = 0 /\ shown = 0 /\ in # "done"
      BY <2>1
    <3> QED BY <3>1, <3>2 DEF FramesShownInOrder
  <2> QED BY <1>1, <1>2, <2>1, <2>2 DEF OutInv
<1>4. Got = <<>>
  BY <1>1, ConcatEmptySeq DEF Init, Got
<1>5. InInv
  BY <1>1, <1>2, <1>4 DEF Init, InInv, InputNeverStalls, CommandsInOrder, Usable, Got
<1>6. CpuInv
  BY Zenon DEF Init, CpuInv
<1> QED BY <1>3, <1>5, <1>6 DEF BusInv

LEMMA CpuStep ==
  ASSUME CpuInv, Next PROVE CpuInv'
<1> QED BY Zenon DEF CpuInv, Next, Thread, Host, Callbacks, UsbEvent, Write, ReadBuffer,
        ReadReturn, KernelCall, HostReceives, HostSends, Transmitted, Received,
        Configured, Disconnected, Suspend, Wakeup, bus, output, input, cpu

----------------------------------------------------------------------------
(* The output side.                                                         *)

LEMMA WriteStep ==
  ASSUME OutInv, Write PROVE OutInv'
<1>1. CASE Len(obqueue) < BUFFERS /\ obqueue' = Append(obqueue, written + 1)
           /\ written' = written + 1 /\ in' = StartTransmit(obqueue', in)
  <2>1. /\ obqueue' \in Seq(Nat) /\ Len(obqueue) \in Nat
        /\ Len(obqueue') = Len(obqueue) + 1
        /\ \A i \in 1 .. Len(obqueue) : obqueue'[i] = obqueue[i]
        /\ obqueue'[Len(obqueue) + 1] = written + 1 /\ obqueue' # <<>>
    BY <1>1, AppendFacts DEF OutInv
  <2>2. in' \in {in, "busy"} /\ (in' # in => usb = "active")
    BY <1>1, TransmitFacts
  <2>3. UNCHANGED <<usb, shown>>
    BY DEF Write, bus
  <2>4. in' = "done" => Head(obqueue') = Head(obqueue)
    <3> SUFFICES ASSUME in' = "done" PROVE Head(obqueue') = Head(obqueue)
      OBVIOUS
    <3>1. obqueue # <<>>
      BY <2>2 DEF OutInv
    <3> QED BY <2>1, <3>1, TailFacts DEF OutInv
  <2>5. FramesShownInOrder'
    BY <1>1, <2>1, <2>2, <2>3, <2>4 DEF OutInv, FramesShownInOrder
  <2>6. BUFFERS \in Nat
    BY FastBusAssumption DEF FastBusAssumption
  <2> QED BY <1>1, <2>1, <2>2, <2>3, <2>5, <2>6 DEF OutInv
<1>2. CASE UNCHANGED <<written, obqueue, in>>
  BY <1>2 DEF Write, bus, OutInv, FramesShownInOrder
<1> QED BY <1>1, <1>2 DEF Write

\* The host gets the oldest frame, and its buffer goes back.
LEMMA HostReceivesStep ==
  ASSUME OutInv, HostReceives PROVE OutInv'
<1>1. obqueue # <<>> /\ in' = "done" /\ shown' = Head(obqueue)
  BY DEF OutInv, HostReceives
<1>2. UNCHANGED <<usb, obqueue, written>> /\ usb = "active"
  BY DEF HostReceives, bus
<1>3. Len(obqueue) \in Nat \ {0} /\ Head(obqueue) = obqueue[1] /\ Head(obqueue) \in Nat
  BY <1>1, TailFacts DEF OutInv
<1>4. obqueue[1] = written - Len(obqueue) + 1
  BY <1>3 DEF OutInv, FramesShownInOrder
<1>5. shown' - (written' - Len(obqueue')) = 1
  BY <1>1, <1>2, <1>3, <1>4 DEF OutInv
<1>6. FramesShownInOrder'
  BY <1>1, <1>2, <1>5 DEF OutInv, FramesShownInOrder
<1> QED BY <1>1, <1>2, <1>3, <1>6 DEF OutInv

LEMMA TransmittedStep ==
  ASSUME OutInv, CpuInv, Transmitted PROVE OutInv'
<1>1. /\ obqueue # <<>> /\ obqueue' = Tail(obqueue)
      /\ in' = IF obqueue' # <<>> THEN "busy" ELSE "idle"
      /\ in = "done" /\ usb = "active"
  BY DEF OutInv, CpuInv, Transmitted
<1>2. UNCHANGED <<usb, written, shown>>
  BY DEF Transmitted, bus
<1>3. /\ Len(obqueue) \in Nat \ {0} /\ Head(obqueue) = obqueue[1]
      /\ obqueue' \in Seq(Nat) /\ Len(obqueue') = Len(obqueue) - 1
      /\ \A i \in 1 .. Len(obqueue) - 1 : obqueue'[i] = obqueue[i + 1]
  BY <1>1, TailFacts DEF OutInv
<1>4. shown = written - Len(obqueue) + 1
  BY <1>1, <1>3 DEF OutInv, FramesShownInOrder
<1>5. \A i \in 1 .. Len(obqueue') : obqueue'[i] = written' - Len(obqueue') + i
  <2> SUFFICES ASSUME NEW i \in 1 .. Len(obqueue')
               PROVE  obqueue'[i] = written' - Len(obqueue') + i
    OBVIOUS
  <2>1. obqueue'[i] = obqueue[i + 1] /\ i + 1 \in 1 .. Len(obqueue)
    BY <1>3
  <2>2. obqueue[i + 1] = written - Len(obqueue) + (i + 1)
    BY <2>1 DEF OutInv, FramesShownInOrder
  <2> QED BY <1>2, <1>3, <2>1, <2>2 DEF OutInv
<1>6. FramesShownInOrder'
  <2>1. shown' - (written' - Len(obqueue')) = 0
    BY <1>2, <1>3, <1>4 DEF OutInv
  <2>2. in' # "done"
    BY <1>1
  <2> QED BY <1>5, <2>1, <2>2 DEF FramesShownInOrder
<1>7. BUFFERS \in Nat
  BY FastBusAssumption DEF FastBusAssumption
<1> QED BY <1>1, <1>2, <1>3, <1>6, <1>7 DEF OutInv

\* Events stop the transfers and leave the queue.
LEMMA EventOutStep ==
  ASSUME OutInv, UsbEvent PROVE OutInv'
<1>1. /\ UNCHANGED <<obqueue, written, shown>>
      /\ usb' \in {"ready", "active", "suspended"}
      /\ in' \in {in, "idle"} /\ (usb' = "ready" => in' = "idle")
  BY DEF UsbEvent, Configured, Disconnected, Suspend, Wakeup, output, OutInv
<1> QED BY <1>1 DEF OutInv, FramesShownInOrder

LEMMA OutStep ==
  ASSUME OutInv, CpuInv, Next PROVE OutInv'
<1>1. CASE UNCHANGED <<output, usb>>
  BY <1>1 DEF output, OutInv, FramesShownInOrder
<1>2. CASE ReadBuffer \/ ReadReturn \/ KernelCall \/ HostSends \/ Received
  BY <1>1, <1>2 DEF ReadBuffer, ReadReturn, KernelCall, HostSends, Received, bus
<1> QED BY <1>2, WriteStep, HostReceivesStep, TransmittedStep, EventOutStep
        DEF Next, Thread, Host, Callbacks

----------------------------------------------------------------------------
(* The input side.                                                          *)

\* The commands on their way, by their place.
LEMMA ConcatFacts ==
  ASSUME NEW p \in Seq(Nat), NEW q \in Seq(Nat)
  PROVE  /\ p \o q \in Seq(Nat)
         /\ Len(p) \in Nat /\ Len(q) \in Nat /\ Len(p \o q) = Len(p) + Len(q)
         /\ \A i \in 1 .. Len(p) : (p \o q)[i] = p[i]
         /\ \A i \in 1 .. Len(q) : (p \o q)[Len(p) + i] = q[i]
<1> DEFINE pq == p \o q
<1>1. pq \in Seq(Nat) /\ Len(p) \in Nat /\ Len(q) \in Nat /\ Len(pq) = Len(p) + Len(q)
  BY ConcatProperties, LenProperties
<1>2. \A i \in 1 .. Len(p) + Len(q) : pq[i] = IF i <= Len(p) THEN p[i] ELSE q[i - Len(p)]
  BY ConcatProperties
<1> HIDE DEF pq
<1>3. \A i \in 1 .. Len(p) : pq[i] = p[i]
  BY <1>1, <1>2
<1>4. \A i \in 1 .. Len(q) : pq[Len(p) + i] = q[i]
  <2> SUFFICES ASSUME NEW i \in 1 .. Len(q) PROVE pq[Len(p) + i] = q[i]
    OBVIOUS
  <2>1. Len(p) + i \in 1 .. Len(p) + Len(q) /\ ~(Len(p) + i <= Len(p)) /\ Len(p) + i - Len(p) = i
    BY <1>1
  <2> QED BY <2>1, <1>2
<1> QED BY <1>1, <1>3, <1>4 DEF pq

LEMMA GotFacts ==
  ASSUME InInv
  PROVE  /\ Got \in Seq(Nat) /\ Len(Got) \in Nat
         /\ Len(taken) \in Nat /\ Len(ibqueue) \in Nat
         /\ Len(Got) = Len(taken) + Len(ibqueue)
         /\ \A i \in 1 .. Len(taken) : Got[i] = taken[i]
         /\ \A i \in 1 .. Len(ibqueue) : Got[Len(taken) + i] = ibqueue[i]
<1> QED BY ConcatFacts DEF InInv, Got

\* CommandsInOrder without its LET.
LEMMA InOrder ==
  CommandsInOrder <=>
     /\ \A i \in 1 .. Len(Got) - 1 : Got[i] < Got[i + 1]
     /\ Len(Got) + (IF out = "done" THEN 1 ELSE 0) >= issued - events.disconnects
<1> QED BY DEF CommandsInOrder, Got

\* Read moves the oldest command, and nothing that was got changes.
LEMMA ReadGot ==
  ASSUME InInv, ibqueue # <<>>,
         taken' = Append(taken, Head(ibqueue)), ibqueue' = Tail(ibqueue)
  PROVE  /\ Got' = Got /\ taken' \in Seq(Nat) /\ ibqueue' \in Seq(Nat)
         /\ Len(ibqueue) \in Nat /\ Len(ibqueue') = Len(ibqueue) - 1
<1>1. /\ Len(ibqueue) \in Nat \ {0} /\ Head(ibqueue) = ibqueue[1] /\ Head(ibqueue) \in Nat
      /\ ibqueue' \in Seq(Nat) /\ Len(ibqueue') = Len(ibqueue) - 1
      /\ \A i \in 1 .. Len(ibqueue) - 1 : ibqueue'[i] = ibqueue[i + 1]
  BY TailFacts DEF InInv
<1>2. /\ taken' \in Seq(Nat) /\ Len(taken) \in Nat /\ Len(taken') = Len(taken) + 1
      /\ \A i \in 1 .. Len(taken) : taken'[i] = taken[i]
      /\ taken'[Len(taken) + 1] = ibqueue[1]
  BY <1>1, AppendFacts DEF InInv
<1>3. /\ Got' \in Seq(Nat) /\ Len(Got') = Len(taken') + Len(ibqueue')
      /\ \A i \in 1 .. Len(taken') : Got'[i] = taken'[i]
      /\ \A i \in 1 .. Len(ibqueue') : Got'[Len(taken') + i] = ibqueue'[i]
  BY <1>1, <1>2, ConcatFacts DEF Got
<1>4. /\ Got \in Seq(Nat) /\ Len(Got) = Len(taken) + Len(ibqueue)
      /\ \A i \in 1 .. Len(taken) : Got[i] = taken[i]
      /\ \A i \in 1 .. Len(ibqueue) : Got[Len(taken) + i] = ibqueue[i]
  BY GotFacts
<1>5. Len(Got') = Len(Got)
  BY <1>1, <1>2, <1>3, <1>4
<1>6. \A i \in 1 .. Len(Got) : Got'[i] = Got[i]
  <2> SUFFICES ASSUME NEW i \in 1 .. Len(Got) PROVE Got'[i] = Got[i]
    OBVIOUS
  <2>1. CASE i <= Len(taken)
    <3>1. i \in 1 .. Len(taken) /\ i \in 1 .. Len(taken')
      BY <2>1, <1>2
    <3> QED BY <3>1, <1>2, <1>3, <1>4
  <2>2. CASE i = Len(taken) + 1
    <3>1. i \in 1 .. Len(taken') /\ 1 \in 1 .. Len(ibqueue)
      BY <2>2, <1>1, <1>2
    <3>2. Got'[i] = ibqueue[1]
      BY <2>2, <3>1, <1>2, <1>3
    <3>3. Got[i] = ibqueue[1]
      BY <2>2, <3>1, <1>4
    <3> QED BY <3>2, <3>3
  <2>3. CASE i > Len(taken) + 1
    <3> DEFINE k == i - Len(taken')
    <3>1. k \in 1 .. Len(ibqueue') /\ i = Len(taken') + k
      BY <2>3, <1>1, <1>2, <1>4
    <3>2. k + 1 \in 1 .. Len(ibqueue) /\ i = Len(taken) + (k + 1)
      BY <2>3, <1>1, <1>2, <1>4
    <3> HIDE DEF k
    <3>3. Got'[i] = ibqueue'[k]
      BY <3>1, <1>3
    <3>4. Got[i] = ibqueue[k + 1]
      BY <3>2, <1>4
    <3>5. ibqueue'[k] = ibqueue[k + 1]
      BY <3>1, <1>1
    <3> QED BY <3>3, <3>4, <3>5
  <2> QED BY <2>1, <2>2, <2>3, <1>2, <1>4
<1>7. Got' = Got
  BY <1>3, <1>4, <1>5, <1>6, SeqEqual
<1> QED BY <1>1, <1>2, <1>7

\* received() adds a command after all others.
LEMMA ReceivedGot ==
  ASSUME InInv, ibqueue' = Append(ibqueue, issued), UNCHANGED taken
  PROVE  /\ ibqueue' \in Seq(Nat) /\ Len(ibqueue) \in Nat
         /\ Len(ibqueue') = Len(ibqueue) + 1
         /\ Len(Got) \in Nat /\ Len(Got') = Len(Got) + 1
         /\ \A i \in 1 .. Len(Got) : Got'[i] = Got[i]
         /\ Got'[Len(Got) + 1] = issued
<1>1. /\ ibqueue' \in Seq(Nat) /\ Len(ibqueue) \in Nat
      /\ Len(ibqueue') = Len(ibqueue) + 1
      /\ \A i \in 1 .. Len(ibqueue) : ibqueue'[i] = ibqueue[i]
      /\ ibqueue'[Len(ibqueue) + 1] = issued
  BY AppendFacts DEF InInv
<1>2. /\ Len(Got') = Len(taken) + Len(ibqueue')
      /\ \A i \in 1 .. Len(taken) : Got'[i] = taken[i]
      /\ \A i \in 1 .. Len(ibqueue') : Got'[Len(taken) + i] = ibqueue'[i]
  BY <1>1, ConcatFacts DEF Got, InInv
<1>3. /\ Len(Got) = Len(taken) + Len(ibqueue) /\ Len(taken) \in Nat /\ Len(Got) \in Nat
      /\ \A i \in 1 .. Len(taken) : Got[i] = taken[i]
      /\ \A i \in 1 .. Len(ibqueue) : Got[Len(taken) + i] = ibqueue[i]
  BY GotFacts
<1>4. Len(Got') = Len(Got) + 1
  BY <1>1, <1>2, <1>3
<1>5. Got'[Len(Got) + 1] = issued
  <2>1. Len(Got) + 1 = Len(taken) + (Len(ibqueue) + 1)
        /\ Len(ibqueue) + 1 \in 1 .. Len(ibqueue')
    BY <1>1, <1>3
  <2> QED BY <2>1, <1>1, <1>2
<1>6. \A i \in 1 .. Len(Got) : Got'[i] = Got[i]
  <2> SUFFICES ASSUME NEW i \in 1 .. Len(Got) PROVE Got'[i] = Got[i]
    OBVIOUS
  <2>1. CASE i <= Len(taken)
    <3>1. i \in 1 .. Len(taken)
      BY <2>1, <1>3
    <3> QED BY <3>1, <1>2, <1>3
  <2>2. CASE i > Len(taken)
    <3> DEFINE k == i - Len(taken)
    <3>1. k \in 1 .. Len(ibqueue) /\ k \in 1 .. Len(ibqueue') /\ i = Len(taken) + k
      BY <2>2, <1>1, <1>3
    <3> HIDE DEF k
    <3> QED BY <3>1, <1>1, <1>2, <1>3
  <2> QED BY <2>1, <2>2, <1>3
<1> QED BY <1>1, <1>3, <1>4, <1>5, <1>6

\* What is left to show of a step: the commands, and that none is due unserved.
LEMMA InFromParts ==
  ASSUME InInv,
         ibqueue' \in Seq(Nat), Len(ibqueue') <= BUFFERS,
         issued' \in Nat, taken' \in Seq(Nat),
         out' \in {"idle", "busy", "done"}, usb' \in {"ready", "active", "suspended"},
         events' \in [disconnects : Nat, suspends : Nat],
         usb' = "ready" => out' = "idle",
         usb' = "suspended" => events'.suspends > 0,
         out' # "idle" => Len(ibqueue') < BUFFERS,
         \A i \in 1 .. Len(Got') : Got'[i] <= issued' /\ (out' = "done" => Got'[i] < issued'),
         \A i \in 1 .. Len(Got') - 1 : Got'[i] < Got'[i + 1],
         Len(Got') + (IF out' = "done" THEN 1 ELSE 0) >= issued' - events'.disconnects,
         InputNeverStalls'
  PROVE  InInv'
<1>1. CommandsInOrder'
  BY DEF CommandsInOrder, Got
<1> QED BY <1>1 DEF InInv

LEMMA ReadBufferStep ==
  ASSUME InInv, ReadBuffer PROVE InInv'
<1>1. /\ ibqueue # <<>> /\ taken' = Append(taken, Head(ibqueue)) /\ ibqueue' = Tail(ibqueue)
      /\ out' = StartReceive(usb, enabled, ibqueue', out)
      /\ UNCHANGED <<usb, enabled, issued, events>>
  BY DEF ReadBuffer, bus
<1>2. /\ Got' = Got /\ taken' \in Seq(Nat) /\ ibqueue' \in Seq(Nat)
      /\ Len(ibqueue) \in Nat /\ Len(ibqueue') = Len(ibqueue) - 1
  BY <1>1, ReadGot
<1>3. /\ out' \in {out, "busy"}
      /\ out' # out => usb = "active" /\ out = "idle"
      /\ Usable(usb, enabled) /\ Len(ibqueue') < BUFFERS => out' # "idle"
  BY <1>1 DEF StartReceive, Usable
<1>4. BUFFERS \in Nat /\ Len(ibqueue') < BUFFERS
  BY <1>2, FastBusAssumption DEF FastBusAssumption, InInv
<1>5. InputNeverStalls'
  BY <1>1, <1>3 DEF InputNeverStalls, Usable
<1>6. out' = "done" <=> out = "done"
  BY <1>3 DEF InInv
<1>7. /\ \A i \in 1 .. Len(Got) - 1 : Got[i] < Got[i + 1]
      /\ Len(Got) + (IF out = "done" THEN 1 ELSE 0) >= issued - events.disconnects
  BY InOrder DEF InInv
<1> QED BY <1>1, <1>2, <1>3, <1>4, <1>5, <1>6, <1>7, InFromParts DEF InInv

LEMMA ReceivedStep ==
  ASSUME InInv, Received PROVE InInv'
<1>1. /\ out = "done" /\ usb = "active" /\ ibqueue' = Append(ibqueue, issued)
      /\ out' = StartReceive(usb, enabled, ibqueue', "idle")
      /\ UNCHANGED <<usb, enabled, issued, taken, events>>
  BY DEF Received, bus
<1>2. /\ ibqueue' \in Seq(Nat) /\ Len(ibqueue) \in Nat
      /\ Len(ibqueue') = Len(ibqueue) + 1
      /\ Len(Got) \in Nat /\ Len(Got') = Len(Got) + 1
      /\ \A i \in 1 .. Len(Got) : Got'[i] = Got[i]
      /\ Got'[Len(Got) + 1] = issued
  BY <1>1, ReceivedGot
<1>3. /\ out' \in {"idle", "busy"}
      /\ out' = "busy" => Len(ibqueue') < BUFFERS
      /\ Usable(usb, enabled) /\ Len(ibqueue') < BUFFERS => out' # "idle"
  BY <1>1 DEF StartReceive, Usable
<1>4. BUFFERS \in Nat /\ Len(ibqueue') <= BUFFERS
  BY <1>1, <1>2, FastBusAssumption DEF FastBusAssumption, InInv
<1>5. InputNeverStalls'
  BY <1>1, <1>3 DEF InputNeverStalls, Usable
<1>6. \A i \in 1 .. Len(Got) : Got[i] < issued
  BY <1>1 DEF InInv
<1>7. /\ \A i \in 1 .. Len(Got) - 1 : Got[i] < Got[i + 1]
      /\ Len(Got) + 1 >= issued - events.disconnects
  BY <1>1, InOrder DEF InInv
<1>8. \A i \in 1 .. Len(Got') : Got'[i] <= issued
  <2>1. issued \in Nat /\ \A i \in 1 .. Len(Got) : Got[i] <= issued
    BY DEF InInv
  <2> QED BY <2>1, <1>2
<1>9. \A i \in 1 .. Len(Got') - 1 : Got'[i] < Got'[i + 1]
  <2> SUFFICES ASSUME NEW i \in 1 .. Len(Got) PROVE Got'[i] < Got'[i + 1]
    BY <1>2
  <2>1. CASE i = Len(Got)
    BY <2>1, <1>2, <1>6
  <2>2. CASE i < Len(Got)
    <3>1. i \in 1 .. Len(Got) - 1 /\ i + 1 \in 1 .. Len(Got)
      BY <2>2, <1>2
    <3> QED BY <3>1, <1>2, <1>7
  <2> QED BY <2>1, <2>2, <1>2
<1>10. Len(Got') >= issued - events.disconnects
  BY <1>2, <1>7
<1>11. /\ usb' \in {"ready", "active", "suspended"} /\ usb' = "active"
       /\ events' \in [disconnects : Nat, suspends : Nat]
       /\ issued' \in Nat /\ taken' \in Seq(Nat)
  BY <1>1 DEF InInv
<1> QED BY <1>1, <1>2, <1>3, <1>4, <1>5, <1>8, <1>9, <1>10, <1>11, InFromParts

LEMMA HostSendsStep ==
  ASSUME InInv, HostSends PROVE InInv'
<1>1. /\ usb = "active" /\ out = "busy" /\ out' = "done" /\ issued' = issued + 1
      /\ UNCHANGED <<usb, enabled, ibqueue, taken, events>>
  BY DEF HostSends, bus
<1>2. Got' = Got /\ Len(Got) \in Nat /\ Got \in Seq(Nat)
  BY <1>1, GotFacts DEF Got
<1>3. /\ \A i \in 1 .. Len(Got) - 1 : Got[i] < Got[i + 1]
      /\ Len(Got) >= issued - events.disconnects
      /\ \A i \in 1 .. Len(Got) : Got[i] <= issued /\ Got[i] \in Nat
  BY <1>1, <1>2, InOrder DEF InInv
<1>4. InputNeverStalls'
  BY <1>1 DEF InputNeverStalls
<1>5. /\ issued \in Nat /\ events.disconnects \in Nat
  BY DEF InInv
<1>6. \A i \in 1 .. Len(Got') : Got'[i] < issued' /\ Got'[i] <= issued'
  BY <1>1, <1>2, <1>3, <1>5
<1>7. Len(Got') + 1 >= issued' - events'.disconnects
  BY <1>1, <1>2, <1>3, <1>5
<1> QED BY <1>1, <1>2, <1>3, <1>4, <1>5, <1>6, <1>7, InFromParts DEF InInv

\* A reset drops the transfer, and the command that was due with it.
LEMMA EventInStep ==
  ASSUME InInv, CpuInv, UsbEvent PROVE InInv'
<1>1. /\ UNCHANGED <<ibqueue, issued, taken>>
      /\ usb' \in {"ready", "active", "suspended"}
  BY DEF UsbEvent, Configured, Disconnected, Suspend, Wakeup, input, InInv
<1>2. Got' = Got /\ Len(Got) \in Nat
  BY <1>1, GotFacts DEF Got
<1>3. /\ \A i \in 1 .. Len(Got) - 1 : Got[i] < Got[i + 1]
      /\ Len(Got) + (IF out = "done" THEN 1 ELSE 0) >= issued - events.disconnects
  BY InOrder DEF InInv
<1>4. events.disconnects \in Nat /\ events.suspends \in Nat /\ issued \in Nat
  BY DEF InInv
<1>5. CASE Configured
  <2>1. /\ usb = "ready" /\ usb' = "active" /\ UNCHANGED events
        /\ out' \in {"idle", "busy"} /\ (out' = "busy" => Len(ibqueue) < BUFFERS)
        /\ Len(ibqueue) < BUFFERS => out' # "idle"
    BY <1>5 DEF Configured, StartReceive, Usable
  <2>2. InputNeverStalls'
    BY <1>1, <2>1 DEF InputNeverStalls
  <2>3. out # "done"
    BY <2>1 DEF InInv
  <2> QED BY <1>1, <1>2, <1>3, <2>1, <2>2, <2>3, InFromParts DEF InInv
<1>6. CASE Disconnected
  <2>1. /\ usb' = "ready" /\ out' = "idle"
        /\ events' = [events EXCEPT !.disconnects = @ + 1]
    BY <1>6 DEF Disconnected
  <2>2. InputNeverStalls'
    BY <2>1 DEF InputNeverStalls, Usable
  <2>3. /\ events' \in [disconnects : Nat, suspends : Nat]
        /\ events'.disconnects = events.disconnects + 1
    <3>1. events \in [disconnects : Nat, suspends : Nat]
      BY DEF InInv
    <3>2. events'.disconnects = events.disconnects + 1
      BY <2>1, <3>1
    <3>3. events' \in [disconnects : Nat, suspends : Nat]
      BY <2>1, <3>1
    <3> QED BY <3>2, <3>3
  <2>4. Len(Got') + 0 >= issued' - events'.disconnects
    BY <1>1, <1>2, <1>3, <1>4, <2>3
  <2> QED BY <1>1, <1>2, <1>3, <2>1, <2>2, <2>3, <2>4, InFromParts DEF InInv
<1>7. CASE Suspend
  <2>1. /\ usb = "active" /\ usb' = "suspended" /\ UNCHANGED out
        /\ events' = [events EXCEPT !.suspends = @ + 1]
    BY <1>7 DEF Suspend, input
  <2>2. InputNeverStalls'
    BY <2>1 DEF InputNeverStalls, Usable
  <2>3. /\ events' \in [disconnects : Nat, suspends : Nat]
        /\ events'.disconnects = events.disconnects
    <3>1. events \in [disconnects : Nat, suspends : Nat]
      BY DEF InInv
    <3>2. events'.disconnects = events.disconnects
      BY <2>1, <3>1
    <3>3. events' \in [disconnects : Nat, suspends : Nat]
      BY <2>1, <3>1
    <3> QED BY <3>2, <3>3
  <2>4. events'.suspends = events.suspends + 1
    BY <2>1 DEF InInv
  <2>5. events'.suspends > 0
    BY <1>4, <2>4
  <2> QED BY <1>1, <1>2, <1>3, <2>1, <2>2, <2>3, <2>5, InFromParts DEF InInv
<1>8. CASE Wakeup
  <2>1. /\ usb = "suspended" /\ usb' = "active" /\ UNCHANGED <<out, events>>
    BY <1>8 DEF Wakeup, input
  <2>2. InputNeverStalls'
    BY <1>4, <2>1 DEF InputNeverStalls, InInv
  <2> QED BY <1>1, <1>2, <1>3, <2>1, <2>2, InFromParts DEF InInv
<1> QED BY <1>5, <1>6, <1>7, <1>8 DEF UsbEvent

LEMMA InStep ==
  ASSUME InInv, CpuInv, Next PROVE InInv'
<1>1. CASE UNCHANGED <<input, bus, events>>
  BY <1>1 DEF input, bus, InInv, InputNeverStalls, CommandsInOrder, Got
<1>2. CASE Write \/ ReadReturn \/ KernelCall \/ HostReceives \/ Transmitted
  <2>1. UNCHANGED <<input, bus, events>>
    BY <1>2 DEF Write, ReadReturn, KernelCall, HostReceives, Transmitted, input
  <2> QED BY <1>1, <2>1
<1> QED BY <1>2, ReadBufferStep, ReceivedStep, HostSendsStep, EventInStep
        DEF Next, Thread, Host, Callbacks

----------------------------------------------------------------------------
LEMMA BusStep ==
  ASSUME BusInv, [Next]_vars PROVE BusInv'
<1>1. CASE Next
  BY <1>1, CpuStep, OutStep, InStep DEF BusInv
<1>2. CASE UNCHANGED vars
  BY <1>2 DEF vars, bus, output, input, cpu, BusInv, OutInv, InInv, CpuInv, Got,
              FramesShownInOrder, CommandsInOrder, InputNeverStalls
<1> QED BY <1>1, <1>2

THEOREM BusInvariant == Spec => []BusInv
<1> QED BY BusInit, BusStep, PTL DEF Spec

\* The bus holds what it can hold, whatever the thread, the host and the events
\* do (fast_bus.cpp as a whole).
THEOREM BusTypeCorrect == Spec => []BusTypeOK
<1>1. BusInv => BusTypeOK
  BY Zenon DEF BusInv, OutInv, InInv, CpuInv, BusTypeOK
<1> QED BY <1>1, BusInvariant, PTL

\* Frames get to the host in the order of their Writes, none lost and none
\* twice but for a reset before the callback (transmitted, fast_bus.cpp:167).
THEOREM FramesKeepOrder == Spec => []FramesShownInOrder
<1>1. BusInv => FramesShownInOrder
  BY DEF BusInv, OutInv
<1> QED BY <1>1, BusInvariant, PTL

\* Commands get to the thread in order and once, and each reset loses at most
\* one (received, fast_bus.cpp:195, and ReadBufferTimeout).
THEOREM CommandsKeepOrder == Spec => []CommandsInOrder
<1>1. BusInv => CommandsInOrder
  BY DEF BusInv, InInv
<1> QED BY <1>1, BusInvariant, PTL

\* Reception goes on as long as there is a buffer (start_receive,
\* fast_bus.cpp:207), until the first suspend.
THEOREM InputGoesOn == Spec => []InputNeverStalls
<1>1. BusInv => InputNeverStalls
  BY DEF BusInv, InInv
<1> QED BY <1>1, BusInvariant, PTL

----------------------------------------------------------------------------
(* The radio thread at its end.                                             *)

\* What the thread does to the pipe is a step of FastBus, or nothing.
LEMMA LoopUsesBus == Loop => [Next]_vars
<1>1. Poll => Next
  BY DEF Poll, Next, Thread
<1>2. Receive => Next
  BY DEF Receive, Next, Thread
<1>3. ReadCommand => Next
  BY DEF ReadCommand, Next, Thread
<1>4. Obey => Next
  BY DEF Obey, Next, Thread
<1>5. Doze => Next
  BY DEF Doze, Next, Thread
<1> QED BY <1>1, <1>2, <1>3, <1>4, <1>5 DEF Loop

\* So is every step of the composition: the interrupts and the host act on the
\* pipe as FastBus says, and the rest leaves it alone.
LEMMA ThreadUsesBus == [ThreadNext]_threadVars => [Next]_vars
<1>1. CASE Loop
  BY <1>1, LoopUsesBus
<1>2. CASE Tick \/ FrameArrives \/ Extcb1
  BY <1>2 DEF Tick, FrameArrives, Extcb1
<1>3. CASE CommandArrives
  BY <1>3 DEF CommandArrives, Next, Callbacks
<1>4. CASE Usb(Host) \/ Usb(Transmitted) \/ Usb(UsbEvent)
  BY <1>4 DEF Usb, Next, Callbacks
<1>5. CASE UNCHANGED threadVars
  BY <1>5 DEF threadVars
<1> QED BY <1>1, <1>2, <1>3, <1>4, <1>5 DEF ThreadNext

\* The composition implements FastBus: for any number of buffers, frames,
\* commands and USB events, whenever the thread sleeps and whatever the radio does.
THEOREM ThreadImplementsBus == ThreadSpec => Spec
<1>1. ThreadInit => Init
  BY DEF ThreadInit
<1> QED BY <1>1, ThreadUsesBus, PTL DEF ThreadSpec, Spec

\* The order of frames, with the thread that writes them.
THEOREM ThreadKeepsFrameOrder == ThreadSpec => []FramesShownInOrder
  BY ThreadImplementsBus, FramesKeepOrder, PTL

\* The order of commands, with the thread that reads them.
THEOREM ThreadKeepsCommandOrder == ThreadSpec => []CommandsInOrder
  BY ThreadImplementsBus, CommandsKeepOrder, PTL

\* Reception goes on, wherever the thread stands.
THEOREM ThreadKeepsReceiving == ThreadSpec => []InputNeverStalls
  BY ThreadImplementsBus, InputGoesOn, PTL

----------------------------------------------------------------------------
\* The thread's own variables; timecount is below its limit while the thread
\* is suspended, or it would go past it.
LoopInv ==
    /\ pc \in {"poll", "receive", "read", "obey", "doze", "asleep"}
    /\ sleep \in BOOLEAN /\ timecount \in 0 .. TICKS
    /\ pc = "asleep" => timecount < TICKS
    /\ mode \in {"rx", "standby"} /\ fifo \in BOOLEAN /\ held \in BOOLEAN
    /\ due \in BOOLEAN

LEMMA LoopInit == ThreadInit => LoopInv
<1>1. 0 \in 0 .. TICKS
  BY ThreadAssumption
<1> QED BY <1>1 DEF ThreadInit, LoopInv

LEMMA LoopStep == LoopInv /\ [ThreadNext]_threadVars => LoopInv'
<1> SUFFICES ASSUME LoopInv, [ThreadNext]_threadVars PROVE LoopInv'
  OBVIOUS
<1> USE ThreadAssumption DEF LoopInv
<1>1. CASE Poll
  BY <1>1 DEF Poll
<1>2. CASE Receive
  BY <1>2 DEF Receive, Listen
<1>3. CASE ReadCommand
  BY <1>3 DEF ReadCommand, radio
<1>4. CASE Obey
  BY <1>4 DEF Obey
<1>5. CASE Doze
  BY <1>5 DEF Doze, radio
<1>6. CASE Tick
  BY <1>6 DEF Tick, radio
<1>7. CASE FrameArrives
  BY <1>7 DEF FrameArrives, loop
<1>8. CASE Extcb1
  BY <1>8 DEF Extcb1, Resume, radio
<1>9. CASE CommandArrives
  BY <1>9 DEF CommandArrives, Resume, radio
<1>10. CASE Usb(Host) \/ Usb(Transmitted) \/ Usb(UsbEvent)
  BY <1>10 DEF Usb, loop, radio
<1>11. CASE UNCHANGED threadVars
  BY <1>11 DEF threadVars, loop, radio
<1> QED BY <1>1, <1>2, <1>3, <1>4, <1>5, <1>6, <1>7, <1>8, <1>9, <1>10, <1>11
        DEF ThreadNext, Loop

\* Type correctness of thread, radio and pipe together.
THEOREM ThreadTypeCorrect == ThreadSpec => []ThreadTypeOK
<1>1. ThreadSpec => []LoopInv
  BY LoopInit, LoopStep, PTL DEF ThreadSpec
<1>2. ThreadSpec => []BusTypeOK
  BY ThreadImplementsBus, BusTypeCorrect, PTL
<1>3. LoopInv /\ BusTypeOK => ThreadTypeOK
  BY DEF LoopInv, ThreadTypeOK
<1> QED BY <1>1, <1>2, <1>3, PTL
=============================================================================
