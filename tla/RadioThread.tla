---------------------------- MODULE RadioThread ----------------------------
(* The gateway's Thread1 (rf_sensor_v3/main.cpp) at work on its two sides,  *)
(* the radio and the FastBus: how it sleeps and wakes, what it reads and    *)
(* writes, and the interrupts of both, whose callbacks resume it and do     *)
(* nothing while it is awake.                                               *)
EXTENDS FastBusProps

CONSTANTS
    TICKS,    \* one-second suspends before the thread gives up waiting
    FRAMES    \* bound: frames for the host

ASSUME ThreadAssumption == TICKS \in Nat \ {0} /\ FRAMES \in Nat

VARIABLES
    pc,         \* what Thread1 does next
    sleep,      \* Thread1's local: nothing happened in this round so far
    timecount,  \* Thread1's local: seconds suspended
    mode,       \* RFM69::_mode, "rx" or "standby"
    fifo,       \* a frame is in the radio (PAYLOADREADY); DIO0 is up in "rx"
    held,       \* a frame is in RFM69::DATA (PAYLOADLEN > 0) in mode "rx"
    due         \* DIO0 has risen and extcb1 is still to run

loop == <<pc, sleep, timecount>>
radio == <<mode, fifo, held>>
threadVars == <<vars, loop, radio, due>>

\* initialize() leaves the radio in standby.
ThreadInit == /\ Init
              /\ pc = "poll" /\ sleep = FALSE /\ timecount = 0
              /\ mode = "standby" /\ fifo = FALSE /\ held = FALSE /\ due = FALSE

----------------------------------------------------------------------------
\* irq.Get() and isr0, which fetches the frame and leaves the radio in "rx".
Poll ==
    /\ pc = "poll" /\ pc' = "receive"
    /\ LET line == fifo /\ mode = "rx" IN
       /\ sleep' = ~line
       /\ held' = (held \/ line)
       /\ fifo' = (fifo /\ ~line)
    /\ KernelCall
    /\ UNCHANGED <<timecount, mode, due>>

\* Mutation of Listen: receiveBegin is missing.
ListenNot == UNCHANGED mode

\* receiveDone with no frame: the radio listens, its fifo restarted if it did
\* not yet.
Listen == mode' = "rx"

\* receiveDone: fetches a frame that has come in since (over an earlier one);
\* with a frame, the round passes it on to the host and answers it, which ends
\* in standby.
Receive ==
    /\ pc = "receive" /\ pc' = "read"
    /\ \/ mode = "rx" /\ (fifo \/ held) /\ mode' = "standby" /\ Write
       \/ ~(mode = "rx" /\ (fifo \/ held)) /\ Listen /\ KernelCall
    /\ fifo' = FALSE /\ held' = FALSE
    /\ UNCHANGED <<sleep, timecount, due>>

\* FastBus1.Read: a command, or none.
ReadCommand ==
    /\ pc = "read"
    /\ \/ ReadBuffer /\ UNCHANGED pc
       \/ ReadReturn /\ pc' = "obey"
       \/ ibqueue = <<>> /\ KernelCall /\ pc' = "doze"
    /\ UNCHANGED <<sleep, timecount, radio, due>>

\* 0x2001 changes the id table only, and 0x2000 may be answered.  0x1000 sends a
\* frame: what comes in meanwhile is dropped, and the radio is left as the last
\* receiveDone left it.
Obey ==
    /\ pc = "obey" /\ pc' = "doze"
    /\ sleep' = FALSE
    /\ \/ ((written < FRAMES /\ Write) \/ KernelCall) /\ UNCHANGED <<mode, fifo>>
       \/ KernelCall /\ mode' \in {"rx", "standby"} /\ fifo' = FALSE
    /\ UNCHANGED <<timecount, held, due>>

\* if (sleep): the thread suspends itself on trp.
Doze ==
    /\ pc = "doze"
    /\ pc' = IF sleep THEN "asleep" ELSE "poll"
    /\ timecount' = 0
    /\ KernelCall
    /\ UNCHANGED <<sleep, radio, due>>

\* Mutation of Tick: no limit to the suspends.
TickForever == pc = "asleep" /\ UNCHANGED threadVars

\* chThdSuspendTimeoutS times out: again, up to TICKS times.
Tick ==
    /\ pc = "asleep"
    /\ timecount' = timecount + 1
    /\ pc' = IF timecount' < TICKS THEN "asleep" ELSE "poll"
    /\ UNCHANGED <<vars, sleep, radio, due>>

----------------------------------------------------------------------------
\* chThdResumeI(&trp, ...): nothing unless the thread is suspended on trp.
Resume == pc' = IF pc = "asleep" THEN "poll" ELSE pc

\* The radio gets a frame, up to the bound of frames for the host, and DIO0
\* rises; extcb1 runs when the kernel lock lets it.
FrameArrives ==
    /\ mode = "rx" /\ ~fifo /\ written < FRAMES
    /\ fifo' = TRUE /\ due' = TRUE
    /\ UNCHANGED <<vars, loop, mode, held>>

Extcb1 ==
    /\ due /\ ~locked
    /\ due' = FALSE
    /\ Resume
    /\ UNCHANGED <<vars, sleep, timecount, radio>>

\* ep4out_handler.
CommandArrives ==
    /\ Received
    /\ Resume
    /\ UNCHANGED <<sleep, timecount, radio, due>>

Loop == Poll \/ Receive \/ ReadCommand \/ Obey \/ Doze

Usb(action) == action /\ UNCHANGED <<loop, radio, due>>

ThreadNext == \/ Loop \/ Tick \/ FrameArrives \/ Extcb1 \/ CommandArrives
              \/ Usb(Host) \/ Usb(Transmitted) \/ Usb(UsbEvent)

\* The thread, the kernel's timer and the host run, the host configures and
\* wakes the device, and the interrupts of the USB are served once the lock is
\* left.  Frames and commands need not come.
Fairness ==
    /\ WF_threadVars(Loop) /\ WF_threadVars(Tick)
    /\ WF_threadVars(Usb(HostReceives)) /\ WF_threadVars(Usb(Configured))
    /\ WF_threadVars(Usb(Wakeup))
    /\ SF_threadVars(Usb(Transmitted)) /\ SF_threadVars(CommandArrives)

ThreadSpec == ThreadInit /\ [][ThreadNext]_threadVars /\ Fairness

----------------------------------------------------------------------------
\* Type invariant.
ThreadTypeOK ==
    /\ BusTypeOK
    /\ pc \in {"poll", "receive", "read", "obey", "doze", "asleep"}
    /\ sleep \in BOOLEAN /\ timecount \in 0 .. TICKS
    /\ mode \in {"rx", "standby"} /\ fifo \in BOOLEAN /\ held \in BOOLEAN
    /\ due \in BOOLEAN

\* The wake-ups that come while the thread is awake are lost, and the timeout
\* makes up for it: a command is served (CommandsAreServed), a frame leaves the
\* fifo, and a gateway whose radio was left in standby listens again.
FifoIsRead == fifo ~> ~fifo
ListensAgain == mode = "standby" ~> mode = "rx"
=============================================================================
