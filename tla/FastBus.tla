------------------------------ MODULE FastBus ------------------------------
(* The USB bulk pipe between the radio thread and the host:                 *)
(* rf_sensor_v3/fast_bus.cpp and the endpoint handlers and usb_event of     *)
(* usbcfg.cpp.  Frames for the host go through obqueue and the IN endpoint, *)
(* commands of the host through the OUT endpoint and ibqueue.  Callbacks    *)
(* run in interrupts, which the kernel lock keeps out.                      *)
EXTENDS Integers, Sequences

CONSTANTS
    BUFFERS,         \* FAST_BUS_BUFFERS_NUMBER, per direction
    COMMANDS,        \* bounds: commands sent,
    DISCONNECTS,     \* bus resets or deconfigurations,
    SUSPENDS         \* and suspends explored

ASSUME FastBusAssumption ==
    /\ BUFFERS \in Nat \ {0}
    /\ {COMMANDS, DISCONNECTS, SUSPENDS} \subseteq Nat

VARIABLES
    usb,         \* the driver's state: "ready", "active" or "suspended"
    enabled,     \* USBFastBus::enabled
    obqueue,     \* the full output buffers, the one being sent included
    in,          \* the IN endpoint: "idle", "busy", or "done": sent, callback due
    ibqueue,     \* the full input buffers
    out,         \* the OUT endpoint: "idle", "busy" or "done"
    thread,      \* the radio thread: "running", or in Read: "reading"
    locked,      \* the kernel lock is held by the thread
    written,     \* frames accepted so far; frame k is the k-th
    shown,       \* the last frame the host got
    issued,      \* commands the host has sent so far
    taken,       \* the commands the thread got
    events       \* USB events so far: a bound, not code

bus == <<usb, enabled>>
output == <<obqueue, in, written, shown>>
input == <<ibqueue, out, issued, taken>>
cpu == <<thread, locked>>
vars == <<bus, output, input, cpu, events>>

Init == /\ usb = "ready" /\ enabled = FALSE
        /\ obqueue = <<>> /\ in = "idle" /\ written = 0 /\ shown = 0
        /\ ibqueue = <<>> /\ out = "idle" /\ issued = 0 /\ taken = <<>>
        /\ thread = "running" /\ locked = FALSE
        /\ events = [disconnects |-> 0, suspends |-> 0]

----------------------------------------------------------------------------
\* start_receive and obnotify do nothing unless the bus can carry data.
Usable(u, e) == e /\ u = "active"

\* start_receive: the OUT endpoint gets an empty buffer, unless it has one.
\* The buffer it fills is not among the full ones of q.
StartReceive(u, e, q, o) ==
    IF Usable(u, e) /\ o = "idle" /\ Len(q) < BUFFERS THEN "busy" ELSE o

\* obnotify: a frame was posted; the IN endpoint gets the oldest one if idle.
StartTransmit(q, i) ==
    IF Usable(usb, enabled) /\ i = "idle" /\ q # <<>> THEN "busy" ELSE i

\* Write: the frame gets a buffer and obqFlush posts it; with no empty buffer
\* within the timeout it is dropped.  The queue's functions take and leave
\* the kernel lock.
Write ==
    /\ thread = "running"
    /\ \/ /\ Len(obqueue) < BUFFERS
          /\ written' = written + 1
          /\ obqueue' = Append(obqueue, written + 1)
          /\ in' = StartTransmit(obqueue', in)
       \/ /\ Len(obqueue) = BUFFERS
          /\ UNCHANGED <<written, obqueue, in>>
    /\ locked' = FALSE
    /\ UNCHANGED <<bus, shown, input, thread, events>>

\* Mutations of ReadBuffer: the buffer is not released; ibnotify is missing.
ReadBufferAgain ==
    /\ thread = "running" /\ ibqueue # <<>>
    /\ taken' = Append(taken, Head(ibqueue))
    /\ thread' = "reading" /\ locked' = FALSE
    /\ UNCHANGED <<bus, output, ibqueue, out, issued, events>>

ReadBufferQuietly ==
    /\ thread = "running" /\ ibqueue # <<>>
    /\ taken' = Append(taken, Head(ibqueue)) /\ ibqueue' = Tail(ibqueue)
    /\ thread' = "reading" /\ locked' = FALSE
    /\ UNCHANGED <<bus, output, out, issued, events>>

\* Read as the radio thread calls it (128 bytes, TIME_IMMEDIATE), up to line
\* 159: a transfer is at most 64 bytes, one chunk takes the whole buffer, which
\* goes back to the queue (ibnotify), and the lock is left.
ReadBuffer ==
    /\ thread = "running" /\ ibqueue # <<>>
    /\ taken' = Append(taken, Head(ibqueue))
    /\ ibqueue' = Tail(ibqueue)
    /\ out' = StartReceive(usb, enabled, ibqueue', out)
    /\ thread' = "reading" /\ locked' = FALSE
    /\ UNCHANGED <<bus, output, issued, events>>

\* Less than n bytes were read: the lock is taken for the next chunk, there
\* is no buffer at hand, and Read returns with the lock.
ReadReturn ==
    /\ thread = "reading"
    /\ thread' = "running" /\ locked' = TRUE
    /\ UNCHANGED <<bus, output, input, events>>

\* A Read that finds no buffer, like any other kernel call of the thread, ends
\* by leaving the lock.
KernelCall ==
    /\ thread = "running"
    /\ locked' = FALSE
    /\ UNCHANGED <<bus, output, input, thread, events>>

----------------------------------------------------------------------------
\* The host polls the IN endpoint and gets the buffer; and ep4in_handler,
\* transmitted(): the buffer is released and the next one sent.
HostReceives ==
    /\ usb = "active" /\ in = "busy"
    /\ in' = "done" /\ shown' = Head(obqueue)
    /\ UNCHANGED <<bus, obqueue, written, input, cpu, events>>

Transmitted ==
    /\ ~locked /\ usb = "active" /\ in = "done"
    /\ IF enabled
       THEN /\ obqueue' = Tail(obqueue)
            /\ in' = IF obqueue' # <<>> THEN "busy" ELSE "idle"
       ELSE /\ in' = "idle"
            /\ UNCHANGED obqueue
    /\ UNCHANGED <<bus, written, shown, input, cpu, events>>

\* The host writes a command to the OUT endpoint; and ep4out_handler,
\* received(): the buffer is posted and the next reception started.
HostSends ==
    /\ usb = "active" /\ out = "busy" /\ issued < COMMANDS
    /\ out' = "done" /\ issued' = issued + 1
    /\ UNCHANGED <<bus, output, ibqueue, taken, cpu, events>>

Received ==
    /\ ~locked /\ usb = "active" /\ out = "done"
    /\ ibqueue' = Append(ibqueue, issued)
    /\ out' = StartReceive(usb, enabled, ibqueue', "idle")
    /\ UNCHANGED <<bus, output, issued, taken, cpu, events>>

----------------------------------------------------------------------------
\* USB_EVENT_CONFIGURED: the endpoints are initialised, FastBus is enabled
\* and reception starts.  The queues are as they were.
Configured ==
    /\ ~locked /\ usb = "ready"
    /\ usb' = "active" /\ enabled' = TRUE
    /\ out' = StartReceive("active", TRUE, ibqueue, "idle")
    /\ in' = "idle"
    /\ UNCHANGED <<obqueue, written, shown, ibqueue, issued, taken, cpu, events>>

\* Mutation of Disconnected: the output queue is reset as well.
DisconnectedAndReset ==
    /\ ~locked /\ usb # "ready" /\ events.disconnects < DISCONNECTS
    /\ usb' = "ready" /\ in' = "idle" /\ out' = "idle" /\ obqueue' = <<>>
    /\ events' = [events EXCEPT !.disconnects = @ + 1]
    /\ UNCHANGED <<enabled, written, shown, ibqueue, issued, taken, cpu>>

\* USB_EVENT_RESET and USB_EVENT_UNCONFIGURED: the driver drops the transfers
\* of the endpoints, one whose callback is due included; FastBus is not told.
Disconnected ==
    /\ ~locked /\ usb # "ready" /\ events.disconnects < DISCONNECTS
    /\ usb' = "ready" /\ in' = "idle" /\ out' = "idle"
    /\ events' = [events EXCEPT !.disconnects = @ + 1]
    /\ UNCHANGED <<enabled, obqueue, written, shown, ibqueue, issued, taken, cpu>>

\* USB_EVENT_SUSPEND and USB_EVENT_WAKEUP: the driver's state changes, the
\* transfers stay.
Suspend ==
    /\ ~locked /\ usb = "active" /\ events.suspends < SUSPENDS
    /\ usb' = "suspended"
    /\ events' = [events EXCEPT !.suspends = @ + 1]
    /\ UNCHANGED <<enabled, output, input, cpu>>

Wakeup ==
    /\ ~locked /\ usb = "suspended"
    /\ usb' = "active"
    /\ UNCHANGED <<enabled, output, input, cpu, events>>

Thread == Write \/ ReadBuffer \/ ReadReturn \/ KernelCall
Host == HostReceives \/ HostSends
Callbacks == Transmitted \/ Received
UsbEvent == Configured \/ Disconnected \/ Suspend \/ Wakeup

Next == Thread \/ Host \/ Callbacks \/ UsbEvent

Spec == Init /\ [][Next]_vars
============================================================================
