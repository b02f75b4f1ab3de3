---------------------------- MODULE FastBusProps ----------------------------
(* The properties of the USB pipe.                                          *)
EXTENDS FastBus, SequencesExt

\* Type invariant; obqueue and ibqueue have BUFFERS buffers each.
BusTypeOK ==
    /\ usb \in {"ready", "active", "suspended"} /\ enabled \in BOOLEAN
    /\ in \in {"idle", "busy", "done"} /\ out \in {"idle", "busy", "done"}
    /\ obqueue \in Seq(Nat) /\ Len(obqueue) <= BUFFERS
    /\ ibqueue \in Seq(Nat) /\ Len(ibqueue) <= BUFFERS
    /\ written \in Nat /\ shown \in Nat
    /\ issued \in Nat /\ taken \in Seq(Nat)
    /\ thread \in {"running", "reading"} /\ locked \in BOOLEAN

\* transmitted() releases only buffers the host has got: the frames not yet
\* shown are exactly those in obqueue, in order, the first one perhaps shown
\* and about to be released or, after a bus reset, to be sent again.
FramesShownInOrder ==
    /\ \A i \in 1 .. Len(obqueue) : obqueue[i] = written - Len(obqueue) + i
    /\ shown - (written - Len(obqueue)) \in {0, 1}
    /\ in = "done" => shown = Head(obqueue)

\* The thread gets the host's commands in order, none twice, and a bus reset
\* loses at most the one whose callback was due.
CommandsInOrder ==
    LET got == taken \o ibqueue IN
    /\ \A i \in 1 .. Len(got) - 1 : got[i] < got[i + 1]
    /\ Len(got) + (IF out = "done" THEN 1 ELSE 0) >= issued - events.disconnects

\* start_receive is called wherever a buffer or the endpoint may become free:
\* on a bus that can carry data the endpoint waits for a command as long as
\* there is a buffer for one.  Not so after a suspend: a buffer released while
\* the bus is suspended starts nothing, and neither does Wakeup.
InputNeverStalls ==
    Usable(usb, enabled) /\ Len(ibqueue) < BUFFERS /\ events.suspends = 0
       => out # "idle"

----------------------------------------------------------------------------
\* What the host has sent gets to the thread, for all that Read leaves the
\* interrupts locked out, unless the bus is reset.
CommandsAreServed ==
    \A k \in 1 .. COMMANDS :
       issued = k /\ out = "done" ~> usb = "ready" \/ k \in ToSet(taken)

\* usbcfg.cpp:370 "Enables the endpoints specified into the configuration": a
\* configured device gets rid of the frames that fill its output queue.
FramesGetOut ==
    usb = "active" /\ Len(obqueue) = BUFFERS ~> usb # "active" \/ Len(obqueue) < BUFFERS
============================================================================
