--------------------------------- MODULE Hub ---------------------------------
(* The message hub, sensor_node.py with tft_lib.py: radio_thread keeps the  *)
(* radio network in time and publishes its readings, the main loop takes    *)
(* every publisher's messages, drops the repeated readings and passes the   *)
(* rest on to loggers, displays and the web relay.  Both write to the radio *)
(* under TFT_FastBus.write_lock.  An exception in the main loop asks the    *)
(* thread to end, and the main loop ends after it.                          *)
EXTENDS SequenceFilter, Sequences

CONSTANTS
    Station,     \* stations whose readings radio_thread publishes
    QUEUE,       \* messages on their way to the main loop
    LOSSES,      \* readings lost in a row, at most
    READINGS,    \* bounds: readings and restarts of a station,
    RESTARTS,    \* USB errors
    FAILURES

ASSUME HubAssumption ==
    /\ QUEUE \in Nat \ {0} /\ LOSSES \in Nat /\ READINGS \in Nat
    /\ RESTARTS \in Nat /\ FAILURES \in Nat

\* Fewer readings are lost in a row than make a number look like an old one.
ASSUME LossAssumption == LOSSES + 1 < MODULUS - GAP

VARIABLES
    running, threadEnded,   \* the globals
    radio, main,            \* where the threads are: next, and in a write
    lock,                   \* write_lock, an RLock: its owner and its depth
    inbox,                  \* sock_sub
    lastSeen,               \* last_seen: the number, and its age in seconds
    live,                   \* the message last sent by sock_live
    sent,                   \* each station's readings so far and the number
                            \* of the next one: the radio network, not code
    history                 \* for the properties and bounds

hubVars == <<running, threadEnded, radio, main, lock, inbox, lastSeen, live,
             sent, history>>

Never == [no |-> -1, age |-> 0]
Free == [owner |-> "nobody", depth |-> 0]

\* n counts a station's readings, life its restarts: neither is in the message.
ReadingOf(s, x) == [kind |-> "reading", station |-> s, no |-> x.no, n |-> x.n,
                    life |-> x.life]
Message(kind) == [kind |-> kind]

\* A station that has counted to n in its earlier lives.
NothingSent(n, life) == [n |-> n, no |-> 0, life |-> life, any |-> FALSE]

Init == /\ running = TRUE /\ threadEnded = FALSE
        /\ radio = [at |-> "time", writing |-> FALSE]
        /\ main = [at |-> "top", writing |-> FALSE]
        /\ lock = Free /\ inbox = <<>>
        /\ lastSeen = [s \in Station |-> Never]
        /\ live = Message("json")
        /\ sent = [s \in Station |-> NothingSent(0, 0)]
        /\ history = [passed |-> [s \in Station |-> [n |-> 0, life |-> 0]],
                      failures |-> 0]

----------------------------------------------------------------------------
(* write_radio.                                                             *)

Acquire(thread) ==
    /\ lock.owner \in {"nobody", thread}
    /\ lock' = [owner |-> thread, depth |-> lock.depth + 1]

Release == lock' = IF lock.depth = 1 THEN Free ELSE [lock EXCEPT !.depth = @ - 1]

\* The write raises USBError: nothing releases the lock.
Fails == /\ history.failures < FAILURES
         /\ history' = [history EXCEPT !.failures = @ + 1]
         /\ UNCHANGED lock

----------------------------------------------------------------------------
(* radio_thread: time and ping when they are due, then the next packet.     *)

\* Mutation of Round: the loop does not look at running.
RoundForever ==
    /\ radio.at = "time" /\ ~radio.writing
    /\ \/ Acquire("radio") /\ radio' = [radio EXCEPT !.writing = TRUE]
       \/ radio' = [radio EXCEPT !.at = "ping"] /\ UNCHANGED lock
    /\ UNCHANGED threadEnded

\* The time once a minute.
Round ==
    /\ radio.at = "time" /\ ~radio.writing
    /\ \/ ~running /\ radio' = [radio EXCEPT !.at = "ended"] /\ threadEnded' = TRUE
          /\ UNCHANGED lock
       \/ running /\ Acquire("radio") /\ radio' = [radio EXCEPT !.writing = TRUE]
          /\ UNCHANGED threadEnded
       \/ running /\ radio' = [radio EXCEPT !.at = "ping"] /\ UNCHANGED <<lock, threadEnded>>

\* The ping once a second.
Ping ==
    /\ radio.at = "ping" /\ ~radio.writing
    /\ \/ Acquire("radio") /\ radio' = [radio EXCEPT !.writing = TRUE]
       \/ radio' = [radio EXCEPT !.at = "read"] /\ UNCHANGED lock
    /\ UNCHANGED threadEnded

RadioWaits == /\ Round \/ Ping
              /\ UNCHANGED <<running, main, inbox, lastSeen, live, sent, history>>

\* The end of its write; an exception is printed and the loop begins again.
RadioWrites ==
    /\ radio.writing
    /\ \/ /\ Release /\ UNCHANGED history
          /\ radio' = [at |-> IF radio.at = "time" THEN "ping" ELSE "read",
                       writing |-> FALSE]
       \/ Fails /\ radio' = [at |-> "time", writing |-> FALSE]
    /\ UNCHANGED <<running, threadEnded, main, inbox, lastSeen, live, sent>>

Publish(m) == /\ Len(inbox) < QUEUE
              /\ inbox' = Append(inbox, m)

\* read(): a reading with a name, which may be the last one again or one after
\* some that were lost; or nothing to publish.
RadioReads ==
    /\ radio.at = "read"
    /\ radio' = [radio EXCEPT !.at = "time"]
    /\ \/ \E s \in Station :
            \/ \E d \in 1 .. LOSSES + 1 :
                 /\ sent[s].n + d <= READINGS
                 /\ sent' = [sent EXCEPT ![s] = [n |-> @.n + d, no |-> Later(@.no, d),
                                                 life |-> @.life, any |-> TRUE]]
                 /\ Publish(ReadingOf(s, sent'[s]))
            \/ /\ sent[s].any /\ UNCHANGED sent
               /\ Publish(ReadingOf(s, sent[s]))
       \/ UNCHANGED <<inbox, sent>>
    /\ UNCHANGED <<running, threadEnded, main, lock, lastSeen, live, history>>

----------------------------------------------------------------------------
(* The main loop.                                                           *)

MainTop ==
    /\ main.at = "top"
    /\ main' = [main EXCEPT !.at = IF threadEnded THEN "ended" ELSE "receive"]
    /\ UNCHANGED <<running, threadEnded, radio, lock, inbox, lastSeen, live, sent,
                   history>>

\* args[2]: text that is not JSON is replaced by an error that is.
Decoded(kind) == IF kind = "text" THEN "json" ELSE kind

\* handle_packet sends the message on, before anything that may raise.
Pass(m) == live' = [m EXCEPT !.kind = Decoded(@)]

Seen(m) == lastSeen' = [lastSeen EXCEPT ![m.station] = [no |-> m.no, age |-> 0]]

\* A station's first reading, and one after a wrap, are noted before they are
\* passed on.
NotedFirst(last, m) == last = Never \/ (m.no <= last.no /\ last.age <= AGE)

\* A reading.  raises: the web page that a button's reading opens fails.
Reading(m, raises) ==
    LET last == lastSeen[m.station] IN
    IF last = Never \/ IsNew(last.no, m.no, last.age)
    THEN /\ Pass(m)
         /\ IF raises /\ ~NotedFirst(last, m) THEN UNCHANGED lastSeen ELSE Seen(m)
         /\ running' = (running /\ ~raises)
         /\ history' = [history EXCEPT !.passed[m.station] = [n |-> m.n, life |-> m.life]]
    ELSE UNCHANGED <<live, lastSeen, running, history>>

\* Other messages: without args[2] there is an IndexError; the number of a
\* command may be none, and then there is a ValueError after it was passed on.
Other(m, raises) ==
    /\ raises => m.kind \in {"short", "command"}
    /\ m.kind = "short" => raises
    /\ running' = (running /\ ~raises)
    /\ IF m.kind = "short" THEN UNCHANGED live ELSE Pass(m)
    /\ UNCHANGED <<lastSeen, history>>

Receive ==
    /\ main.at = "receive" /\ inbox # <<>>
    /\ inbox' = Tail(inbox)
    /\ LET m == Head(inbox) IN
       \E raises \in BOOLEAN :
          /\ IF m.kind = "reading" THEN Reading(m, raises) ELSE Other(m, raises)
          /\ main' = [main EXCEPT !.at = IF m.kind = "command" /\ ~raises
                                         THEN "command" ELSE "top"]
    /\ UNCHANGED <<threadEnded, radio, lock, sent>>

Command ==
    /\ main.at = "command" /\ ~main.writing
    /\ Acquire("main")
    /\ main' = [main EXCEPT !.writing = TRUE]
    /\ UNCHANGED <<running, threadEnded, radio, inbox, lastSeen, live, sent, history>>

MainWrites ==
    /\ main.writing
    /\ main' = [at |-> "top", writing |-> FALSE]
    /\ \/ Release /\ UNCHANGED <<running, history>>
       \/ Fails /\ running' = FALSE
    /\ UNCHANGED <<threadEnded, radio, inbox, lastSeen, live, sent>>

----------------------------------------------------------------------------
(* The world around.                                                        *)

\* Another publisher, of anything but readings with numbers.
Publisher(kind) ==
    /\ Publish(Message(kind))
    /\ UNCHANGED <<running, threadEnded, radio, main, lock, lastSeen, live, sent, history>>

StationRestart(s) ==
    /\ sent[s].life < RESTARTS
    /\ sent' = [sent EXCEPT ![s] = NothingSent(@.n, @.life + 1)]
    /\ UNCHANGED <<running, threadEnded, radio, main, lock, inbox, lastSeen, live,
                   history>>

Second ==
    /\ \E s \in Station : lastSeen[s] # Never /\ lastSeen[s].age <= AGE
    /\ lastSeen' = [s \in Station |->
                      IF lastSeen[s] = Never THEN Never
                      ELSE [lastSeen[s] EXCEPT !.age = IF @ > AGE THEN @ ELSE @ + 1]]
    /\ UNCHANGED <<running, threadEnded, radio, main, lock, inbox, live, sent, history>>

RadioThread == RadioWaits \/ RadioWrites \/ RadioReads
MainThread == MainTop \/ Receive \/ Command \/ MainWrites
Kinds == {"json", "text", "short", "command"}

HubNext == \/ RadioThread \/ MainThread
           \/ \E kind \in Kinds : Publisher(kind)
           \/ \E s \in Station : StationRestart(s)
           \/ Second

HubSpec == Init /\ [][HubNext]_hubVars

\* Both threads run, and some publisher always sends again.
FairHubSpec == HubSpec /\ WF_hubVars(RadioThread) /\ WF_hubVars(MainThread)
                       /\ WF_hubVars(\E kind \in Kinds : Publisher(kind))

----------------------------------------------------------------------------
\* The reading that the main loop takes from its queue in this step.
Takes(m) == inbox # <<>> /\ inbox' = Tail(inbox) /\ Head(inbox) = m /\ m.kind = "reading"

\* A reading that nobody has seen is never taken for a repeat, wherever the
\* numbers wrap and whatever is lost before it (up to MODULUS - GAP - 1 readings
\* on), as long as the station was not restarted since the last one that was
\* passed on and no exception has come between.
NewReadingsPass ==
    [][\A i \in DOMAIN inbox :
          LET m == inbox[i] IN
          LET passed == history.passed[m.station] IN
          Takes(m) /\ m.n > passed.n /\ m.life = passed.life /\ running
             => history'.passed[m.station].n = m.n]_hubVars

\* A reading that was passed on is not passed on again, within the two seconds
\* in which sendWithRetry repeats a frame, unless an exception has come between.
RepeatsAreDropped ==
    [][\A i \in DOMAIN inbox :
          LET m == inbox[i] IN
          /\ Takes(m) /\ m.n = history.passed[m.station].n /\ running
          /\ lastSeen[m.station].age <= AGE
          => live' = live]_hubVars

\* After an exception in the main loop both threads end, unless a write to the
\* radio has failed: its lock is never released.
HubStops == ~running ~> (main.at = "ended" \/ history.failures > 0)
=============================================================================
