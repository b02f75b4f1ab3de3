------------------------------ MODULE WebRelay ------------------------------
(* The web server's relay, tornado_websocket.py: messages of the hub go to  *)
(* every callback in MultiplexPubSub's set, those of browsers on web        *)
(* sockets and event sources and the one that keeps the last messages.      *)
(* Handlers run one at a time on the event loop.  A connection has its own  *)
(* handler object, so a client here is one connection.  Once an hour the    *)
(* last messages go to a file, from which a server that is started again    *)
(* takes them.                                                              *)
EXTENDS Integers, FiniteSets

CONSTANTS
    Sockets,     \* connections to RelayWebSocket
    Sources,     \* connections to RelayEventSource
    Local,       \* the connections from 127.0.0.1
    Cache,       \* PubSubCallback
    Topic,       \* data[0]
    MESSAGES,    \* bounds: messages received from the hub,
    CRASHES      \* crashes of the server

Client == Sockets \cup Sources

ASSUME RelayAssumption ==
    /\ Sockets \cap Sources = {} /\ Local \subseteq Client
    /\ Cache \notin Client /\ MESSAGES \in Nat /\ CRASHES \in Nat

VARIABLES
    conn,       \* the connections: "new", "open" or "closed"
    session,    \* session_ipc: "none", "asked", "closed", or "failed" if the
                \* answer's handler has raised
    auth,       \* the attribute authenticated: "unset", "yes" or "no"
    callbacks,  \* MultiplexPubSub.callbacks
    up,         \* whether the server runs
    last,       \* last_msg: each topic's last message, 0 if there is none
    file,       \* last_readings
    received,   \* messages from the hub so far
    missed,     \* who was connected and passed over; a history, not code,
    history     \* and so is this: what was saved last, and the crashes

relay == <<conn, session, auth, callbacks>>
cache == <<up, last, file, history>>
vars == <<relay, cache, received, missed>>

NoMessages == [t \in Topic |-> 0]
FileOf(messages) == [written |-> TRUE, messages |-> messages]
Empty == [written |-> FALSE, messages |-> NoMessages]

\* The server was started with a file that holds no messages.
Init == /\ up = TRUE /\ last = NoMessages /\ file = FileOf(NoMessages)
        /\ history = [saved |-> NoMessages, crashes |-> 0]
        /\ conn = [c \in Client |-> "new"]
        /\ session = [c \in Client |-> "none"]
        /\ auth = [c \in Client |-> "unset"]
        /\ callbacks = {Cache}
        /\ received = 0 /\ missed = {}

----------------------------------------------------------------------------
\* open() and get(): a local client is trusted, for another one the session
\* service is asked.
Open(c) ==
    /\ up /\ conn[c] = "new"
    /\ conn' = [conn EXCEPT ![c] = "open"]
    /\ IF c \in Local
       THEN /\ auth' = [auth EXCEPT ![c] = "yes"]
            /\ callbacks' = callbacks \cup {c}
            /\ UNCHANGED session
       ELSE /\ session' = [session EXCEPT ![c] = "asked"]
            /\ UNCHANGED <<auth, callbacks>>
    /\ UNCHANGED <<cache, received, missed>>

\* Mutation of SessionData: init_pubsub is not called.
SessionDataNoPubsub(c, answer) ==
    /\ session[c] = "asked"
    /\ auth' = [auth EXCEPT ![c] = answer]
    /\ session' = [session EXCEPT ![c] = "closed"]
    /\ UNCHANGED <<conn, callbacks, cache, received, missed>>

\* Mutation of SessionData: a callback for authenticated clients only.
SessionDataTrusted(c, answer) ==
    /\ session[c] = "asked"
    /\ auth' = [auth EXCEPT ![c] = answer]
    /\ session' = [session EXCEPT ![c] = "closed"]
    /\ callbacks' = IF answer = "yes" THEN callbacks \cup {c} ELSE callbacks
    /\ UNCHANGED <<conn, cache, received, missed>>

\* on_session_data: the answer, whether or not the client is still there.
SessionData(c, answer) ==
    /\ session[c] = "asked"
    /\ auth' = [auth EXCEPT ![c] = answer]
    /\ session' = [session EXCEPT ![c] = "closed"]
    /\ callbacks' = callbacks \cup {c}
    /\ UNCHANGED <<conn, cache, received, missed>>

\* The same for an answer that json.loads raises on: the session is not closed
\* and the client gets no callback.
SessionDataRaises(c) ==
    /\ session[c] = "asked"
    /\ auth' = [auth EXCEPT ![c] = "no"]
    /\ session' = [session EXCEPT ![c] = "failed"]
    /\ UNCHANGED <<conn, callbacks, cache, received, missed>>

\* The session service's answer, of whatever kind.
Answer(c) == SessionDataRaises(c) \/ \E a \in {"yes", "no"} : SessionData(c, a)

\* Mutation of OnClose: the callback stays.
OnCloseKeepsCallback(c) ==
    /\ c \in Sockets
    /\ session' = [session EXCEPT ![c] = IF @ = "none" THEN @ ELSE "closed"]
    /\ UNCHANGED callbacks

\* RelayWebSocket.on_close.  remove_callback raises KeyError for a callback
\* that is not in the set, and then the session is not closed.
OnClose(c) ==
    /\ c \in Sockets
    /\ IF c \in callbacks
       THEN /\ callbacks' = callbacks \ {c}
            /\ session' = [session EXCEPT ![c] = IF @ = "none" THEN @ ELSE "closed"]
       ELSE UNCHANGED <<callbacks, session>>

\* The browser leaves.  The event source's close() is not a method that
\* Tornado calls: nothing happens.
Leave(c) ==
    /\ conn[c] = "open"
    /\ conn' = [conn EXCEPT ![c] = "closed"]
    /\ \/ OnClose(c)
       \/ c \in Sources /\ UNCHANGED <<callbacks, session>>
    /\ UNCHANGED <<auth, cache, received, missed>>

\* on_message before the session's answer: there is no attribute authenticated,
\* and Tornado closes a socket whose handler raises.  Later messages go to the
\* hub or nowhere, and change nothing here.
EarlyMessage(c) ==
    /\ c \in Sockets /\ conn[c] = "open" /\ auth[c] = "unset"
    /\ conn' = [conn EXCEPT ![c] = "closed"]
    /\ OnClose(c)
    /\ UNCHANGED <<auth, cache, received, missed>>

\* on_data of a client writes the message, which the socket's does not do when
\* the message is for authenticated clients only.
Writes(c, public) == c \in Sources \/ public \/ auth[c] = "yes"

\* The callbacks that raise: write_message on a closed socket.
Raises(public) == {c \in callbacks \cap Sockets : conn[c] = "closed" /\ Writes(c, public)}

\* The callbacks that must have the message.
Due(public) == {c \in callbacks \cap Client : conn[c] = "open" /\ Writes(c, public)}
               \cup {Cache}

\* PubSubCallback, when it is called.
Remember(t, served) ==
    last' = IF Cache \in served THEN [last EXCEPT ![t] = received'] ELSE last

\* on_recv: the callbacks in the set's order, which can be any.  The except
\* clause names a class that is not imported: the first callback that raises
\* ends the loop with NameError.
OnRecv(t, public, served) ==
    /\ up /\ received < MESSAGES
    /\ received' = received + 1
    /\ \/ Raises(public) = {} /\ served = Due(public)
       \/ Raises(public) # {} /\ served \subseteq Due(public)
    /\ Remember(t, served)
    /\ missed' = missed \cup (Due(public) \ served)
    /\ UNCHANGED <<relay, up, file, history>>

\* on_recv of a message whose data[2] is a number other than 1 or a text, like
\* that of set_address.py: it cannot be given a timestamp, and nobody gets it.
OnRecvScalar ==
    /\ up /\ received < MESSAGES
    /\ received' = received + 1
    /\ UNCHANGED <<relay, cache, missed>>

----------------------------------------------------------------------------
(* The file of the last messages.                                           *)

\* The process ends: every connection closes.
Down == /\ history.crashes < CRASHES
        /\ up' = FALSE /\ last' = NoMessages
        /\ conn' = [c \in Client |-> IF conn[c] = "open" THEN "closed" ELSE conn[c]]
        /\ session' = [c \in Client |->
                         IF session[c] = "none" THEN "none" ELSE "closed"]
        /\ callbacks' = {} /\ missed' = {}
        /\ UNCHANGED <<auth, received>>

Crash == /\ up /\ Down
         /\ history' = [history EXCEPT !.crashes = @ + 1]
         /\ UNCHANGED file

\* save_last_messages empties the file, then writes it: the process may end
\* between the two.
Save ==
    /\ up
    /\ \/ /\ file' = FileOf(last) /\ history' = [history EXCEPT !.saved = last]
          /\ UNCHANGED <<relay, up, last, received, missed>>
       \/ /\ file' = Empty /\ history' = [history EXCEPT !.crashes = @ + 1]
          /\ Down

\* Mutation of Start: the callback is added, the file is not read.
StartAfresh ==
    /\ ~up
    /\ up' = TRUE /\ callbacks' = {Cache}
    /\ UNCHANGED <<conn, session, auth, last, file, history, received, missed>>

\* main(): load_last_messages raises IndexError for an empty file, and the
\* server does not start.
Start ==
    /\ ~up /\ file.written
    /\ up' = TRUE /\ last' = file.messages /\ callbacks' = {Cache}
    /\ UNCHANGED <<conn, session, auth, file, history, received, missed>>

Next == \/ \E c \in Client : Open(c) \/ Leave(c) \/ EarlyMessage(c) \/ Answer(c)
        \/ \E t \in Topic, public \in BOOLEAN, served \in SUBSET (Client \cup {Cache}) :
              OnRecv(t, public, served)
        \/ OnRecvScalar \/ Crash \/ Save \/ Start

Spec == Init /\ [][Next]_vars

\* The session service answers.
FairSpec == Spec /\ \A c \in Client : WF_vars(Answer(c))

----------------------------------------------------------------------------
\* Type invariant.
RelayTypeOK ==
    /\ conn \in [Client -> {"new", "open", "closed"}]
    /\ session \in [Client -> {"none", "asked", "closed", "failed"}]
    /\ auth \in [Client -> {"unset", "yes", "no"}]
    /\ callbacks \subseteq Client \cup {Cache}
    /\ up \in BOOLEAN /\ last \in [Topic -> 0 .. MESSAGES]
    /\ file \in [written : BOOLEAN, messages : [Topic -> 0 .. MESSAGES]]
    /\ history \in [saved : [Topic -> 0 .. MESSAGES], crashes : 0 .. CRASHES]
    /\ received \in 0 .. MESSAGES /\ missed \subseteq Client \cup {Cache}

\* Every handler adds its callback once and removes it once: a connection that
\* is open and past its session has its callback in the set, unless the answer
\* has raised, and one that has a callback in the set has decided what it may
\* see.
SubscribedWhenKnown ==
    \A c \in Client :
       /\ conn[c] = "open" /\ session[c] \notin {"asked", "failed"} => c \in callbacks
       /\ c \in callbacks => auth[c] # "unset" /\ session[c] \notin {"asked", "failed"}

\* A message passes over a client or the cache only if a web socket was closed
\* before its session's answer came, whatever else comes and goes.
MissedOnlyAfterEarlyClose ==
    missed # {} =>
       \E c \in callbacks \cap Sockets : conn[c] = "closed" /\ c \notin Local

\* Neither a crash nor a save that a crash cuts short nor messages that pass the
\* cache over take back what /last has once saved: a server that runs answers
\* with messages at least as new.
NothingSavedIsLost == up => \A t \in Topic : last[t] >= history.saved[t]

\* Every connection that stays gets its callback, or an answer that raises.
EventuallySubscribed ==
    \A c \in Client :
       conn[c] = "open" ~> \/ c \in callbacks \/ conn[c] = "closed"
                          \/ session[c] = "failed"

\* tornado_websocket.py:75 "Closed by WebSocketClosedError!": a closed socket
\* found in the loop is dealt with, and the others get the message.
NobodyIsMissed == missed = {}
============================================================================
