--------------------------- MODULE WebRelayProofs ---------------------------
(* Proofs about the web relay, for any connections, topics, numbers of      *)
(* messages and crashes: the type invariant, the callbacks, the messages    *)
(* that pass somebody over, and the file of the last messages.              *)
EXTENDS WebRelay, TLAPS

\* The server keeps no connection when it ends, a connection that was not yet
\* made has left nothing behind, and a local one never asks for a session.
Connections ==
    /\ ~up => missed = {} /\ \A c \in Client : conn[c] # "open" /\ session[c] # "asked"
    /\ \A c \in Client : conn[c] = "new" => c \notin callbacks /\ session[c] = "none"
    /\ \A c \in Local : session[c] = "none"
    /\ \A c \in Local \cap Sockets : c \in callbacks => conn[c] = "open"

\* The file is as good as what was saved last, unless a crash cut a save short.
Files ==
    /\ \A t \in Topic : last[t] <= received /\ history.saved[t] <= received
    /\ file.written => file.messages = history.saved

RelayInv == /\ RelayTypeOK /\ Connections /\ SubscribedWhenKnown
            /\ MissedOnlyAfterEarlyClose

CacheInv == RelayTypeOK /\ Files /\ NothingSavedIsLost

LEMMA RelayInit == Init => RelayInv /\ CacheInv
<1> SUFFICES ASSUME Init PROVE RelayInv /\ CacheInv
  OBVIOUS
<1> USE RelayAssumption DEF Init, NoMessages, FileOf, Client
<1>1. RelayTypeOK
  BY DEF RelayTypeOK
<1>2. Connections /\ SubscribedWhenKnown /\ MissedOnlyAfterEarlyClose
  BY DEF Connections, SubscribedWhenKnown, MissedOnlyAfterEarlyClose
<1>3. Files /\ NothingSavedIsLost
  BY DEF Files, NothingSavedIsLost
<1> QED BY <1>1, <1>2, <1>3 DEF RelayInv, CacheInv

----------------------------------------------------------------------------
(* The steps, by what they touch: the handlers of a connection leave the    *)
(* server and its messages alone, the messages leave the connections.       *)

Handler == \E c \in Client : Open(c) \/ Leave(c) \/ EarlyMessage(c) \/ Answer(c)
Message == \/ \E t \in Topic, public \in BOOLEAN, served \in SUBSET (Client \cup {Cache}) :
                 OnRecv(t, public, served)
           \/ OnRecvScalar

LEMMA Steps == Next => Handler \/ Message \/ Crash \/ Save \/ Start
  BY DEF Next, Handler, Message

\* What on_close leaves of the types.
LEMMA OnCloseType ==
    ASSUME RelayTypeOK, NEW c \in Client, OnClose(c)
    PROVE  /\ session' \in [Client -> {"none", "asked", "closed", "failed"}]
           /\ callbacks' \subseteq callbacks
  BY DEF RelayTypeOK, OnClose

LEMMA HandlerType == RelayTypeOK /\ Handler => RelayTypeOK'
<1> SUFFICES ASSUME RelayTypeOK, NEW c \in Client,
                    Open(c) \/ Leave(c) \/ EarlyMessage(c) \/ Answer(c)
             PROVE  RelayTypeOK'
  BY DEF Handler
<1>1. CASE Open(c)
  BY <1>1 DEF Open, RelayTypeOK, cache
<1>2. CASE Leave(c)
  BY <1>2, OnCloseType DEF Leave, RelayTypeOK, cache
<1>3. CASE EarlyMessage(c)
  BY <1>3, OnCloseType DEF EarlyMessage, RelayTypeOK, cache
<1>4. CASE Answer(c)
  BY <1>4 DEF Answer, SessionData, SessionDataRaises, RelayTypeOK, cache
<1> QED BY <1>1, <1>2, <1>3, <1>4

LEMMA MessageType == RelayTypeOK /\ Message => RelayTypeOK'
<1> SUFFICES ASSUME RelayTypeOK, Message PROVE RelayTypeOK'
  OBVIOUS
<1> USE RelayAssumption DEF RelayTypeOK, relay, cache
<1>1. CASE OnRecvScalar
  BY <1>1 DEF OnRecvScalar
<1>2. ASSUME NEW t \in Topic, NEW public \in BOOLEAN,
             NEW served \in SUBSET (Client \cup {Cache}), OnRecv(t, public, served)
      PROVE  RelayTypeOK'
  <2>1. received' \in 0 .. MESSAGES
    BY <1>2 DEF OnRecv
  <2>2. last' \in [Topic -> 0 .. MESSAGES]
    BY <1>2, <2>1 DEF OnRecv, Remember
  <2>3. missed' \subseteq Client \cup {Cache}
    BY <1>2 DEF OnRecv, Due
  <2> QED BY <1>2, <2>1, <2>2, <2>3 DEF OnRecv
<1> QED BY <1>1, <1>2 DEF Message

\* The types after the end of the process.
LEMMA DownType ==
    ASSUME RelayTypeOK, Down, history' = [history EXCEPT !.crashes = @ + 1],
           file' \in [written : BOOLEAN, messages : [Topic -> 0 .. MESSAGES]]
    PROVE  RelayTypeOK'
<1> USE RelayAssumption DEF RelayTypeOK, Down
<1>1. history' \in [saved : [Topic -> 0 .. MESSAGES], crashes : 0 .. CRASHES]
  OBVIOUS
<1>2. last' \in [Topic -> 0 .. MESSAGES]
  BY DEF NoMessages
<1>3. conn' \in [Client -> {"new", "open", "closed"}]
  OBVIOUS
<1>4. session' \in [Client -> {"none", "asked", "closed", "failed"}]
  OBVIOUS
<1> QED BY <1>1, <1>2, <1>3, <1>4

LEMMA ServerType == RelayTypeOK /\ (Crash \/ Save \/ Start) => RelayTypeOK'
<1> SUFFICES ASSUME RelayTypeOK, Crash \/ Save \/ Start PROVE RelayTypeOK'
  OBVIOUS
<1>1. Empty \in [written : BOOLEAN, messages : [Topic -> 0 .. MESSAGES]]
  BY RelayAssumption DEF Empty, NoMessages
<1>2. CASE Crash
  BY <1>2, DownType DEF Crash, RelayTypeOK
<1>3. CASE Save
  <2>1. CASE file' = FileOf(last) /\ history' = [history EXCEPT !.saved = last]
             /\ UNCHANGED <<relay, up, last, received, missed>>
    BY <2>1 DEF RelayTypeOK, FileOf, relay
  <2>2. CASE file' = Empty /\ history' = [history EXCEPT !.crashes = @ + 1] /\ Down
    BY <2>2, <1>1, DownType
  <2> QED BY <1>3, <2>1, <2>2 DEF Save
<1>4. CASE Start
  BY <1>4 DEF Start, RelayTypeOK
<1> QED BY <1>2, <1>3, <1>4

LEMMA TypeStep == RelayTypeOK /\ [Next]_vars => RelayTypeOK'
<1>1. RelayTypeOK /\ UNCHANGED vars => RelayTypeOK'
  BY DEF vars, relay, cache, RelayTypeOK
<1> QED BY <1>1, Steps, HandlerType, MessageType, ServerType

\* Type correctness of the relay.
THEOREM RelayTypeCorrect == Spec => []RelayTypeOK
<1>1. Init => RelayTypeOK
  BY RelayInit DEF RelayInv
<1> QED BY <1>1, TypeStep, PTL DEF Spec

----------------------------------------------------------------------------
(* Callbacks and who was passed over.                                       *)

\* on_close of an open connection: it is left without a callback, and its
\* session is asked only if it had none.
LEMMA OnCloseEffect ==
    ASSUME RelayInv, NEW c \in Client, OnClose(c)
    PROVE  /\ callbacks' = callbacks \ {c}
           /\ \A d \in Client : d # c => session'[d] = session[d]
           /\ session[c] = "none" => session'[c] = "none"
           /\ session'[c] = "asked" => session[c] = "asked"
  BY DEF RelayInv, RelayTypeOK, OnClose

\* A connection that is closed by its browser or by what it sent.
LEMMA ClosingStep ==
    ASSUME RelayInv, NEW c \in Client, Leave(c) \/ EarlyMessage(c)
    PROVE  Connections' /\ SubscribedWhenKnown' /\ MissedOnlyAfterEarlyClose'
<1> USE RelayAssumption DEF Client
<1>1. /\ conn[c] = "open" /\ conn' = [conn EXCEPT ![c] = "closed"]
      /\ auth' = auth /\ up' = up /\ missed' = missed
      /\ OnClose(c) \/ (c \in Sources /\ UNCHANGED <<callbacks, session>>)
  BY DEF Leave, EarlyMessage, cache
<1>2. /\ \A d \in Client : d # c => session'[d] = session[d]
      /\ session[c] = "none" => session'[c] = "none"
      /\ session'[c] = "asked" => session[c] = "asked"
      /\ \/ callbacks' = callbacks \ {c}
         \/ c \in Sources /\ callbacks' = callbacks /\ session' = session
  BY <1>1, OnCloseEffect
<1>3. conn \in [Client -> {"new", "open", "closed"}]
  BY DEF RelayInv, RelayTypeOK
<1>4. Connections'
  BY <1>1, <1>2, <1>3 DEF RelayInv, Connections
<1>5. SubscribedWhenKnown'
  BY <1>1, <1>2, <1>3 DEF RelayInv, SubscribedWhenKnown
<1>6. MissedOnlyAfterEarlyClose'
  BY <1>1, <1>2, <1>3 DEF RelayInv, MissedOnlyAfterEarlyClose
<1> QED BY <1>4, <1>5, <1>6

LEMMA OpenStep ==
    ASSUME RelayInv, NEW c \in Client, Open(c)
    PROVE  Connections' /\ SubscribedWhenKnown' /\ MissedOnlyAfterEarlyClose'
<1> USE RelayAssumption DEF Client, RelayInv, RelayTypeOK, Open, cache
<1>1. Connections'
  BY DEF Connections
<1>2. SubscribedWhenKnown'
  BY DEF Connections, SubscribedWhenKnown
<1>3. MissedOnlyAfterEarlyClose'
  BY DEF MissedOnlyAfterEarlyClose
<1> QED BY <1>1, <1>2, <1>3

LEMMA AnswerStep ==
    ASSUME RelayInv, NEW c \in Client, Answer(c)
    PROVE  Connections' /\ SubscribedWhenKnown' /\ MissedOnlyAfterEarlyClose'
<1> USE RelayAssumption
        DEF Client, RelayInv, RelayTypeOK, Answer, SessionData, SessionDataRaises, cache
<1>1. Connections'
  BY DEF Connections
<1>2. SubscribedWhenKnown'
  BY DEF SubscribedWhenKnown
<1>3. MissedOnlyAfterEarlyClose'
  BY DEF MissedOnlyAfterEarlyClose
<1> QED BY <1>1, <1>2, <1>3

\* A message is passed over to nobody without a callback that raises.
LEMMA MessageStep ==
    ASSUME RelayInv, Message
    PROVE  Connections' /\ SubscribedWhenKnown' /\ MissedOnlyAfterEarlyClose'
<1>1. up /\ up' = up /\ UNCHANGED relay
  BY DEF Message, OnRecv, OnRecvScalar, cache
<1>2. \/ missed' = missed
      \/ \E c \in callbacks \cap Sockets : conn[c] = "closed"
  <2>1. CASE OnRecvScalar
    BY <2>1 DEF OnRecvScalar
  <2>2. ASSUME NEW t \in Topic, NEW public \in BOOLEAN,
               NEW served \in SUBSET (Client \cup {Cache}), OnRecv(t, public, served)
        PROVE  \/ missed' = missed
               \/ \E c \in callbacks \cap Sockets : conn[c] = "closed"
    BY <2>2 DEF OnRecv, Raises
  <2> QED BY <2>1, <2>2 DEF Message
<1>3. Connections'
  BY <1>1 DEF RelayInv, Connections, relay
<1>4. SubscribedWhenKnown'
  BY <1>1 DEF RelayInv, SubscribedWhenKnown, relay
<1>5. MissedOnlyAfterEarlyClose'
  BY <1>1, <1>2 DEF RelayInv, MissedOnlyAfterEarlyClose, Connections, relay
<1> QED BY <1>3, <1>4, <1>5

LEMMA DownStep ==
    ASSUME RelayInv, Down
    PROVE  Connections' /\ SubscribedWhenKnown' /\ MissedOnlyAfterEarlyClose'
<1> USE RelayAssumption DEF Client, RelayInv, RelayTypeOK, Down
<1>1. Connections'
  BY DEF Connections
<1>2. SubscribedWhenKnown'
  BY DEF SubscribedWhenKnown
<1>3. MissedOnlyAfterEarlyClose'
  BY DEF MissedOnlyAfterEarlyClose
<1> QED BY <1>1, <1>2, <1>3

LEMMA StartStep ==
    ASSUME RelayInv, Start
    PROVE  Connections' /\ SubscribedWhenKnown' /\ MissedOnlyAfterEarlyClose'
<1> USE RelayAssumption DEF Client, RelayInv, Start
<1>1. Connections'
  BY DEF Connections
<1>2. SubscribedWhenKnown'
  BY DEF Connections, SubscribedWhenKnown
<1>3. MissedOnlyAfterEarlyClose'
  BY DEF Connections, MissedOnlyAfterEarlyClose
<1> QED BY <1>1, <1>2, <1>3

LEMMA QuietStep ==
    ASSUME RelayInv, UNCHANGED <<relay, up, missed>>
    PROVE  Connections' /\ SubscribedWhenKnown' /\ MissedOnlyAfterEarlyClose'
  BY DEF RelayInv, relay, Connections, SubscribedWhenKnown, MissedOnlyAfterEarlyClose

LEMMA RelayStep == RelayInv /\ [Next]_vars => RelayInv'
<1> SUFFICES ASSUME RelayInv, [Next]_vars
             PROVE  Connections' /\ SubscribedWhenKnown' /\ MissedOnlyAfterEarlyClose'
  BY TypeStep DEF RelayInv
<1>1. CASE Handler
  BY <1>1, OpenStep, ClosingStep, AnswerStep DEF Handler
<1>2. CASE Message
  BY <1>2, MessageStep
<1>3. CASE Crash
  BY <1>3, DownStep DEF Crash
<1>4. CASE Save
  BY <1>4, DownStep, QuietStep DEF Save
<1>5. CASE Start
  BY <1>5, StartStep
<1>6. CASE UNCHANGED vars
  BY <1>6, QuietStep DEF vars, cache
<1> QED BY <1>1, <1>2, <1>3, <1>4, <1>5, <1>6, Steps

LEMMA RelayInvariant == Spec => []RelayInv
<1>1. Init => RelayInv
  BY RelayInit
<1> QED BY <1>1, RelayStep, PTL DEF Spec

\* Whoever stays past its session has a callback, and no callback is left that
\* does not know what it may see.
THEOREM CallbacksAreRight == Spec => []SubscribedWhenKnown
<1>1. RelayInv => SubscribedWhenKnown
  BY DEF RelayInv
<1> QED BY <1>1, RelayInvariant, PTL

\* Nobody is passed over but for a web socket that was closed too early.
THEOREM MissedForAReason == Spec => []MissedOnlyAfterEarlyClose
<1>1. RelayInv => MissedOnlyAfterEarlyClose
  BY DEF RelayInv
<1> QED BY <1>1, RelayInvariant, PTL

----------------------------------------------------------------------------
(* The last messages.                                                       *)

LEMMA CacheStep == CacheInv /\ [Next]_vars => CacheInv'
<1> SUFFICES ASSUME CacheInv, [Next]_vars PROVE Files' /\ NothingSavedIsLost'
  BY TypeStep DEF CacheInv
<1>0. /\ received \in Int /\ last \in [Topic -> Int]
      /\ history \in [saved : [Topic -> Int], crashes : Int]
  BY RelayAssumption DEF CacheInv, RelayTypeOK
<1>1. CASE UNCHANGED <<cache, received>>
  BY <1>1 DEF CacheInv, Files, NothingSavedIsLost, cache
<1>2. CASE OnRecvScalar
  BY <1>0, <1>2 DEF CacheInv, Files, NothingSavedIsLost, OnRecvScalar, cache
<1>3. ASSUME NEW t \in Topic, NEW public \in BOOLEAN,
             NEW served \in SUBSET (Client \cup {Cache}), OnRecv(t, public, served)
      PROVE  Files' /\ NothingSavedIsLost'
  <2>1. /\ received' = received + 1 /\ UNCHANGED <<up, file, history>>
        /\ \A u \in Topic : last'[u] \in {last[u], received'}
    BY <1>0, <1>3 DEF OnRecv, Remember
  <2>2. \A u \in Topic : last'[u] >= last[u] /\ last'[u] <= received'
    BY <1>0, <2>1 DEF CacheInv, Files
  <2>3. \A u \in Topic : last'[u] \in Int
    BY <1>0, <2>1
  <2> QED BY <1>0, <2>1, <2>2, <2>3 DEF CacheInv, Files, NothingSavedIsLost
<1>4. ASSUME Down, history'.saved = history.saved, file' = file \/ ~file'.written
      PROVE  Files' /\ NothingSavedIsLost'
  <2>1. \A t \in Topic : last'[t] <= received'
    BY <1>4 DEF Down, NoMessages, CacheInv, RelayTypeOK
  <2> QED BY <1>4, <2>1 DEF CacheInv, Files, NothingSavedIsLost, Down
<1>5. CASE Crash
  BY <1>0, <1>4, <1>5 DEF Crash
<1>6. CASE Save
  <2>1. CASE file' = FileOf(last) /\ history' = [history EXCEPT !.saved = last]
             /\ UNCHANGED <<relay, up, last, received, missed>>
    <3>1. history'.saved = last
      BY <1>0, <2>1
    <3> QED BY <1>0, <2>1, <3>1 DEF CacheInv, Files, NothingSavedIsLost, FileOf
  <2>2. CASE file' = Empty /\ history' = [history EXCEPT !.crashes = @ + 1] /\ Down
    BY <1>0, <1>4, <2>2 DEF Empty
  <2> QED BY <1>6, <2>1, <2>2 DEF Save
<1>7. CASE Start
  <2>1. last' = history.saved /\ UNCHANGED <<received, file, history>>
    BY <1>7 DEF Start, CacheInv, Files
  <2>2. \A t \in Topic : history.saved[t] <= received
    BY DEF CacheInv, Files
  <2> QED BY <1>0, <2>1, <2>2 DEF CacheInv, Files, NothingSavedIsLost
<1>8. CASE Handler
  BY <1>1, <1>8 DEF Handler, Open, Leave, EarlyMessage, Answer, SessionData, SessionDataRaises
<1> QED BY <1>1, <1>2, <1>3, <1>5, <1>6, <1>7, <1>8, Steps DEF Message, vars

\* What was saved is not taken back, whenever the server ends and starts again.
THEOREM SavedIsKept == Spec => []NothingSavedIsLost
<1>1. Init => CacheInv
  BY RelayInit
<1>2. CacheInv => NothingSavedIsLost
  BY DEF CacheInv
<1> QED BY <1>1, <1>2, CacheStep, PTL DEF Spec
=============================================================================
