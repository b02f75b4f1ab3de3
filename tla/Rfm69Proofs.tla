----------------------------- MODULE Rfm69Proofs -----------------------------
(* Proofs about the radio driver, for any number of frames, messages,       *)
(* repetitions and uses of the shell's command.  What Thread1 has still to  *)
(* do is a stack of calls: the proofs rest on which step may follow which   *)
(* on it, and on what holds when a step is reached.                         *)
EXTENDS Rfm69, SequenceTheorems, TLAPS

Mode == {"standby", "rx", "tx"}
Job == [kind : {"data", "ack"}, to : Peers]
Try == [to : Peers, left : 0 .. RETRIES]

\* The steps.
Inner == {"read", "write", "testpa1", "testpa2", "assign"}
Settings == Inner \cup {"setMode"}
Terminal == {"initialize", "poll", "deliver", "round"}
Retrying == {"wait", "ACKReceived"}
Simple == {"handler", "payload", "fetch", "receiveBegin", "restart", "done", "fill"}
Sending == {"csma", "sendFrame", "sent"}

Step == {<<op>> : op \in Terminal \cup Simple}
        \cup (Settings \X Mode) \cup (Retrying \X Try) \cup (Sending \X Job)

\* What receiveDone returns to, and what fetching a frame does.
Returns == {"deliver", "csma", "ACKReceived"}
InReceive == {"handler", "done"} \cup Returns

\* Which step may come after which.
Follows(a, b) ==
    \/ a[1] \in {"handler", "payload", "fetch"} /\ b[1] \in {"handler", "done"}
    \/ a[1] = "receiveBegin" /\ b[1] \in InReceive
    \/ a[1] = "done" /\ b[1] \in Returns
    \/ a[1] = "restart" /\ (b = <<"setMode", "rx">> \/ b[1] = "csma")
    \/ a[1] \in Sending /\ b[1] \in {"round", "wait"}
    \/ a[1] = "fill" /\ b = <<"setMode", "tx">>
    \/ /\ a[1] \in Settings
       /\ \/ a[2] = "rx" /\ b[1] \in InReceive
          \/ a[2] = "tx" /\ b[1] = "sent"
          \/ a[2] = "standby" /\ b[1] \in {"fetch", "sendFrame", "fill", "round", "wait"} \cup Returns

Chain(steps) == \A i \in 1 .. Len(steps) - 1 : Follows(steps[i], steps[i + 1])

\* What is to be done: a sequence of steps each of which may follow the last.
Shape(steps) == steps \in Seq(Step) /\ Chain(steps)

Air == [kind : {"data"}, from : Peers, to : {"us", "another", "all"}, no : Nat]
       \cup [kind : {"ack"}, from : Peers, to : {"us"}, no : Nat]

History == [aired : Nat, delivered : Seq(Air), asked : Seq(Peers), answers : Seq(Peers),
            sent : Nat, due : Nat, messages : Nat, dates : Nat, acked : BOOLEAN]

RadioTypes ==
    /\ mode \in Mode /\ chip \in Mode
    /\ fifo \in Air \cup {NoFrame} /\ buf \in Air \cup {NoFrame}
    /\ got \in BOOLEAN
    /\ Shape(todo)
    /\ history \in History

----------------------------------------------------------------------------
\* Where Thread1 is.
Setting(m) == todo # <<>> /\ todo[1][1] \in Settings /\ todo[1][2] = m
Inside(m) == todo # <<>> /\ todo[1][1] \in Inner /\ todo[1][2] = m
Written(m) == todo # <<>> /\ todo[1][1] \in {"testpa1", "testpa2", "assign"} /\ todo[1][2] = m
At(op) == todo # <<>> /\ todo[1][1] = op
Next2(op) == Len(todo) > 1 /\ todo[2][1] = op
Landing(op) == At(op) \/ (Setting("standby") /\ Next2(op))
Restarts == At("restart") /\ Next2("setMode")

\* The bus: each of the two waits at most once, Thread1 only at a step on it.
Queues == {<<>>, <<"thread">>, <<"shell">>, <<"thread", "shell">>, <<"shell", "thread">>}
Queued(who, q) == \E i \in DOMAIN q : q[i] = who
BusInv ==
    /\ bus \in Queues
    /\ shell \in {"none", "idle", "reading", "writing"}
    /\ shell \in {"reading", "writing"} <=> Queued("shell", bus)
    /\ Queued("thread", bus) => todo # <<>> /\ todo[1][1] \in OnBus
    /\ At("initialize") => shell = "none"

\* _mode and the chip's mode, setMode by setMode.
ModeInv ==
    /\ mode = "tx" => At("sent") \/ Setting("standby") \/ todo = <<>>
    /\ At("sent") => mode # "rx"
    /\ At("fill") \/ Setting("tx") \/ Inside("rx") => mode = "standby"
    /\ \A m \in Mode : Written(m) => chip = m
    /\ (\A m \in Mode : ~Written(m)) => chip = mode

\* The shell's write of OPMODE does not come between Thread1's own and its
\* assignment of _mode, other than to the mode it is set to: since the bus is
\* handed over in order, a setMode begun before the shell's is through with it.
Writing(m) == Inside(m) /\ At("write")
ShellSafe(m) ==
    /\ shell = "reading" /\ bus[1] = "thread" => ~Inside(m)
    /\ \/ shell = "reading" /\ bus[1] = "shell"
       \/ shell = "writing" /\ bus[1] = "thread"
       => ~(Written(m) \/ Writing(m))
    /\ shell = "writing" /\ bus[1] = "shell" => ~Written(m)
ShellInv == \A m \in {"rx", "tx"} : ShellSafe(m)

\* A frame that Thread1 has not been given yet, and an ACK of the last message.
Fresh(f) ==
    /\ f.kind = "data" => \A i \in 1 .. Len(history.delivered) :
          history.delivered[i].kind = "data" => history.delivered[i].no < f.no
    /\ f.kind = "ack" => f.no = history.sent

\* Where receiveDone may find what is in the buffers, or has found it; and
\* where the chip's FIFO holds a frame of ours.
Usable == mode = "rx" \/ Setting("rx") \/ Restarts \/ Landing("deliver") \/ Landing("ACKReceived")
Filled == At("sent") \/ Setting("tx")

\* Whatever is in the buffers is fresh where receiveDone may find it.
FrameInv ==
    /\ Fresh(fifo)
    /\ fifo.kind = "data" /\ buf.kind = "data" => buf.no < fifo.no
    /\ Usable => Fresh(buf)
    /\ fifo.kind = "data" => fifo.no <= history.aired
    /\ buf.kind = "data" => buf.no <= history.aired
    /\ \A i \in 1 .. Len(history.delivered) :
          history.delivered[i].kind = "data" => history.delivered[i].no <= history.aired
    /\ \A i, j \in 1 .. Len(history.delivered) :
          i < j /\ history.delivered[i].kind = "data" /\ history.delivered[j].kind = "data"
          => history.delivered[i].no < history.delivered[j].no
    /\ Filled => fifo = NoFrame

\* A frame that receiveDone has returned stays where it is until the next call.
GotInv ==
    got => /\ mode # "rx" \/ Setting("standby")
           /\ ~(At("payload") \/ Landing("fetch") \/ At("receiveBegin") \/ Setting("rx") \/ Restarts)
           /\ Landing("deliver") \/ Landing("ACKReceived") => buf # NoFrame

\* An ACK is owed exactly while one is being sent, and to the last who asked.
IsAck(step) == step[1] \in Sending /\ step[2].kind = "ack"
Acks(steps) == {steps[i][2] : i \in {k \in 1 .. Len(steps) : IsAck(steps[k])}}
AnswerInv ==
    /\ \A i \in 1 .. Len(history.answers) :
          i <= Len(history.asked) /\ history.answers[i] = history.asked[i]
    /\ \A job \in Acks(todo) :
          /\ Len(history.asked) = Len(history.answers) + 1
          /\ job.to = history.asked[Len(history.asked)]
    /\ Len(history.asked) = Len(history.answers) \/ Acks(todo) # {}

----------------------------------------------------------------------------
(* Steps and sequences of steps.                                            *)

LEMMA StepFacts ==
    ASSUME NEW s \in Step
    PROVE  /\ s[1] \in Terminal \cup Simple \cup Settings \cup Retrying \cup Sending
           /\ s[1] \in Settings => s[2] \in Mode
           /\ s[1] \in Retrying => s[2] \in Try
           /\ s[1] \in Sending => s[2] \in Job
  BY DEF Step, Terminal, Simple, Settings, Inner, Retrying, Sending

LEMMA StepsMade ==
    /\ \A op \in Terminal \cup Simple : <<op>> \in Step
    /\ \A op \in Settings, m \in Mode : <<op, m>> \in Step
    /\ \A op \in Retrying, try \in Try : <<op, try>> \in Step
    /\ \A op \in Sending, job \in Job : <<op, job>> \in Step
  BY DEF Step

\* The step Thread1 is at.
LEMMA HeadIsFirst ==
    ASSUME todo \in Seq(Step)
    PROVE  /\ \A op : Doing(op) <=> At(op)
           /\ todo # <<>> => /\ Arg = todo[1][2] /\ todo[1] \in Step
                            /\ Len(todo) \in Nat /\ Len(todo) >= 1
                            /\ todo[1][1] = Head(todo)[1]
           /\ Len(todo) \in Nat
           /\ Len(todo) > 1 => todo[2] \in Step
<1>1. todo # <<>> => Len(todo) \in Nat /\ Len(todo) >= 1
  BY EmptySeq
<1> QED BY <1>1 DEF Doing, At, Arg

\* The steps of a call in the place of the call.
LEMMA DoSteps ==
    ASSUME todo \in Seq(Step), todo # <<>>, NEW steps \in Seq(Step), Do(steps)
    PROVE  /\ todo' \in Seq(Step) /\ Len(todo') = Len(steps) + Len(todo) - 1
           /\ \A i \in 1 .. Len(steps) : todo'[i] = steps[i]
           /\ \A i \in Len(steps) + 1 .. Len(steps) + Len(todo) - 1 :
                 todo'[i] = todo[i - Len(steps) + 1]
           /\ Len(steps) \in Nat /\ Len(todo) \in Nat /\ Len(todo) >= 1
<1>1. /\ Tail(todo) \in Seq(Step) /\ Len(Tail(todo)) = Len(todo) - 1
      /\ Len(todo) \in Nat /\ Len(todo) >= 1
      /\ \A i \in 1 .. Len(todo) - 1 : Tail(todo)[i] = todo[i + 1]
  BY HeadTailProperties, EmptySeq
<1>2. /\ todo' \in Seq(Step) /\ Len(todo') = Len(steps) + Len(Tail(todo))
      /\ \A i \in 1 .. Len(steps) + Len(Tail(todo)) :
            todo'[i] = IF i <= Len(steps) THEN steps[i] ELSE Tail(todo)[i - Len(steps)]
      /\ Len(steps) \in Nat
  BY <1>1, ConcatProperties, LenProperties DEF Do
<1>3. ASSUME NEW i \in 1 .. Len(steps) PROVE todo'[i] = steps[i]
  BY <1>1, <1>2, <1>3
<1>4. ASSUME NEW i \in Len(steps) + 1 .. Len(steps) + Len(todo) - 1
      PROVE  todo'[i] = todo[i - Len(steps) + 1]
  <2>1. i - Len(steps) \in 1 .. Len(todo) - 1 /\ i \in 1 .. Len(steps) + Len(Tail(todo))
    BY <1>1, <1>2, <1>4
  <2>2. todo'[i] = Tail(todo)[i - Len(steps)]
    BY <1>1, <1>2, <1>4, <2>1
  <2>3. Tail(todo)[i - Len(steps)] = todo[(i - Len(steps)) + 1]
    BY <1>1, <2>1
  <2> QED BY <2>2, <2>3
<1> QED BY <1>1, <1>2, <1>3, <1>4

\* They fit if the last of them may come before what was there.
LEMMA DoChain ==
    ASSUME todo \in Seq(Step), todo # <<>>, Chain(todo),
           NEW steps \in Seq(Step), Chain(steps), Do(steps),
           steps # <<>> /\ Len(todo) > 1 => Follows(steps[Len(steps)], todo[2])
    PROVE  Chain(todo')
<1>1. /\ Len(todo') = Len(steps) + Len(todo) - 1
      /\ \A i \in 1 .. Len(steps) : todo'[i] = steps[i]
      /\ \A i \in Len(steps) + 1 .. Len(steps) + Len(todo) - 1 :
            todo'[i] = todo[i - Len(steps) + 1]
      /\ Len(steps) \in Nat /\ Len(todo) \in Nat /\ Len(todo) >= 1
  BY DoSteps
<1>2. ASSUME NEW i \in 1 .. Len(todo') - 1
      PROVE  Follows(todo'[i], todo'[i + 1])
  <2>1. CASE i < Len(steps)
    BY <1>1, <1>2, <2>1 DEF Chain
  <2>2. CASE i = Len(steps)
    <3>1. todo'[i] = steps[Len(steps)] /\ todo'[i + 1] = todo[2] /\ Len(todo) > 1 /\ steps # <<>>
      BY <1>1, <1>2, <2>2, EmptySeq
    <3> QED BY <3>1
  <2>3. CASE i > Len(steps)
    <3>1. /\ todo'[i] = todo[i - Len(steps) + 1] /\ todo'[i + 1] = todo[(i - Len(steps) + 1) + 1]
          /\ i - Len(steps) + 1 \in 1 .. Len(todo) - 1
      BY <1>1, <1>2, <2>3
    <3> QED BY <3>1 DEF Chain
  <2> QED BY <1>1, <1>2, <2>1, <2>2, <2>3
<1> QED BY <1>2 DEF Chain

\* A step that ends a call of Thread1's round is the last there is.
LEMMA LastStep ==
    ASSUME todo \in Seq(Step), Chain(todo), todo # <<>>,
           todo[1][1] \in Terminal \cup Retrying
    PROVE  Len(todo) = 1
<1>1. Len(todo) \in Nat /\ Len(todo) >= 1
  BY HeadIsFirst
<1>2. ~Follows(todo[1], todo[2])
  BY DEF Follows, Terminal, Retrying, Sending, Settings, Inner
<1>3. ASSUME Len(todo) > 1 PROVE FALSE
  <2>1. 1 \in 1 .. Len(todo) - 1
    BY <1>1, <1>3
  <2>2. Follows(todo[1], todo[1 + 1])
    BY <2>1 DEF Chain
  <2> QED BY <1>2, <2>2
<1>4. ~(Len(todo) > 1)
  BY <1>3
<1>5. \A n \in Nat : n >= 1 /\ ~(n > 1) => n = 1
  OBVIOUS
<1> QED BY <1>1, <1>4, <1>5, Zenon

\* After a step that sends there is the last one only.
LEMMA SendingStep ==
    ASSUME NEW q \in Seq(Step), Chain(q), NEW i \in 1 .. Len(q), q[i][1] \in Sending,
           NEW j \in 1 .. Len(q), i < j
    PROVE  q[j][1] \in {"round", "wait"}
<1>1. Len(q) \in Nat
  OBVIOUS
<1>2. i \in 1 .. Len(q) - 1
  BY <1>1
<1>3. Follows(q[i], q[i + 1])
  BY <1>2 DEF Chain
<1>4. q[i + 1][1] \in {"round", "wait"}
  BY <1>3 DEF Follows, Sending, Settings, Inner
<1>5. ASSUME i + 1 < j PROVE FALSE
  <2>1. i + 1 \in 1 .. Len(q) - 1
    BY <1>1, <1>5
  <2>2. Follows(q[i + 1], q[(i + 1) + 1])
    BY <2>1 DEF Chain
  <2> QED BY <2>2, <1>4 DEF Follows, Sending, Settings, Inner
<1>6. \A n, k \in Nat : n < k /\ ~(n + 1 < k) => n + 1 = k
  OBVIOUS
<1>7. i \in Nat /\ j \in Nat
  BY <1>1
<1>8. i + 1 = j
  BY <1>5, <1>6, <1>7, Zenon
<1> QED BY <1>4, <1>8

LEMMA SendingRest ==
    ASSUME Shape(todo), todo # <<>>, todo[1][1] \in Sending
    PROVE  Acks(Tail(todo)) = {}
<1>1. /\ Len(Tail(todo)) = Len(todo) - 1 /\ Len(todo) \in Nat /\ Len(todo) >= 1
      /\ \A i \in 1 .. Len(todo) - 1 : Tail(todo)[i] = todo[i + 1]
      /\ todo \in Seq(Step)
  BY HeadTailProperties, EmptySeq DEF Shape
<1>2. ASSUME NEW i \in 1 .. Len(Tail(todo)) PROVE ~IsAck(Tail(todo)[i])
  <2>1. 1 \in 1 .. Len(todo) /\ i + 1 \in 1 .. Len(todo) /\ 1 < i + 1
    BY <1>1
  <2>2. todo[i + 1][1] \in {"round", "wait"}
    BY <2>1, <1>1, SendingStep DEF Shape
  <2>3. Tail(todo)[i] = todo[i + 1]
    BY <1>1
  <2> QED BY <2>2, <2>3 DEF IsAck, Sending
<1> QED BY <1>2 DEF Acks

\* The ACKs that are to be sent.
LEMMA DoAcks ==
    ASSUME Shape(todo), todo # <<>>, NEW steps \in Seq(Step), Do(steps)
    PROVE  /\ Acks(todo') = Acks(steps) \cup Acks(Tail(todo))
           /\ IsAck(todo[1]) => Acks(todo) = {todo[1][2]}
           /\ ~IsAck(todo[1]) => Acks(todo) = Acks(Tail(todo))
<1>1. /\ Tail(todo) \in Seq(Step) /\ Len(Tail(todo)) = Len(todo) - 1
      /\ Len(todo) \in Nat /\ Len(todo) >= 1
      /\ \A i \in 1 .. Len(todo) - 1 : Tail(todo)[i] = todo[i + 1]
  BY HeadTailProperties, EmptySeq DEF Shape
<1>2. /\ Len(todo') = Len(steps) + Len(Tail(todo))
      /\ \A i \in 1 .. Len(steps) + Len(Tail(todo)) :
            todo'[i] = IF i <= Len(steps) THEN steps[i] ELSE Tail(todo)[i - Len(steps)]
      /\ Len(steps) \in Nat
  BY <1>1, ConcatProperties, LenProperties DEF Do
<1>3. ASSUME NEW job \in Acks(todo') PROVE job \in Acks(steps) \cup Acks(Tail(todo))
  <2>1. PICK i \in 1 .. Len(todo') : IsAck(todo'[i]) /\ job = todo'[i][2]
    BY <1>3 DEF Acks
  <2>2. CASE i <= Len(steps)
    BY <1>2, <2>1, <2>2 DEF Acks
  <2>3. CASE ~(i <= Len(steps))
    <3>1. i - Len(steps) \in 1 .. Len(Tail(todo)) /\ todo'[i] = Tail(todo)[i - Len(steps)]
      BY <1>1, <1>2, <2>3
    <3> QED BY <3>1, <2>1 DEF Acks
  <2> QED BY <2>2, <2>3
<1>4. ASSUME NEW job \in Acks(steps) PROVE job \in Acks(todo')
  <2>1. PICK i \in 1 .. Len(steps) : IsAck(steps[i]) /\ job = steps[i][2]
    BY <1>4 DEF Acks
  <2>2. i \in 1 .. Len(todo') /\ todo'[i] = steps[i]
    BY <1>1, <1>2
  <2> QED BY <2>1, <2>2 DEF Acks
<1>5. ASSUME NEW job \in Acks(Tail(todo)) PROVE job \in Acks(todo')
  <2>1. PICK i \in 1 .. Len(Tail(todo)) : IsAck(Tail(todo)[i]) /\ job = Tail(todo)[i][2]
    BY <1>5 DEF Acks
  <2>2. i + Len(steps) \in 1 .. Len(todo') /\ todo'[i + Len(steps)] = Tail(todo)[i]
    BY <1>1, <1>2
  <2> QED BY <2>1, <2>2 DEF Acks
<1>6. \A job : job \in Acks(todo) <=> (IsAck(todo[1]) /\ job = todo[1][2]) \/ job \in Acks(Tail(todo))
  <2>1. ASSUME NEW job \in Acks(todo), ~(IsAck(todo[1]) /\ job = todo[1][2])
        PROVE  job \in Acks(Tail(todo))
    <3>1. PICK i \in 1 .. Len(todo) : IsAck(todo[i]) /\ job = todo[i][2]
      BY <2>1 DEF Acks
    <3>2. i # 1
      BY <2>1, <3>1
    <3>3. i - 1 \in 1 .. Len(Tail(todo)) /\ Tail(todo)[i - 1] = todo[i]
      BY <1>1, <3>2
    <3> QED BY <3>1, <3>3 DEF Acks
  <2>2. ASSUME NEW job \in Acks(Tail(todo)) PROVE job \in Acks(todo)
    <3>1. PICK i \in 1 .. Len(Tail(todo)) : IsAck(Tail(todo)[i]) /\ job = Tail(todo)[i][2]
      BY <2>2 DEF Acks
    <3>2. i + 1 \in 1 .. Len(todo) /\ todo[i + 1] = Tail(todo)[i]
      BY <1>1
    <3> QED BY <3>1, <3>2 DEF Acks
  <2>3. IsAck(todo[1]) => todo[1][2] \in Acks(todo)
    BY <1>1 DEF Acks
  <2> QED BY <2>1, <2>2, <2>3, Zenon
<1>7. IsAck(todo[1]) => Acks(Tail(todo)) = {}
  BY SendingRest DEF IsAck
<1>8. Acks(todo') = Acks(steps) \cup Acks(Tail(todo))
  BY <1>3, <1>4, <1>5
<1> QED BY <1>6, <1>7, <1>8

\* The sequences of steps the code's calls are made of.
LEMMA Join12 ==
    ASSUME NEW S, NEW a \in S, NEW b \in S, NEW c \in S
    PROVE  <<a>> \o <<b, c>> = <<a, b, c>>
<1> DEFINE q == <<a>>  r == <<b, c>>  t == <<a, b, c>>
<1>1. /\ q \in Seq(S) /\ r \in Seq(S) /\ t \in Seq(S)
      /\ Len(q) = 1 /\ Len(r) = 2 /\ Len(t) = 3
      /\ q[1] = a /\ r[1] = b /\ r[2] = c /\ t[1] = a /\ t[2] = b /\ t[3] = c
  OBVIOUS
<1> HIDE DEF q, r, t
<1>2. /\ q \o r \in Seq(S) /\ Len(q \o r) = Len(q) + Len(r)
      /\ \A i \in 1 .. Len(q) + Len(r) :
            (q \o r)[i] = IF i <= Len(q) THEN q[i] ELSE r[i - Len(q)]
  BY <1>1, ConcatProperties
<1>3. Len(q \o r) = 3 /\ Len(q \o r) = Len(t)
  BY <1>1, <1>2
<1>4. \A i \in 1 .. 3 : i = 1 \/ i = 2 \/ i = 3
  OBVIOUS
<1>5. (q \o r)[1] = a /\ (q \o r)[2] = b /\ (q \o r)[3] = c
  BY <1>1, <1>2
<1>6. \A i \in 1 .. Len(q \o r) : (q \o r)[i] = t[i]
  BY <1>1, <1>3, <1>4, <1>5
<1>7. q \o r = t
  BY <1>1, <1>2, <1>3, <1>6, SeqEqual
<1> QED BY <1>7 DEF q, r, t

LEMMA Join21 ==
    ASSUME NEW S, NEW a \in S, NEW b \in S, NEW c \in S
    PROVE  <<a, b>> \o <<c>> = <<a, b, c>>
<1> DEFINE q == <<a, b>>  r == <<c>>  t == <<a, b, c>>
<1>1. /\ q \in Seq(S) /\ r \in Seq(S) /\ t \in Seq(S)
      /\ Len(q) = 2 /\ Len(r) = 1 /\ Len(t) = 3
      /\ q[1] = a /\ q[2] = b /\ r[1] = c /\ t[1] = a /\ t[2] = b /\ t[3] = c
  OBVIOUS
<1> HIDE DEF q, r, t
<1>2. /\ q \o r \in Seq(S) /\ Len(q \o r) = Len(q) + Len(r)
      /\ \A i \in 1 .. Len(q) + Len(r) :
            (q \o r)[i] = IF i <= Len(q) THEN q[i] ELSE r[i - Len(q)]
  BY <1>1, ConcatProperties
<1>3. Len(q \o r) = 3 /\ Len(q \o r) = Len(t)
  BY <1>1, <1>2
<1>4. \A i \in 1 .. 3 : i = 1 \/ i = 2 \/ i = 3
  OBVIOUS
<1>5. (q \o r)[1] = a /\ (q \o r)[2] = b /\ (q \o r)[3] = c
  BY <1>1, <1>2
<1>6. \A i \in 1 .. Len(q \o r) : (q \o r)[i] = t[i]
  BY <1>1, <1>3, <1>4, <1>5
<1>7. q \o r = t
  BY <1>1, <1>2, <1>3, <1>6, SeqEqual
<1> QED BY <1>7 DEF q, r, t

LEMMA Join31 ==
    ASSUME NEW S, NEW a \in S, NEW b \in S, NEW c \in S, NEW d \in S
    PROVE  <<a, b, c>> \o <<d>> = <<a, b, c, d>>
<1> DEFINE q == <<a, b, c>>  r == <<d>>  t == <<a, b, c, d>>
<1>1. /\ q \in Seq(S) /\ r \in Seq(S) /\ t \in Seq(S)
      /\ Len(q) = 3 /\ Len(r) = 1 /\ Len(t) = 4
      /\ q[1] = a /\ q[2] = b /\ q[3] = c /\ r[1] = d
      /\ t[1] = a /\ t[2] = b /\ t[3] = c /\ t[4] = d
  OBVIOUS
<1> HIDE DEF q, r, t
<1>2. /\ q \o r \in Seq(S) /\ Len(q \o r) = Len(q) + Len(r)
      /\ \A i \in 1 .. Len(q) + Len(r) :
            (q \o r)[i] = IF i <= Len(q) THEN q[i] ELSE r[i - Len(q)]
  BY <1>1, ConcatProperties
<1>3. Len(q \o r) = 4 /\ Len(q \o r) = Len(t)
  BY <1>1, <1>2
<1>4. \A i \in 1 .. 4 : i = 1 \/ i = 2 \/ i = 3 \/ i = 4
  OBVIOUS
<1>5. (q \o r)[1] = a /\ (q \o r)[2] = b /\ (q \o r)[3] = c /\ (q \o r)[4] = d
  BY <1>1, <1>2
<1>6. \A i \in 1 .. Len(q \o r) : (q \o r)[i] = t[i]
  BY <1>1, <1>3, <1>4, <1>5
<1>7. q \o r = t
  BY <1>1, <1>2, <1>3, <1>6, SeqEqual
<1> QED BY <1>7 DEF q, r, t

\* A step done, a step in the place of another, and a call's two first steps.
LEMMA Pop ==
    ASSUME Shape(todo), todo # <<>>, Do(<<>>)
    PROVE  /\ Shape(todo')
           /\ todo' # <<>> <=> Len(todo) > 1
           /\ Len(todo') > 1 <=> Len(todo) > 2
           /\ Len(todo) > 1 => /\ todo'[1] = todo[2] /\ todo[2] \in Step
                               /\ Follows(todo[1], todo[2])
           /\ Len(todo) > 2 => /\ todo'[2] = todo[3] /\ todo[3] \in Step
                               /\ Follows(todo[2], todo[3])
           /\ IsAck(todo[1]) => Acks(todo) = {todo[1][2]} /\ Acks(todo') = {}
           /\ ~IsAck(todo[1]) => Acks(todo') = Acks(todo)
<1>1. /\ todo \in Seq(Step) /\ Chain(todo)
      /\ <<>> \in Seq(Step) /\ Chain(<<>>) /\ Len(<<>>) = 0 /\ Acks(<<>>) = {}
  BY DEF Shape, Chain, Acks
<1>2. /\ todo' \in Seq(Step) /\ Len(todo') = Len(todo) - 1
      /\ \A i \in 1 .. Len(todo) - 1 : todo'[i] = todo[i + 1]
      /\ Len(todo) \in Nat /\ Len(todo) >= 1
  <2>1. /\ todo' \in Seq(Step) /\ Len(todo') = Len(<<>>) + Len(todo) - 1
        /\ \A i \in Len(<<>>) + 1 .. Len(<<>>) + Len(todo) - 1 :
              todo'[i] = todo[i - Len(<<>>) + 1]
        /\ Len(todo) \in Nat /\ Len(todo) >= 1
    BY <1>1, DoSteps
  <2> QED BY <1>1, <2>1
<1>3. Chain(todo')
  BY <1>1, DoChain
<1>4. Len(todo) > 1 => /\ todo'[1] = todo[2] /\ todo[2] \in Step
                       /\ Follows(todo[1], todo[2])
  BY <1>1, <1>2 DEF Chain
<1>5. Len(todo) > 2 => /\ todo'[2] = todo[3] /\ todo[3] \in Step
                       /\ Follows(todo[2], todo[3])
  BY <1>1, <1>2 DEF Chain
<1>6. (todo' # <<>> <=> Len(todo) > 1) /\ (Len(todo') > 1 <=> Len(todo) > 2)
  BY <1>2, EmptySeq
<1>7. /\ Acks(todo') = Acks(<<>>) \cup Acks(Tail(todo))
      /\ IsAck(todo[1]) => Acks(todo) = {todo[1][2]}
      /\ ~IsAck(todo[1]) => Acks(todo) = Acks(Tail(todo))
  BY <1>1, DoAcks
<1>8. IsAck(todo[1]) => Acks(Tail(todo)) = {}
  BY SendingRest DEF IsAck
<1> QED BY <1>1, <1>2, <1>3, <1>4, <1>5, <1>6, <1>7, <1>8 DEF Shape

LEMMA Put ==
    ASSUME Shape(todo), todo # <<>>, NEW s \in Step, Do(<<s>>),
           Len(todo) > 1 => Follows(s, todo[2])
    PROVE  /\ Shape(todo') /\ todo' # <<>>
           /\ todo'[1] = s
           /\ Len(todo') > 1 <=> Len(todo) > 1
           /\ Len(todo) > 1 => todo'[2] = todo[2] /\ todo[2] \in Step /\ Follows(todo[1], todo[2])
           /\ IsAck(todo[1]) => /\ Acks(todo) = {todo[1][2]}
                                /\ Acks(todo') = IF IsAck(s) THEN {s[2]} ELSE {}
           /\ ~IsAck(todo[1]) => Acks(todo') = Acks(todo) \cup IF IsAck(s) THEN {s[2]} ELSE {}
<1>1. /\ todo \in Seq(Step) /\ Chain(todo)
      /\ <<s>> \in Seq(Step) /\ Chain(<<s>>) /\ Len(<<s>>) = 1 /\ <<s>>[1] = s
      /\ Acks(<<s>>) = IF IsAck(s) THEN {s[2]} ELSE {}
  BY DEF Shape, Chain, Acks
<1>2. /\ todo' \in Seq(Step) /\ Len(todo') = Len(<<s>>) + Len(todo) - 1
      /\ \A i \in 1 .. Len(<<s>>) : todo'[i] = <<s>>[i]
      /\ \A i \in Len(<<s>>) + 1 .. Len(<<s>>) + Len(todo) - 1 :
            todo'[i] = todo[i - Len(<<s>>) + 1]
      /\ Len(todo) \in Nat /\ Len(todo) >= 1
  BY <1>1, DoSteps
<1>3. Chain(todo')
  <2>1. <<s>> # <<>> /\ Len(todo) > 1 => Follows(<<s>>[Len(<<s>>)], todo[2])
    BY <1>1
  <2> QED BY <1>1, <2>1, DoChain
<1>4. todo'[1] = s /\ todo' # <<>> /\ (Len(todo') > 1 <=> Len(todo) > 1)
  BY <1>1, <1>2, EmptySeq
<1>5. Len(todo) > 1 => todo'[2] = todo[2] /\ todo[2] \in Step /\ Follows(todo[1], todo[2])
  BY <1>1, <1>2 DEF Chain
<1>6. /\ Acks(todo') = Acks(<<s>>) \cup Acks(Tail(todo))
      /\ IsAck(todo[1]) => Acks(todo) = {todo[1][2]}
      /\ ~IsAck(todo[1]) => Acks(todo) = Acks(Tail(todo))
  BY <1>1, DoAcks
<1>7. IsAck(todo[1]) => Acks(Tail(todo)) = {}
  BY SendingRest DEF IsAck
<1> QED BY <1>1, <1>2, <1>3, <1>4, <1>5, <1>6, <1>7 DEF Shape

LEMMA Push ==
    ASSUME Shape(todo), todo # <<>>, NEW steps \in Seq(Step), Do(steps), Chain(steps),
           Len(steps) > 1,
           Len(todo) > 1 => Follows(steps[Len(steps)], todo[2])
    PROVE  /\ Shape(todo') /\ todo' # <<>> /\ Len(todo') > 1
           /\ todo'[1] = steps[1] /\ todo'[2] = steps[2]
           /\ steps[1] \in Step /\ steps[2] \in Step /\ Follows(steps[1], steps[2])
           /\ Len(todo) > 1 => Follows(todo[1], todo[2]) /\ todo[2] \in Step
           /\ IsAck(todo[1]) => Acks(todo) = {todo[1][2]} /\ Acks(todo') = Acks(steps)
           /\ ~IsAck(todo[1]) => Acks(todo') = Acks(todo) \cup Acks(steps)
<1>1. todo \in Seq(Step) /\ Chain(todo)
  BY DEF Shape
<1>2. /\ todo' \in Seq(Step) /\ Len(todo') = Len(steps) + Len(todo) - 1
      /\ \A i \in 1 .. Len(steps) : todo'[i] = steps[i]
      /\ Len(todo) \in Nat /\ Len(todo) >= 1 /\ Len(steps) \in Nat
  BY <1>1, DoSteps
<1>3. Chain(todo')
  BY <1>1, DoChain
<1>4. /\ todo' # <<>> /\ Len(todo') > 1 /\ todo'[1] = steps[1] /\ todo'[2] = steps[2]
      /\ steps[1] \in Step /\ steps[2] \in Step
  BY <1>2, EmptySeq
<1>5. Follows(steps[1], steps[2]) /\ (Len(todo) > 1 => Follows(todo[1], todo[2]) /\ todo[2] \in Step)
  BY <1>1, <1>2 DEF Chain
<1>6. /\ Acks(todo') = Acks(steps) \cup Acks(Tail(todo))
      /\ IsAck(todo[1]) => Acks(todo) = {todo[1][2]}
      /\ ~IsAck(todo[1]) => Acks(todo) = Acks(Tail(todo))
  BY <1>1, DoAcks
<1>7. IsAck(todo[1]) => Acks(Tail(todo)) = {}
  BY SendingRest DEF IsAck
<1> QED BY <1>1, <1>2, <1>3, <1>4, <1>5, <1>6, <1>7 DEF Shape
----------------------------------------------------------------------------
(* The steps each action leaves to do.                                      *)

LEMMA Heads ==
    ASSUME RadioTypes, NEW op, Doing(op)
    PROVE  /\ Shape(todo) /\ todo \in Seq(Step) /\ todo # <<>>
           /\ todo[1] \in Step /\ todo[1][1] = op /\ Arg = todo[1][2]
           /\ Len(todo) > 1 => Follows(todo[1], todo[2]) /\ todo[2] \in Step
           /\ op \in Terminal \cup Retrying => Len(todo) = 1
           /\ op \in Settings => Arg \in Mode /\ todo[1] = <<op, Arg>>
           /\ op \in Retrying => Arg \in Try /\ todo[1] = <<op, Arg>>
           /\ op \in Sending => Arg \in Job /\ todo[1] = <<op, Arg>>
<1>1. Shape(todo) /\ todo \in Seq(Step) /\ Chain(todo) /\ todo # <<>>
  BY DEF RadioTypes, Shape, Doing
<1>2. todo[1] \in Step /\ todo[1][1] = op /\ Arg = todo[1][2] /\ Len(todo) \in Nat
  BY <1>1, HeadIsFirst DEF Doing
<1>3. Len(todo) > 1 => Follows(todo[1], todo[2]) /\ todo[2] \in Step
  BY <1>1, <1>2 DEF Chain
<1>4. op \in Terminal \cup Retrying => Len(todo) = 1
  BY <1>1, <1>2, LastStep
<1>5. /\ op \in Settings => Arg \in Mode /\ todo[1] = <<op, Arg>>
      /\ op \in Retrying => Arg \in Try /\ todo[1] = <<op, Arg>>
      /\ op \in Sending => Arg \in Job /\ todo[1] = <<op, Arg>>
  BY <1>2 DEF Step, Terminal, Simple, Settings, Inner, Retrying, Sending
<1> QED BY <1>1, <1>2, <1>3, <1>4, <1>5

LEMMA SetModeSteps ==
    ASSUME RadioTypes, SetMode
    PROVE  /\ Shape(todo') /\ todo # <<>> /\ todo[1] = <<"setMode", Arg>> /\ Arg \in Mode
           /\ Acks(todo') = Acks(todo)
           /\ Len(todo) > 1 => Follows(todo[1], todo[2]) /\ todo[2] \in Step
           /\ \/ /\ Arg # mode /\ todo' # <<>> /\ todo'[1] = <<"read", Arg>>
                 /\ Len(todo') > 1 <=> Len(todo) > 1
                 /\ Len(todo) > 1 => todo'[2] = todo[2]
              \/ /\ Arg = mode
                 /\ todo' # <<>> <=> Len(todo) > 1
                 /\ Len(todo') > 1 <=> Len(todo) > 2
                 /\ Len(todo) > 1 => todo'[1] = todo[2]
                 /\ Len(todo) > 2 => todo'[2] = todo[3] /\ Follows(todo[2], todo[3])
<1>1. Doing("setMode")
  BY DEF SetMode
<1>2. /\ Shape(todo) /\ todo # <<>> /\ todo[1] = <<"setMode", Arg>> /\ Arg \in Mode
      /\ Len(todo) > 1 => Follows(todo[1], todo[2]) /\ todo[2] \in Step
      /\ ~IsAck(todo[1])
  BY <1>1, Heads DEF Settings, IsAck, Sending
<1>3. CASE Arg = mode
  <2>1. Do(<<>>)
    BY <1>3 DEF SetMode
  <2> QED BY <1>2, <1>3, <2>1, Pop
<1>4. CASE Arg # mode
  <2>1. Do(<<<<"read", Arg>>>>)
    BY <1>4 DEF SetMode
  <2>2. <<"read", Arg>> \in Step /\ ~IsAck(<<"read", Arg>>)
    BY <1>2 DEF Step, Settings, Inner, IsAck, Sending
  <2>3. Len(todo) > 1 => Follows(<<"read", Arg>>, todo[2])
    BY <1>2 DEF Follows, Settings, Inner, Sending
  <2> QED BY <1>2, <1>4, <2>1, <2>2, <2>3, Put
<1> QED BY <1>3, <1>4
LEMMA AccessSteps ==
    ASSUME RadioTypes, NEW op \in {"read", "write", "testpa1", "testpa2"}, Access(op)
    PROVE  /\ Shape(todo') /\ todo # <<>> /\ todo[1] = <<op, Arg>> /\ Arg \in Mode
           /\ Acks(todo') = Acks(todo)
           /\ Len(todo) > 1 => Follows(todo[1], todo[2]) /\ todo[2] \in Step
           /\ todo' # <<>> /\ todo'[1] = <<Following(op, Arg), Arg>>
           /\ Len(todo') > 1 <=> Len(todo) > 1
           /\ Len(todo) > 1 => todo'[2] = todo[2]
           /\ Following(op, Arg) \in Inner
<1>1. Doing(op) /\ Do(<<<<Following(op, Arg), Arg>>>>)
  BY DEF Access, Turn
<1>2. /\ Shape(todo) /\ todo # <<>> /\ todo[1] = <<op, Arg>> /\ Arg \in Mode
      /\ Len(todo) > 1 => Follows(todo[1], todo[2]) /\ todo[2] \in Step
      /\ ~IsAck(todo[1])
  BY <1>1, Heads DEF Settings, Inner, IsAck, Sending
<1>3. Following(op, Arg) \in Inner
  BY DEF Following, Inner
<1>4. <<Following(op, Arg), Arg>> \in Step /\ ~IsAck(<<Following(op, Arg), Arg>>)
  BY <1>2, <1>3 DEF Step, Settings, Inner, IsAck, Sending
<1>5. Len(todo) > 1 => Follows(<<Following(op, Arg), Arg>>, todo[2])
  BY <1>2, <1>3 DEF Follows, Settings, Inner, Sending
<1> QED BY <1>1, <1>2, <1>3, <1>4, <1>5, Put

LEMMA AssignSteps ==
    ASSUME RadioTypes, Assign
    PROVE  /\ Shape(todo') /\ todo # <<>> /\ todo[1] = <<"assign", Arg>> /\ Arg \in Mode
           /\ Acks(todo') = Acks(todo)
           /\ Len(todo) > 1 => Follows(todo[1], todo[2]) /\ todo[2] \in Step
           /\ todo' # <<>> <=> Len(todo) > 1
           /\ Len(todo') > 1 <=> Len(todo) > 2
           /\ Len(todo) > 1 => todo'[1] = todo[2]
           /\ Len(todo) > 2 => todo'[2] = todo[3] /\ Follows(todo[2], todo[3])
<1>1. Doing("assign") /\ Do(<<>>)
  BY DEF Assign
<1>2. /\ Shape(todo) /\ todo # <<>> /\ todo[1] = <<"assign", Arg>> /\ Arg \in Mode
      /\ Len(todo) > 1 => Follows(todo[1], todo[2]) /\ todo[2] \in Step
      /\ ~IsAck(todo[1])
  BY <1>1, Heads DEF Settings, Inner, IsAck, Sending
<1> QED BY <1>1, <1>2, Pop

LEMMA InitializeSteps ==
    ASSUME RadioTypes, Initialize
    PROVE  /\ Shape(todo') /\ Acks(todo) = {} /\ Acks(todo') = {}
           /\ todo # <<>> /\ todo[1][1] = "initialize" /\ Len(todo) = 1
           /\ todo' # <<>> => todo'[1] = <<"poll">>
           /\ ~(Len(todo') > 1)
<1>1. Doing("initialize") /\ todo' \in {<<>>, <<<<"poll">>>>}
  BY DEF Initialize
<1>2. todo # <<>> /\ todo[1][1] = "initialize" /\ Len(todo) = 1
  BY <1>1, Heads DEF Terminal
<1>3. Acks(todo) = {}
  BY <1>2 DEF Acks, IsAck, Sending
<1>4. <<"poll">> \in Step /\ ~IsAck(<<"poll">>)
  BY DEF Step, Terminal, IsAck, Sending
<1>5. CASE todo' = <<>>
  <2>1. Shape(<<>>) /\ Acks(<<>>) = {} /\ ~(Len(<<>>) > 1)
    BY DEF Shape, Chain, Acks
  <2> QED BY <1>2, <1>3, <1>5, <2>1
<1>6. CASE todo' = <<<<"poll">>>>
  <2>1. /\ Shape(<<<<"poll">>>>) /\ Acks(<<<<"poll">>>>) = {} /\ ~(Len(<<<<"poll">>>>) > 1)
        /\ <<<<"poll">>>>[1] = <<"poll">>
    BY <1>4 DEF Shape, Chain, Acks
  <2> QED BY <1>2, <1>3, <1>6, <2>1
<1> QED BY <1>1, <1>5, <1>6

LEMMA HandlerSteps ==
    ASSUME RadioTypes, Handler
    PROVE  /\ Shape(todo') /\ todo # <<>> /\ todo[1][1] = "handler"
           /\ Acks(todo') = Acks(todo)
           /\ Len(todo) > 1 => Follows(todo[1], todo[2]) /\ todo[2] \in Step
           /\ \/ /\ mode = "rx"
                 /\ todo' # <<>> /\ todo'[1] = <<"payload">>
                 /\ Len(todo') > 1 <=> Len(todo) > 1
                 /\ Len(todo) > 1 => todo'[2] = todo[2]
              \/ /\ mode # "rx"
                 /\ todo' # <<>> <=> Len(todo) > 1
                 /\ Len(todo') > 1 <=> Len(todo) > 2
                 /\ Len(todo) > 1 => todo'[1] = todo[2]
                 /\ Len(todo) > 2 => todo'[2] = todo[3] /\ Follows(todo[2], todo[3])
<1>1. Doing("handler")
  BY DEF Handler
<1>2. /\ Shape(todo) /\ todo # <<>> /\ todo[1][1] = "handler"
      /\ Len(todo) > 1 => Follows(todo[1], todo[2]) /\ todo[2] \in Step
      /\ ~IsAck(todo[1])
  BY <1>1, Heads DEF IsAck, Sending
<1>3. CASE mode # "rx"
  <2>1. Do(<<>>)
    BY <1>3 DEF Handler
  <2> QED BY <1>2, <1>3, <2>1, Pop
<1>4. CASE mode = "rx"
  <2>1. Do(<<<<"payload">>>>)
    BY <1>4 DEF Handler
  <2>2. <<"payload">> \in Step /\ ~IsAck(<<"payload">>)
    BY DEF Step, Simple, IsAck, Sending
  <2>3. Len(todo) > 1 => Follows(<<"payload">>, todo[2])
    BY <1>2 DEF Follows, Settings, Inner, Sending
  <2> QED BY <1>2, <1>4, <2>1, <2>2, <2>3, Put
<1> QED BY <1>3, <1>4

LEMMA PayloadSteps ==
    ASSUME RadioTypes, Payload
    PROVE  /\ Shape(todo') /\ todo # <<>> /\ todo[1][1] = "payload"
           /\ Acks(todo') = Acks(todo)
           /\ Len(todo) > 1 => Follows(todo[1], todo[2]) /\ todo[2] \in Step
           /\ \/ /\ fifo = NoFrame
                 /\ todo' # <<>> <=> Len(todo) > 1
                 /\ Len(todo') > 1 <=> Len(todo) > 2
                 /\ Len(todo) > 1 => todo'[1] = todo[2]
                 /\ Len(todo) > 2 => todo'[2] = todo[3] /\ Follows(todo[2], todo[3])
              \/ /\ fifo # NoFrame /\ todo' # <<>> /\ Len(todo') > 1
                 /\ todo'[1] = <<"setMode", "standby">> /\ todo'[2] = <<"fetch">>
<1>1. Doing("payload")
  BY DEF Payload, Turn
<1>2. /\ Shape(todo) /\ todo # <<>> /\ todo[1][1] = "payload"
      /\ Len(todo) > 1 => Follows(todo[1], todo[2]) /\ todo[2] \in Step
      /\ ~IsAck(todo[1])
  BY <1>1, Heads DEF IsAck, Sending
<1>3. CASE fifo = NoFrame
  <2>1. Do(<<>>)
    BY <1>3 DEF Payload
  <2> QED BY <1>2, <1>3, <2>1, Pop
<1>4. CASE fifo # NoFrame
  <2> DEFINE steps == <<<<"setMode", "standby">>, <<"fetch">>>>
  <2>1. Do(steps)
    BY <1>4 DEF Payload
  <2>2. /\ steps \in Seq(Step) /\ Len(steps) > 1 /\ Len(steps) = 2
        /\ steps[1] = <<"setMode", "standby">> /\ steps[2] = <<"fetch">>
    BY DEF Step, Simple, Settings, Mode
  <2>3. Chain(steps) /\ Acks(steps) = {}
    BY <2>2 DEF Chain, Follows, Acks, IsAck, Settings, Sending
  <2>4. Len(todo) > 1 => Follows(steps[Len(steps)], todo[2])
    BY <1>2 DEF Follows, Settings, Inner, Sending
  <2> HIDE DEF steps
  <2>5. /\ Shape(todo') /\ todo' # <<>> /\ Len(todo') > 1
        /\ todo'[1] = steps[1] /\ todo'[2] = steps[2]
        /\ Acks(todo') = Acks(todo) \cup Acks(steps)
    BY <1>2, <2>1, <2>2, <2>3, <2>4, Push
  <2> QED BY <1>2, <1>4, <2>2, <2>3, <2>5
<1> QED BY <1>3, <1>4

LEMMA FetchSteps ==
    ASSUME RadioTypes, Fetch
    PROVE  /\ Shape(todo') /\ todo # <<>> /\ todo[1][1] = "fetch"
           /\ Acks(todo') = Acks(todo)
           /\ Len(todo) > 1 => Follows(todo[1], todo[2]) /\ todo[2] \in Step
           /\ todo' # <<>>
           /\ Len(todo') > 1 <=> Len(todo) > 1
           /\ Len(todo) > 1 => todo'[2] = todo[2]
           /\ \/ todo'[1] = <<"setMode", "rx">> /\ fifo # NoFrame /\ buf' = fifo
              \/ todo'[1] = <<"receiveBegin">> /\ buf' = NoFrame
<1>1. Doing("fetch")
  BY DEF Fetch, Turn
<1>2. /\ Shape(todo) /\ todo # <<>> /\ todo[1][1] = "fetch"
      /\ Len(todo) > 1 => Follows(todo[1], todo[2]) /\ todo[2] \in Step
      /\ ~IsAck(todo[1])
  BY <1>1, Heads DEF IsAck, Sending
<1>3. CASE Do(<<<<"setMode", "rx">>>>) /\ fifo # NoFrame /\ buf' = fifo
  <2>1. <<"setMode", "rx">> \in Step /\ ~IsAck(<<"setMode", "rx">>)
    BY DEF Step, Settings, Mode, IsAck, Sending
  <2>2. Len(todo) > 1 => Follows(<<"setMode", "rx">>, todo[2])
    BY <1>2 DEF Follows, Settings, Inner, Sending, InReceive
  <2> QED BY <1>2, <1>3, <2>1, <2>2, Put
<1>4. CASE Do(<<<<"receiveBegin">>>>) /\ buf' = NoFrame
  <2>1. <<"receiveBegin">> \in Step /\ ~IsAck(<<"receiveBegin">>)
    BY DEF Step, Simple, IsAck, Sending
  <2>2. Len(todo) > 1 => Follows(<<"receiveBegin">>, todo[2])
    BY <1>2 DEF Follows, Settings, Inner, Sending, InReceive
  <2> QED BY <1>2, <1>4, <2>1, <2>2, Put
<1> QED BY <1>3, <1>4 DEF Fetch

LEMMA ReceiveBeginSteps ==
    ASSUME RadioTypes, ReceiveBegin
    PROVE  /\ Shape(todo') /\ todo # <<>> /\ todo[1][1] = "receiveBegin"
           /\ Acks(todo') = Acks(todo)
           /\ todo' # <<>> /\ Len(todo') > 1
           /\ todo'[1] = <<"restart">> /\ todo'[2] = <<"setMode", "rx">>
<1>1. Doing("receiveBegin")
  BY DEF ReceiveBegin
<1>2. /\ Shape(todo) /\ todo # <<>> /\ todo[1][1] = "receiveBegin"
      /\ Len(todo) > 1 => Follows(todo[1], todo[2]) /\ todo[2] \in Step
      /\ ~IsAck(todo[1])
  BY <1>1, Heads DEF IsAck, Sending
<1> DEFINE steps == <<<<"restart">>, <<"setMode", "rx">>>>
<1>3. Do(steps)
  BY DEF ReceiveBegin
<1>4. /\ steps \in Seq(Step) /\ Len(steps) > 1 /\ Len(steps) = 2
      /\ steps[1] = <<"restart">> /\ steps[2] = <<"setMode", "rx">>
  BY DEF Step, Simple, Settings, Mode
<1>5. Chain(steps) /\ Acks(steps) = {}
  BY <1>4 DEF Chain, Follows, Acks, IsAck, Settings, Sending
<1>6. Len(todo) > 1 => Follows(steps[Len(steps)], todo[2])
  BY <1>2 DEF Follows, Settings, Inner, Sending
<1> HIDE DEF steps
<1>7. /\ Shape(todo') /\ todo' # <<>> /\ Len(todo') > 1
      /\ todo'[1] = steps[1] /\ todo'[2] = steps[2]
      /\ Acks(todo') = Acks(todo) \cup Acks(steps)
  BY <1>2, <1>3, <1>4, <1>5, <1>6, Push
<1> QED BY <1>2, <1>4, <1>5, <1>7

\* A step that is popped and has no successors: restart and fill.
LEMMA PopSteps ==
    ASSUME RadioTypes, NEW op \in Simple, Doing(op), Do(<<>>)
    PROVE  /\ Shape(todo') /\ todo # <<>> /\ todo[1][1] = op
           /\ Acks(todo') = Acks(todo)
           /\ Len(todo) > 1 => Follows(todo[1], todo[2]) /\ todo[2] \in Step
           /\ todo' # <<>> <=> Len(todo) > 1
           /\ Len(todo') > 1 <=> Len(todo) > 2
           /\ Len(todo) > 1 => todo'[1] = todo[2]
           /\ Len(todo) > 2 => todo'[2] = todo[3] /\ Follows(todo[2], todo[3])
<1>1. /\ Shape(todo) /\ todo # <<>> /\ todo[1][1] = op
      /\ Len(todo) > 1 => Follows(todo[1], todo[2]) /\ todo[2] \in Step
  BY Heads
<1>2. ~IsAck(todo[1])
  BY <1>1 DEF IsAck, Sending, Simple
<1> QED BY <1>1, <1>2, Pop

LEMMA DoneSteps ==
    ASSUME RadioTypes, Done
    PROVE  /\ Shape(todo') /\ todo # <<>> /\ todo[1][1] = "done"
           /\ Acks(todo') = Acks(todo)
           /\ Len(todo) > 1 => Follows(todo[1], todo[2]) /\ todo[2] \in Step
           /\ \/ /\ got' /\ mode = "rx" /\ buf # NoFrame
                 /\ todo' # <<>> /\ todo'[1] = <<"setMode", "standby">>
                 /\ Len(todo') > 1 <=> Len(todo) > 1
                 /\ Len(todo) > 1 => todo'[2] = todo[2]
              \/ /\ ~got' /\ mode = "rx" /\ buf = NoFrame
                 /\ todo' # <<>> <=> Len(todo) > 1
                 /\ Len(todo') > 1 <=> Len(todo) > 2
                 /\ Len(todo) > 1 => todo'[1] = todo[2]
                 /\ Len(todo) > 2 => todo'[2] = todo[3] /\ Follows(todo[2], todo[3])
              \/ /\ ~got' /\ mode # "rx"
                 /\ todo' # <<>> /\ todo'[1] = <<"receiveBegin">>
                 /\ Len(todo') > 1 <=> Len(todo) > 1
                 /\ Len(todo) > 1 => todo'[2] = todo[2]
<1>1. Doing("done")
  BY DEF Done
<1>2. /\ Shape(todo) /\ todo # <<>> /\ todo[1][1] = "done"
      /\ Len(todo) > 1 => Follows(todo[1], todo[2]) /\ todo[2] \in Step
      /\ ~IsAck(todo[1])
  BY <1>1, Heads DEF IsAck, Sending
<1>3. CASE mode = "rx" /\ buf # NoFrame
  <2>1. got' /\ Do(<<<<"setMode", "standby">>>>)
    BY <1>3 DEF Done
  <2>2. <<"setMode", "standby">> \in Step /\ ~IsAck(<<"setMode", "standby">>)
    BY DEF Step, Settings, Mode, IsAck, Sending
  <2>3. Len(todo) > 1 => Follows(<<"setMode", "standby">>, todo[2])
    BY <1>2 DEF Follows, Settings, Inner, Sending
  <2> QED BY <1>2, <1>3, <2>1, <2>2, <2>3, Put
<1>4. CASE mode = "rx" /\ buf = NoFrame
  <2>1. ~got' /\ Do(<<>>)
    BY <1>4 DEF Done
  <2> QED BY <1>2, <1>4, <2>1, Pop
<1>5. CASE mode # "rx"
  <2>1. ~got' /\ Do(<<<<"receiveBegin">>>>)
    BY <1>5 DEF Done
  <2>2. <<"receiveBegin">> \in Step /\ ~IsAck(<<"receiveBegin">>)
    BY DEF Step, Simple, IsAck, Sending
  <2>3. Len(todo) > 1 => Follows(<<"receiveBegin">>, todo[2])
    BY <1>2 DEF Follows, Settings, Inner, Sending, InReceive
  <2> QED BY <1>2, <1>5, <2>1, <2>2, <2>3, Put
<1> QED BY <1>3, <1>4, <1>5

LEMMA CsmaSteps ==
    ASSUME RadioTypes, Csma
    PROVE  /\ Shape(todo') /\ todo # <<>> /\ todo[1] = <<"csma", Arg>> /\ Arg \in Job
           /\ Acks(todo') = Acks(todo)
           /\ todo' # <<>>
           /\ \/ /\ mode = "rx" /\ buf = NoFrame /\ Len(todo') > 1
                 /\ todo'[1] = <<"setMode", "standby">> /\ todo'[2] = <<"sendFrame", Arg>>
              \/ /\ todo'[1] = <<"handler">> /\ Len(todo') > 1 /\ todo'[2] = <<"done">>
              \/ todo'[1] = <<"sendFrame", Arg>>
<1>1. Doing("csma")
  BY DEF Csma
<1>2. /\ Shape(todo) /\ todo # <<>> /\ todo[1] = <<"csma", Arg>> /\ Arg \in Job
      /\ Len(todo) > 1 => Follows(todo[1], todo[2]) /\ todo[2] \in Step
  BY <1>1, Heads DEF Sending
<1>3. (IsAck(todo[1]) <=> Arg.kind = "ack") /\ todo[1][2] = Arg
  BY <1>2 DEF IsAck, Sending
<1>4. /\ IsAck(<<"sendFrame", Arg>>) <=> Arg.kind = "ack"
      /\ IsAck(<<"csma", Arg>>) <=> Arg.kind = "ack"
      /\ <<"sendFrame", Arg>> \in Step /\ <<"csma", Arg>> \in Step
      /\ <<"sendFrame", Arg>>[2] = Arg
      /\ <<"setMode", "standby">> \in Step /\ ~IsAck(<<"setMode", "standby">>)
      /\ <<"handler">> \in Step /\ ~IsAck(<<"handler">>)
      /\ <<"done">> \in Step /\ ~IsAck(<<"done">>)
  BY <1>2 DEF IsAck, Sending, Step, Settings, Simple, Mode
<1>5. Len(todo) > 1 => Follows(<<"sendFrame", Arg>>, todo[2]) /\ Follows(<<"csma", Arg>>, todo[2])
  BY <1>2 DEF Follows, Settings, Inner, Sending
<1>6. CASE Do(<<<<"sendFrame", Arg>>>>)
  <2>1. /\ Shape(todo') /\ todo' # <<>> /\ todo'[1] = <<"sendFrame", Arg>>
        /\ IsAck(todo[1]) => /\ Acks(todo) = {todo[1][2]}
                             /\ Acks(todo') = IF IsAck(<<"sendFrame", Arg>>) THEN {<<"sendFrame", Arg>>[2]} ELSE {}
        /\ ~IsAck(todo[1]) => Acks(todo') = Acks(todo) \cup IF IsAck(<<"sendFrame", Arg>>) THEN {<<"sendFrame", Arg>>[2]} ELSE {}
    BY <1>2, <1>4, <1>5, <1>6, Put
  <2>2. Acks(todo') = Acks(todo)
    <3>1. CASE Arg.kind = "ack"
      BY <3>1, <2>1, <1>2, <1>3, <1>4
    <3>2. CASE Arg.kind # "ack"
      BY <3>2, <2>1, <1>2, <1>3, <1>4
    <3> QED BY <3>1, <3>2
  <2> QED BY <1>2, <2>1, <2>2
<1>7. CASE mode = "rx" /\ buf = NoFrame /\ Do(<<<<"setMode", "standby">>, <<"sendFrame", Arg>>>>)
  <2> DEFINE steps == <<<<"setMode", "standby">>, <<"sendFrame", Arg>>>>
  <2>1. /\ steps \in Seq(Step) /\ Len(steps) > 1 /\ Len(steps) = 2 /\ Do(steps)
        /\ steps[1] = <<"setMode", "standby">> /\ steps[2] = <<"sendFrame", Arg>>
    BY <1>4, <1>7
  <2>2. Chain(steps)
    BY <2>1 DEF Chain, Follows, Settings
  <2>3. Acks(steps) = IF Arg.kind = "ack" THEN {Arg} ELSE {}
    BY <1>4 DEF Acks
  <2>4. Len(todo) > 1 => Follows(steps[Len(steps)], todo[2])
    BY <1>5
  <2> HIDE DEF steps
  <2>5. /\ Shape(todo') /\ todo' # <<>> /\ Len(todo') > 1
        /\ todo'[1] = steps[1] /\ todo'[2] = steps[2]
        /\ IsAck(todo[1]) => Acks(todo) = {todo[1][2]} /\ Acks(todo') = Acks(steps)
        /\ ~IsAck(todo[1]) => Acks(todo') = Acks(todo) \cup Acks(steps)
    BY <1>2, <2>1, <2>2, <2>4, Push
  <2>6. Acks(todo') = Acks(todo)
    <3>1. CASE Arg.kind = "ack"
      BY <3>1, <2>3, <2>5, <1>2, <1>3
    <3>2. CASE Arg.kind # "ack"
      BY <3>2, <2>3, <2>5, <1>2, <1>3
    <3> QED BY <3>1, <3>2
  <2> QED BY <1>2, <1>7, <2>1, <2>5, <2>6
<1>8. CASE Do(receiveDone \o <<<<"csma", Arg>>>>)
  <2> DEFINE steps == <<<<"handler">>, <<"done">>, <<"csma", Arg>>>>
  <2>0. receiveDone \o <<<<"csma", Arg>>>> = steps
    BY <1>4, Join21 DEF receiveDone
  <2>7. Do(steps)
    BY <1>8, <2>0, Zenon DEF Do
  <2>1. /\ steps \in Seq(Step) /\ Len(steps) > 1 /\ Len(steps) = 3
        /\ steps[1] = <<"handler">> /\ steps[2] = <<"done">> /\ steps[3] = <<"csma", Arg>>
    BY <1>4
  <2>2. Chain(steps)
    BY <2>1 DEF Chain, Follows, Returns
  <2>3. Acks(steps) = IF Arg.kind = "ack" THEN {Arg} ELSE {}
    BY <1>4 DEF Acks
  <2>4. Len(todo) > 1 => Follows(steps[Len(steps)], todo[2])
    BY <1>5
  <2> HIDE DEF steps
  <2>5. /\ Shape(todo') /\ todo' # <<>> /\ Len(todo') > 1
        /\ todo'[1] = steps[1] /\ todo'[2] = steps[2]
        /\ IsAck(todo[1]) => Acks(todo) = {todo[1][2]} /\ Acks(todo') = Acks(steps)
        /\ ~IsAck(todo[1]) => Acks(todo') = Acks(todo) \cup Acks(steps)
    BY <1>2, <2>1, <2>2, <2>4, <2>7, Push
  <2>6. Acks(todo') = Acks(todo)
    <3>1. CASE Arg.kind = "ack"
      BY <3>1, <2>3, <2>5, <1>2, <1>3
    <3>2. CASE Arg.kind # "ack"
      BY <3>2, <2>3, <2>5, <1>2, <1>3
    <3> QED BY <3>1, <3>2
  <2> QED BY <1>2, <2>1, <2>5, <2>6
<1> QED BY <1>6, <1>7, <1>8 DEF Csma

LEMMA SendFrameSteps ==
    ASSUME RadioTypes, SendFrame
    PROVE  /\ Shape(todo') /\ todo # <<>> /\ todo[1] = <<"sendFrame", Arg>> /\ Arg \in Job
           /\ Acks(todo') = Acks(todo)
           /\ todo' # <<>> /\ Len(todo') > 1
           /\ todo'[1] = <<"setMode", "standby">> /\ todo'[2] = <<"fill">>
<1>1. Doing("sendFrame")
  BY DEF SendFrame
<1>2. /\ Shape(todo) /\ todo # <<>> /\ todo[1] = <<"sendFrame", Arg>> /\ Arg \in Job
      /\ Len(todo) > 1 => Follows(todo[1], todo[2]) /\ todo[2] \in Step
  BY <1>1, Heads DEF Sending
<1>3. (IsAck(todo[1]) <=> Arg.kind = "ack") /\ todo[1][2] = Arg
  BY <1>2 DEF IsAck, Sending
<1> DEFINE steps == <<<<"setMode", "standby">>, <<"fill">>, <<"setMode", "tx">>, <<"sent", Arg>>>>
<1>4. /\ IsAck(<<"sent", Arg>>) <=> Arg.kind = "ack"
      /\ <<"sent", Arg>> \in Step
      /\ <<"setMode", "standby">> \in Step /\ ~IsAck(<<"setMode", "standby">>)
      /\ <<"setMode", "tx">> \in Step /\ ~IsAck(<<"setMode", "tx">>)
      /\ <<"fill">> \in Step /\ ~IsAck(<<"fill">>)
  BY <1>2 DEF IsAck, Sending, Step, Settings, Simple, Mode
<1>5. /\ steps \in Seq(Step) /\ Len(steps) > 1 /\ Len(steps) = 4
      /\ steps[1] = <<"setMode", "standby">> /\ steps[2] = <<"fill">>
      /\ steps[3] = <<"setMode", "tx">> /\ steps[4] = <<"sent", Arg>>
  BY <1>4
<1>6. Chain(steps)
  BY <1>5 DEF Chain, Follows, Settings
<1>7. Acks(steps) = IF Arg.kind = "ack" THEN {Arg} ELSE {}
  BY <1>4 DEF Acks
<1>8. Do(steps)
  BY DEF SendFrame
<1>9. Len(todo) > 1 => Follows(steps[Len(steps)], todo[2])
  BY <1>2 DEF Follows, Settings, Inner, Sending
<1> HIDE DEF steps
<1>10. /\ Shape(todo') /\ todo' # <<>> /\ Len(todo') > 1
       /\ todo'[1] = steps[1] /\ todo'[2] = steps[2]
       /\ IsAck(todo[1]) => Acks(todo) = {todo[1][2]} /\ Acks(todo') = Acks(steps)
       /\ ~IsAck(todo[1]) => Acks(todo') = Acks(todo) \cup Acks(steps)
  BY <1>2, <1>5, <1>6, <1>8, <1>9, Push
<1>11. Acks(todo') = Acks(todo)
  <2>1. CASE Arg.kind = "ack"
    BY <2>1, <1>7, <1>10, <1>2, <1>3
  <2>2. CASE Arg.kind # "ack"
    BY <2>2, <1>7, <1>10, <1>2, <1>3
  <2> QED BY <2>1, <2>2
<1> QED BY <1>2, <1>5, <1>10, <1>11

LEMMA SentSteps ==
    ASSUME RadioTypes, Sent
    PROVE  /\ Shape(todo') /\ todo # <<>> /\ todo[1] = <<"sent", Arg>> /\ Arg \in Job
           /\ Arg.kind = "ack" => Acks(todo) = {Arg} /\ Acks(todo') = {}
           /\ Arg.kind # "ack" => Acks(todo') = Acks(todo)
           /\ Len(todo) > 1 => Follows(todo[1], todo[2]) /\ todo[2] \in Step
           /\ todo' # <<>> /\ todo'[1] = <<"setMode", "standby">>
           /\ Len(todo') > 1 <=> Len(todo) > 1
           /\ Len(todo) > 1 => todo'[2] = todo[2]
<1>1. Doing("sent") /\ Do(<<<<"setMode", "standby">>>>)
  BY DEF Sent
<1>2. /\ Shape(todo) /\ todo # <<>> /\ todo[1] = <<"sent", Arg>> /\ Arg \in Job
      /\ Len(todo) > 1 => Follows(todo[1], todo[2]) /\ todo[2] \in Step
  BY <1>1, Heads DEF Sending
<1>3. (IsAck(todo[1]) <=> Arg.kind = "ack") /\ todo[1][2] = Arg
  BY <1>2 DEF IsAck, Sending
<1>4. <<"setMode", "standby">> \in Step /\ ~IsAck(<<"setMode", "standby">>)
  BY DEF Step, Settings, Mode, IsAck, Sending
<1>5. Len(todo) > 1 => Follows(<<"setMode", "standby">>, todo[2])
  BY <1>2 DEF Follows, Settings, Inner, Sending
<1>6. /\ Shape(todo') /\ todo' # <<>> /\ todo'[1] = <<"setMode", "standby">>
      /\ Len(todo') > 1 <=> Len(todo) > 1
      /\ Len(todo) > 1 => todo'[2] = todo[2]
      /\ IsAck(todo[1]) => Acks(todo) = {todo[1][2]} /\ Acks(todo') = {}
      /\ ~IsAck(todo[1]) => Acks(todo') = Acks(todo)
  BY <1>1, <1>2, <1>4, <1>5, Put
<1> QED BY <1>2, <1>3, <1>6

\* A frame to a station is sent in the place of the last step, which s then is.
LEMMA SendLast ==
    ASSUME Shape(todo), todo # <<>>, Len(todo) = 1, ~IsAck(todo[1]),
           NEW job \in Job, NEW s \in Step, s[1] \in {"round", "wait"},
           Do(Send(job) \o <<s>>)
    PROVE  /\ Shape(todo') /\ todo' # <<>> /\ Len(todo') > 1
           /\ todo'[1] = <<"restart">> /\ todo'[2] = <<"csma", job>>
           /\ Acks(todo') = Acks(todo) \cup IF job.kind = "ack" THEN {job} ELSE {}
<1> DEFINE steps == <<<<"restart">>, <<"csma", job>>, s>>
<1>1. /\ <<"restart">> \in Step /\ ~IsAck(<<"restart">>)
      /\ <<"csma", job>> \in Step /\ <<"csma", job>>[2] = job
      /\ IsAck(<<"csma", job>>) <=> job.kind = "ack"
      /\ ~IsAck(s)
  BY DEF Step, Simple, Sending, IsAck
<1>2. Send(job) \o <<s>> = steps
  BY <1>1, Join21 DEF Send
<1>3. Do(steps)
  BY <1>2, Zenon DEF Do
<1>4. /\ steps \in Seq(Step) /\ Len(steps) > 1 /\ Len(steps) = 3
      /\ steps[1] = <<"restart">> /\ steps[2] = <<"csma", job>> /\ steps[3] = s
  BY <1>1
<1>5. Chain(steps)
  BY <1>4 DEF Chain, Follows, Sending
<1>6. Acks(steps) = IF job.kind = "ack" THEN {job} ELSE {}
  BY <1>1 DEF Acks
<1>7. Len(todo) > 1 => Follows(steps[Len(steps)], todo[2])
  OBVIOUS
<1> HIDE DEF steps
<1>8. /\ Shape(todo') /\ todo' # <<>> /\ Len(todo') > 1
      /\ todo'[1] = steps[1] /\ todo'[2] = steps[2]
      /\ Acks(todo') = Acks(todo) \cup Acks(steps)
  BY <1>3, <1>4, <1>5, <1>7, Push
<1> QED BY <1>4, <1>6, <1>8

\* A step in the place of the last one.
LEMMA PutLast ==
    ASSUME Shape(todo), todo # <<>>, Len(todo) = 1, ~IsAck(todo[1]),
           NEW s \in Step, ~IsAck(s), Do(<<s>>)
    PROVE  /\ Shape(todo') /\ todo' # <<>> /\ todo'[1] = s /\ ~(Len(todo') > 1)
           /\ Acks(todo') = Acks(todo)
<1>1. ~(Len(todo) > 1)
  OBVIOUS
<1> QED BY <1>1, Put

\* receiveDone in the place of the last step, which s then is.
LEMMA ReceiveLast ==
    ASSUME Shape(todo), todo # <<>>, Len(todo) = 1, ~IsAck(todo[1]),
           NEW s \in Step, s[1] \in {"deliver", "ACKReceived"},
           \/ Do(receiveDone \o <<s>>)
           \/ Do(<<<<"handler">>>> \o receiveDone \o <<s>>)
    PROVE  /\ Shape(todo') /\ todo' # <<>> /\ Len(todo') > 1
           /\ todo'[1] = <<"handler">> /\ todo'[2][1] \in {"handler", "done"}
           /\ Acks(todo') = Acks(todo)
<1>1. /\ <<"handler">> \in Step /\ ~IsAck(<<"handler">>)
      /\ <<"done">> \in Step /\ ~IsAck(<<"done">>)
      /\ ~IsAck(s)
  BY DEF Step, Simple, Sending, IsAck
<1>2. ~(Len(todo) > 1)
  OBVIOUS
<1>3. CASE Do(receiveDone \o <<s>>)
  <2> DEFINE steps == <<<<"handler">>, <<"done">>, s>>
  <2>1. receiveDone \o <<s>> = steps
    BY <1>1, Join21 DEF receiveDone
  <2>2. Do(steps)
    BY <1>3, <2>1, Zenon DEF Do
  <2>3. /\ steps \in Seq(Step) /\ Len(steps) > 1 /\ Len(steps) = 3
        /\ steps[1] = <<"handler">> /\ steps[2] = <<"done">> /\ steps[3] = s
    BY <1>1
  <2>4. Chain(steps)
    BY <2>3 DEF Chain, Follows, Returns
  <2>5. Acks(steps) = {}
    BY <1>1 DEF Acks
  <2> HIDE DEF steps
  <2>6. /\ Shape(todo') /\ todo' # <<>> /\ Len(todo') > 1
        /\ todo'[1] = steps[1] /\ todo'[2] = steps[2]
        /\ Acks(todo') = Acks(todo) \cup Acks(steps)
    BY <1>2, <2>2, <2>3, <2>4, Push
  <2> QED BY <2>3, <2>5, <2>6
<1>4. CASE Do(<<<<"handler">>>> \o receiveDone \o <<s>>)
  <2> DEFINE steps == <<<<"handler">>, <<"handler">>, <<"done">>, s>>
  <2>1. <<<<"handler">>>> \o receiveDone = <<<<"handler">>, <<"handler">>, <<"done">>>>
    BY <1>1, Join12 DEF receiveDone
  <2>2. <<<<"handler">>, <<"handler">>, <<"done">>>> \o <<s>> = steps
    BY <1>1, Join31
  <2>3. Do(steps)
    BY <1>4, <2>1, <2>2, Zenon DEF Do
  <2>4. /\ steps \in Seq(Step) /\ Len(steps) > 1 /\ Len(steps) = 4
        /\ steps[1] = <<"handler">> /\ steps[2] = <<"handler">>
        /\ steps[3] = <<"done">> /\ steps[4] = s
    BY <1>1
  <2>5. Chain(steps)
    BY <2>4 DEF Chain, Follows, Returns
  <2>6. Acks(steps) = {}
    BY <1>1 DEF Acks
  <2> HIDE DEF steps
  <2>7. /\ Shape(todo') /\ todo' # <<>> /\ Len(todo') > 1
        /\ todo'[1] = steps[1] /\ todo'[2] = steps[2]
        /\ Acks(todo') = Acks(todo) \cup Acks(steps)
    BY <1>2, <2>3, <2>4, <2>5, Push
  <2> QED BY <2>4, <2>6, <2>7
<1> QED BY <1>3, <1>4

LEMMA WaitSteps ==
    ASSUME RadioTypes, Wait
    PROVE  /\ Shape(todo') /\ todo # <<>> /\ todo[1] = <<"wait", Arg>> /\ Len(todo) = 1
           /\ Acks(todo') = Acks(todo) /\ todo' # <<>>
           /\ \/ /\ Len(todo') > 1 /\ todo'[1] = <<"handler">>
                 /\ todo'[2][1] \in {"handler", "done"}
              \/ /\ Len(todo') > 1 /\ todo'[1] = <<"restart">> /\ todo'[2][1] = "csma"
              \/ ~(Len(todo') > 1) /\ todo'[1] = <<"poll">>
<1>1. Doing("wait")
  BY DEF Wait
<1>2. /\ Shape(todo) /\ todo # <<>> /\ todo[1] = <<"wait", Arg>> /\ Arg \in Try /\ Len(todo) = 1
  BY <1>1, Heads DEF Retrying
<1>3. ~IsAck(todo[1])
  BY <1>2 DEF IsAck, Sending
<1>4. CASE Do(<<<<"handler">>>> \o receiveDone \o <<<<"ACKReceived", Arg>>>>)
  <2>1. <<"ACKReceived", Arg>> \in Step
    BY <1>2 DEF Step, Retrying
  <2> QED BY <1>2, <1>3, <1>4, <2>1, ReceiveLast
<1>5. CASE Arg.left > 0 /\ Do(sendWithRetry(Arg.to, Arg.left - 1))
  <2> DEFINE job == [kind |-> "data", to |-> Arg.to]
             s == <<"wait", [to |-> Arg.to, left |-> Arg.left - 1]>>
  <2>1. Arg.to \in Peers /\ Arg.left \in 0 .. RETRIES /\ Arg.left - 1 \in 0 .. RETRIES
    BY <1>2, <1>5, RadioAssumption DEF Try
  <2>2. job \in Job /\ job.kind = "data"
    BY <2>1 DEF Job
  <2>3. s \in Step /\ s[1] = "wait"
    BY <2>1 DEF Step, Retrying, Try
  <2>4. Do(Send(job) \o <<s>>)
    BY <1>5 DEF sendWithRetry
  <2> HIDE DEF job, s
  <2>5. /\ Shape(todo') /\ todo' # <<>> /\ Len(todo') > 1
        /\ todo'[1] = <<"restart">> /\ todo'[2] = <<"csma", job>>
        /\ Acks(todo') = Acks(todo) \cup IF job.kind = "ack" THEN {job} ELSE {}
    BY <1>2, <1>3, <2>2, <2>3, <2>4, SendLast
  <2> QED BY <1>2, <2>2, <2>5
<1>6. CASE Do(<<<<"poll">>>>)
  <2>1. <<"poll">> \in Step /\ ~IsAck(<<"poll">>)
    BY DEF Step, Terminal, IsAck, Sending
  <2> QED BY <1>2, <1>3, <1>6, <2>1, PutLast
<1> QED BY <1>4, <1>5, <1>6 DEF Wait

LEMMA ACKReceivedSteps ==
    ASSUME RadioTypes, ACKReceived
    PROVE  /\ Shape(todo') /\ todo # <<>> /\ todo[1] = <<"ACKReceived", Arg>> /\ Len(todo) = 1
           /\ Acks(todo') = Acks(todo) /\ todo' # <<>> /\ ~(Len(todo') > 1)
           /\ \/ /\ got /\ buf.kind = "ack" /\ todo'[1] = <<"poll">>
                 /\ history' = [history EXCEPT !.acked = buf.no = history.sent]
              \/ todo'[1] = <<"wait", Arg>> /\ history' = history
<1>1. Doing("ACKReceived")
  BY DEF ACKReceived
<1>2. /\ Shape(todo) /\ todo # <<>> /\ todo[1] = <<"ACKReceived", Arg>> /\ Arg \in Try /\ Len(todo) = 1
  BY <1>1, Heads DEF Retrying
<1>3. ~IsAck(todo[1])
  BY <1>2 DEF IsAck, Sending
<1>4. CASE got /\ buf.from = Arg.to /\ buf.kind = "ack"
  <2>1. <<"poll">> \in Step /\ ~IsAck(<<"poll">>)
    BY DEF Step, Terminal, IsAck, Sending
  <2>2. Do(<<<<"poll">>>>) /\ history' = [history EXCEPT !.acked = buf.no = history.sent]
    BY <1>4 DEF ACKReceived
  <2> QED BY <1>2, <1>3, <1>4, <2>1, <2>2, PutLast
<1>5. CASE ~(got /\ buf.from = Arg.to /\ buf.kind = "ack")
  <2>1. <<"wait", Arg>> \in Step /\ ~IsAck(<<"wait", Arg>>)
    BY <1>2 DEF Step, Retrying, IsAck, Sending
  <2>2. Do(<<<<"wait", Arg>>>>) /\ history' = history
    BY <1>5 DEF ACKReceived
  <2> QED BY <1>2, <1>3, <2>1, <2>2, PutLast
<1> QED BY <1>4, <1>5

LEMMA PollSteps ==
    ASSUME RadioTypes, Poll
    PROVE  /\ Shape(todo') /\ todo # <<>> /\ todo[1][1] = "poll" /\ Len(todo) = 1
           /\ Acks(todo') = Acks(todo) /\ todo' # <<>>
           /\ Len(todo') > 1 /\ todo'[1] = <<"handler">>
           /\ todo'[2][1] \in {"handler", "done"}
<1>1. Doing("poll")
  BY DEF Poll
<1>2. /\ Shape(todo) /\ todo # <<>> /\ todo[1][1] = "poll" /\ Len(todo) = 1
  BY <1>1, Heads DEF Terminal
<1>3. ~IsAck(todo[1])
  BY <1>2 DEF IsAck, Sending
<1>4. <<"deliver">> \in Step /\ <<"handler">> \in Step /\ <<"done">> \in Step
  BY DEF Step, Terminal, Simple
<1>5. <<>> \o receiveDone = receiveDone
  BY <1>4, ConcatEmptySeq DEF receiveDone
<1>6. \/ Do(receiveDone \o <<<<"deliver">>>>)
      \/ Do(<<<<"handler">>>> \o receiveDone \o <<<<"deliver">>>>)
  <2>1. CASE chip = "rx" /\ fifo # NoFrame
    BY <2>1 DEF Poll
  <2>2. CASE ~(chip = "rx" /\ fifo # NoFrame)
    <3>1. Do(<<>> \o receiveDone \o <<<<"deliver">>>>)
      BY <2>2 DEF Poll
    <3> QED BY <3>1, <1>5, Zenon DEF Do
  <2> QED BY <2>1, <2>2
<1>7. <<"deliver">>[1] = "deliver"
  OBVIOUS
<1> QED BY <1>2, <1>3, <1>4, <1>6, <1>7, ReceiveLast

LEMMA DeliverSteps ==
    ASSUME RadioTypes, Deliver
    PROVE  /\ Shape(todo') /\ todo # <<>> /\ todo[1][1] = "deliver" /\ Len(todo) = 1
           /\ todo' # <<>>
           /\ \/ /\ got /\ AckRequested(buf)
                 /\ Len(todo') > 1 /\ todo'[1] = <<"restart">> /\ todo'[2][1] = "csma"
                 /\ Acks(todo') = Acks(todo) \cup {[kind |-> "ack", to |-> buf.from]}
              \/ /\ ~(got /\ AckRequested(buf))
                 /\ ~(Len(todo') > 1) /\ todo'[1] = <<"round">>
                 /\ Acks(todo') = Acks(todo)
<1>1. Doing("deliver")
  BY DEF Deliver
<1>2. /\ Shape(todo) /\ todo # <<>> /\ todo[1][1] = "deliver" /\ Len(todo) = 1
  BY <1>1, Heads DEF Terminal
<1>3. ~IsAck(todo[1])
  BY <1>2 DEF IsAck, Sending
<1>4. /\ <<"round">> \in Step /\ ~IsAck(<<"round">>) /\ <<"round">>[1] = "round"
  BY DEF Step, Terminal, IsAck, Sending
<1>5. CASE got /\ AckRequested(buf)
  <2> DEFINE job == [kind |-> "ack", to |-> buf.from]
  <2>1. job \in Job /\ job.kind = "ack"
    BY <1>5 DEF RadioTypes, Job, Air, AckRequested, NoFrame
  <2>2. Do(Send(job) \o <<<<"round">>>>)
    BY <1>5 DEF Deliver
  <2> HIDE DEF job
  <2>3. /\ Shape(todo') /\ todo' # <<>> /\ Len(todo') > 1
        /\ todo'[1] = <<"restart">> /\ todo'[2] = <<"csma", job>>
        /\ Acks(todo') = Acks(todo) \cup IF job.kind = "ack" THEN {job} ELSE {}
    BY <1>2, <1>3, <1>4, <2>1, <2>2, SendLast
  <2>4. /\ Acks(todo') = Acks(todo) \cup {job} /\ todo'[2][1] = "csma"
    BY <2>1, <2>3
  <2> QED BY <1>2, <1>5, <2>3, <2>4 DEF job
<1>6. CASE ~(got /\ AckRequested(buf))
  <2>1. <<>> \o <<<<"round">>>> = <<<<"round">>>>
    BY <1>4, ConcatEmptySeq
  <2>2. Do(<<>> \o <<<<"round">>>>)
    BY <1>6 DEF Deliver
  <2>3. Do(<<<<"round">>>>)
    BY <2>1, <2>2, Zenon DEF Do
  <2> QED BY <1>2, <1>3, <1>4, <1>6, <2>3, PutLast
<1> QED BY <1>5, <1>6

LEMMA RoundSteps ==
    ASSUME RadioTypes, Round
    PROVE  /\ Shape(todo') /\ todo # <<>> /\ todo[1][1] = "round" /\ Len(todo) = 1
           /\ Acks(todo') = Acks(todo) /\ todo' # <<>>
           /\ \/ Len(todo') > 1 /\ todo'[1] = <<"restart">> /\ todo'[2][1] = "csma"
              \/ ~(Len(todo') > 1) /\ todo'[1] = <<"poll">>
<1>1. Doing("round")
  BY DEF Round
<1>2. /\ Shape(todo) /\ todo # <<>> /\ todo[1][1] = "round" /\ Len(todo) = 1
  BY <1>1, Heads DEF Terminal
<1>3. ~IsAck(todo[1])
  BY <1>2 DEF IsAck, Sending
<1>4. ASSUME NEW p \in Peers, Do(sendWithRetry(p, RETRIES))
      PROVE  /\ Shape(todo') /\ Acks(todo') = Acks(todo) /\ todo' # <<>>
             /\ Len(todo') > 1 /\ todo'[1] = <<"restart">> /\ todo'[2][1] = "csma"
  <2> DEFINE job == [kind |-> "data", to |-> p]
             s == <<"wait", [to |-> p, left |-> RETRIES]>>
  <2>1. job \in Job /\ job.kind = "data"
    BY DEF Job
  <2>2. s \in Step /\ s[1] = "wait"
    BY RadioAssumption DEF Step, Retrying, Try
  <2>3. Do(Send(job) \o <<s>>)
    BY <1>4 DEF sendWithRetry
  <2> HIDE DEF job, s
  <2>4. /\ Shape(todo') /\ todo' # <<>> /\ Len(todo') > 1
        /\ todo'[1] = <<"restart">> /\ todo'[2] = <<"csma", job>>
        /\ Acks(todo') = Acks(todo) \cup IF job.kind = "ack" THEN {job} ELSE {}
    BY <1>2, <1>3, <2>1, <2>2, <2>3, SendLast
  <2> QED BY <2>1, <2>4
<1>5. CASE Do(<<<<"poll">>>>)
  <2>1. <<"poll">> \in Step /\ ~IsAck(<<"poll">>)
    BY DEF Step, Terminal, IsAck, Sending
  <2> QED BY <1>2, <1>3, <1>5, <2>1, PutLast
<1> QED BY <1>2, <1>4, <1>5 DEF Round

----------------------------------------------------------------------------
(* The types.                                                               *)

LEMMA TypesKept ==
    ASSUME RadioTypes, GotInv, [Next]_vars
    PROVE  RadioTypes'
<1> USE DEF RadioTypes, Mode
<1>1. ASSUME UNCHANGED vars PROVE RadioTypes'
  BY <1>1 DEF vars
<1>2. ASSUME Acquire PROVE RadioTypes'
  BY <1>2 DEF Acquire
<1>3. ASSUME SetMode PROVE RadioTypes'
  BY <1>3, SetModeSteps DEF SetMode
<1>4. ASSUME Assign PROVE RadioTypes'
  BY <1>4, AssignSteps DEF Assign
<1>5. ASSUME Initialize PROVE RadioTypes'
  BY <1>5, InitializeSteps DEF Initialize
<1>6. ASSUME NEW op \in {"read", "write", "testpa1", "testpa2"}, Access(op) PROVE RadioTypes'
  <2>1. Shape(todo') /\ Arg \in Mode
    BY <1>6, AccessSteps
  <2>2. CASE op = "write"
    BY <1>6, <2>1, <2>2 DEF Access, ChipTo
  <2>3. CASE op # "write"
    BY <1>6, <2>1, <2>3 DEF Access
  <2> QED BY <2>2, <2>3
<1>7. ASSUME Handler PROVE RadioTypes'
  BY <1>7, HandlerSteps DEF Handler
<1>8. ASSUME Payload PROVE RadioTypes'
  BY <1>8, PayloadSteps DEF Payload
<1>9. ASSUME Fetch PROVE RadioTypes'
  BY <1>9, FetchSteps DEF Fetch
<1>10. ASSUME ReceiveBegin PROVE RadioTypes'
  BY <1>10, ReceiveBeginSteps DEF ReceiveBegin
<1>11. ASSUME Restart PROVE RadioTypes'
  <2>1. Doing("restart") /\ Do(<<>>) /\ "restart" \in Simple
    BY <1>11 DEF Restart, Turn, Simple
  <2> QED BY <1>11, <2>1, PopSteps DEF Restart
<1>12. ASSUME Done PROVE RadioTypes'
  BY <1>12, DoneSteps DEF Done
<1>13. ASSUME Csma PROVE RadioTypes'
  BY <1>13, CsmaSteps DEF Csma
<1>14. ASSUME SendFrame PROVE RadioTypes'
  BY <1>14, SendFrameSteps DEF SendFrame
<1>15. ASSUME Fill PROVE RadioTypes'
  <2>1. Doing("fill") /\ Do(<<>>) /\ "fill" \in Simple
    BY <1>15 DEF Fill, Turn, Simple
  <2> QED BY <1>15, <2>1, PopSteps DEF Fill
<1>16. ASSUME Sent PROVE RadioTypes'
  <2>1. Shape(todo') /\ Arg \in Job
    BY <1>16, SentSteps
  <2>2. history' \in History
    <3>1. CASE Arg.kind = "ack"
      <4>1. history' = [history EXCEPT !.answers = Append(@, Arg.to)]
        BY <1>16, <3>1 DEF Sent
      <4>2. history.answers \in Seq(Peers) /\ Arg.to \in Peers
        BY <2>1 DEF History, Job
      <4>3. Append(history.answers, Arg.to) \in Seq(Peers)
        BY <4>2, AppendProperties
      <4> QED BY <4>1, <4>3 DEF History
    <3>2. CASE Arg.kind # "ack"
      <4>1. history' = [history EXCEPT !.sent = @ + 1, !.acked = FALSE,
                                       !.due = IF chip = "tx" THEN @ + 1 ELSE @]
        BY <1>16, <3>2 DEF Sent
      <4>2. PICK n \in Nat :
               history' = [history EXCEPT !.sent = @ + 1, !.acked = FALSE, !.due = n]
        <5>1. history.due \in Nat /\ history.due + 1 \in Nat
          BY DEF History
        <5>2. CASE chip = "tx"
          BY <4>1, <5>1, <5>2
        <5>3. CASE chip # "tx"
          BY <4>1, <5>1, <5>3
        <5> QED BY <5>2, <5>3
      <4>3. history.sent + 1 \in Nat
        BY DEF History
      <4>4. ASSUME NEW h \in History, NEW sent \in Nat, NEW due \in Nat
            PROVE  [[[h EXCEPT !.sent = sent] EXCEPT !.acked = FALSE] EXCEPT !.due = due] \in History
        <5>1. [h EXCEPT !.sent = sent] \in History
          BY <4>4 DEF History
        <5>2. [[h EXCEPT !.sent = sent] EXCEPT !.acked = FALSE] \in History
          BY <5>1 DEF History
        <5> QED BY <4>4, <5>2 DEF History
      <4> QED BY <4>2, <4>3, <4>4
    <3> QED BY <3>1, <3>2
  <2> QED BY <1>16, <2>1, <2>2 DEF Sent
<1>17. ASSUME Wait PROVE RadioTypes'
  BY <1>17, WaitSteps DEF Wait
<1>18. ASSUME ACKReceived PROVE RadioTypes'
  <2>1. history' \in History /\ Shape(todo')
    BY <1>18, ACKReceivedSteps DEF History
  <2> QED BY <1>18, <2>1 DEF ACKReceived
<1>19. ASSUME Poll PROVE RadioTypes'
  BY <1>19, PollSteps DEF Poll
<1>20. ASSUME Deliver PROVE RadioTypes'
  <2>1. Doing("deliver")
    BY <1>20 DEF Deliver
  <2>2. got => buf # NoFrame
    BY <2>1, Heads DEF GotInv, Landing, At
  <2>3. Shape(todo')
    BY <1>20, DeliverSteps
  <2>4. history' \in History
    <3>1. CASE got
      <4>1. /\ buf \in Air /\ history.delivered \in Seq(Air) /\ history.asked \in Seq(Peers)
            /\ Append(history.delivered, buf) \in Seq(Air)
        BY <2>2, <3>1, AppendProperties DEF History
      <4>2. AckRequested(buf) => Append(history.asked, buf.from) \in Seq(Peers)
        BY <4>1, AppendProperties DEF AckRequested, Air
      <4>3. history' = [history EXCEPT !.delivered = Append(@, buf),
                                       !.asked = IF AckRequested(buf)
                                                 THEN Append(@, buf.from) ELSE @]
        BY <1>20, <3>1 DEF Deliver
      <4> QED BY <4>1, <4>2, <4>3 DEF History
    <3>2. CASE ~got
      BY <1>20, <3>2 DEF Deliver
    <3> QED BY <3>1, <3>2
  <2> QED BY <1>20, <2>3, <2>4 DEF Deliver
<1>21. ASSUME Round PROVE RadioTypes'
  <2>1. Shape(todo')
    BY <1>21, RoundSteps
  <2>2. history' \in History
    BY <1>21 DEF Round, History
  <2> QED BY <1>21, <2>1, <2>2 DEF Round
<1>22. ASSUME Date PROVE RadioTypes'
  BY <1>22 DEF Date, History
<1>23. ASSUME ShellRead PROVE RadioTypes'
  BY <1>23 DEF ShellRead
<1>24. ASSUME ShellWrite PROVE RadioTypes'
  BY <1>24 DEF ShellWrite, ChipTo
<1>25. ASSUME NEW p \in Peers, NEW to \in {"us", "another", "all"}, PeerSends(p, to)
       PROVE  RadioTypes'
  <2>1. Data(p, to, history.aired + 1) \in Air
    BY DEF Data, Air, History
  <2> QED BY <1>25, <2>1 DEF PeerSends, History
<1>26. ASSUME NEW p \in Peers, PeerAnswers(p) PROVE RadioTypes'
  <2>1. AckOf(p, history.sent) \in Air
    BY DEF AckOf, Air, History
  <2> QED BY <1>26, <2>1 DEF PeerAnswers, History
<1> QED BY <1>1, <1>2, <1>3, <1>4, <1>5, <1>6, <1>7, <1>8, <1>9, <1>10, <1>11, <1>12,
           <1>13, <1>14, <1>15, <1>16, <1>17, <1>18, <1>19, <1>20, <1>21, <1>22, <1>23,
           <1>24, <1>25, <1>26 DEF Next, Thread

----------------------------------------------------------------------------
(* The bus.                                                                 *)

LEMMA QueueFacts ==
    /\ ~Queued("thread", <<>>) /\ ~Queued("shell", <<>>)
    /\ Queued("thread", <<"thread">>) /\ ~Queued("shell", <<"thread">>)
    /\ ~Queued("thread", <<"shell">>) /\ Queued("shell", <<"shell">>)
    /\ Queued("thread", <<"thread", "shell">>) /\ Queued("shell", <<"thread", "shell">>)
    /\ Queued("thread", <<"shell", "thread">>) /\ Queued("shell", <<"shell", "thread">>)
<1>1. /\ DOMAIN <<>> = {} /\ DOMAIN <<"thread">> = {1} /\ DOMAIN <<"shell">> = {1}
      /\ DOMAIN <<"thread", "shell">> = {1, 2} /\ DOMAIN <<"shell", "thread">> = {1, 2}
  OBVIOUS
<1> QED BY <1>1 DEF Queued

LEMMA AppendOne ==
    ASSUME NEW S, NEW a \in S, NEW b \in S
    PROVE  Append(<<>>, a) = <<a>> /\ Append(<<a>>, b) = <<a, b>>
<1> DEFINE q == <<a>>  r == <<b>>  t == <<a, b>>
<1>1. /\ q \in Seq(S) /\ r \in Seq(S) /\ t \in Seq(S) /\ Len(q) = 1 /\ Len(t) = 2
      /\ q[1] = a /\ t[1] = a /\ t[2] = b
      /\ <<>> \in Seq(S) /\ Len(<<>>) = 0
  OBVIOUS
<1> HIDE DEF q, r, t
<1>2. /\ Append(q, b) \in Seq(S) /\ Len(Append(q, b)) = Len(q) + 1
      /\ \A i \in 1 .. Len(q) : Append(q, b)[i] = q[i]
      /\ Append(q, b)[Len(q) + 1] = b
  <2>1. q \in Seq(S)
    BY <1>1
  <2> QED BY <2>1, AppendProperties
<1>3. Len(Append(q, b)) = Len(t) /\ Len(Append(q, b)) = 2
  BY <1>1, <1>2
<1>4. \A i \in 1 .. 2 : i = 1 \/ i = 2
  OBVIOUS
<1>5. \A i \in 1 .. Len(Append(q, b)) : Append(q, b)[i] = t[i]
  BY <1>1, <1>2, <1>3, <1>4
<1>6. Append(q, b) = t
  BY <1>1, <1>2, <1>3, <1>5, SeqEqual
<1>7. /\ Append(<<>>, a) \in Seq(S) /\ Len(Append(<<>>, a)) = Len(<<>>) + 1
      /\ Append(<<>>, a)[Len(<<>>) + 1] = a
  BY <1>1, AppendProperties
<1>8. Len(Append(<<>>, a)) = 1 /\ Append(<<>>, a)[1] = a
  BY <1>1, <1>7
<1>9. \A i \in 1 .. 1 : i = 1
  OBVIOUS
<1>10. Append(<<>>, a) = q
  BY <1>1, <1>7, <1>8, <1>9, SeqEqual
<1> QED BY <1>6, <1>10 DEF q, t

\* What a queue becomes when someone joins it or the first leaves it.
LEMMA QueueSteps ==
    ASSUME NEW q \in Queues
    PROVE  /\ ~Queued("thread", q) =>
                 /\ Append(q, "thread") \in Queues /\ Queued("thread", Append(q, "thread"))
                 /\ Queued("shell", Append(q, "thread")) <=> Queued("shell", q)
           /\ ~Queued("shell", q) =>
                 /\ Append(q, "shell") \in Queues /\ Queued("shell", Append(q, "shell"))
                 /\ Queued("thread", Append(q, "shell")) <=> Queued("thread", q)
           /\ q # <<>> =>
                 /\ Tail(q) \in Queues /\ ~Queued(Head(q), Tail(q))
                 /\ Head(q) = "thread" => (Queued("shell", Tail(q)) <=> Queued("shell", q))
                 /\ Head(q) = "shell" => (Queued("thread", Tail(q)) <=> Queued("thread", q))
                 /\ Head(q) = q[1]
<1>1. /\ Append(<<>>, "thread") = <<"thread">> /\ Append(<<>>, "shell") = <<"shell">>
      /\ Append(<<"thread">>, "shell") = <<"thread", "shell">>
      /\ Append(<<"shell">>, "thread") = <<"shell", "thread">>
  <2>1. "thread" \in {"thread", "shell"} /\ "shell" \in {"thread", "shell"}
    OBVIOUS
  <2> QED BY <2>1, AppendOne
<1>2. /\ Tail(<<"thread">>) = <<>> /\ Tail(<<"shell">>) = <<>>
      /\ Tail(<<"thread", "shell">>) = <<"shell">> /\ Tail(<<"shell", "thread">>) = <<"thread">>
      /\ Head(<<"thread">>) = "thread" /\ Head(<<"shell">>) = "shell"
      /\ Head(<<"thread", "shell">>) = "thread" /\ Head(<<"shell", "thread">>) = "shell"
  OBVIOUS
<1>3. CASE q = <<>>
  BY <1>1, <1>2, <1>3, QueueFacts DEF Queues
<1>4. CASE q = <<"thread">>
  BY <1>1, <1>2, <1>4, QueueFacts DEF Queues
<1>5. CASE q = <<"shell">>
  BY <1>1, <1>2, <1>5, QueueFacts DEF Queues
<1>6. CASE q = <<"thread", "shell">>
  BY <1>1, <1>2, <1>6, QueueFacts DEF Queues
<1>7. CASE q = <<"shell", "thread">>
  BY <1>1, <1>2, <1>7, QueueFacts DEF Queues
<1> QED BY <1>3, <1>4, <1>5, <1>6, <1>7 DEF Queues

LEMMA NotAgain ==
    ASSUME RadioTypes, [Next]_vars, ~At("initialize")
    PROVE  ~At("initialize")'
<1> USE DEF At
<1>1. ASSUME UNCHANGED todo PROVE ~At("initialize")'
  BY <1>1
<1>2. ASSUME SetMode PROVE ~At("initialize")'
  BY <1>2, SetModeSteps DEF Follows, Sending, Settings, Inner, InReceive, Returns
<1>3. ASSUME Assign PROVE ~At("initialize")'
  BY <1>3, AssignSteps DEF Follows, Sending, Settings, Inner, InReceive, Returns
<1>4. ASSUME Initialize PROVE ~At("initialize")'
  BY <1>4, InitializeSteps
<1>5. ASSUME NEW op \in {"read", "write", "testpa1", "testpa2"}, Access(op)
      PROVE  ~At("initialize")'
  BY <1>5, AccessSteps DEF Inner
<1>6. ASSUME Handler PROVE ~At("initialize")'
  BY <1>6, HandlerSteps DEF Follows, Sending, Settings, Inner, InReceive, Returns
<1>7. ASSUME Payload PROVE ~At("initialize")'
  BY <1>7, PayloadSteps DEF Follows, Sending, Settings, Inner, InReceive, Returns
<1>8. ASSUME Fetch PROVE ~At("initialize")'
  BY <1>8, FetchSteps
<1>9. ASSUME ReceiveBegin PROVE ~At("initialize")'
  BY <1>9, ReceiveBeginSteps
<1>10. ASSUME Restart PROVE ~At("initialize")'
  <2>1. Doing("restart") /\ Do(<<>>) /\ "restart" \in Simple
    BY <1>10 DEF Restart, Turn, Simple
  <2> QED BY <2>1, PopSteps DEF Follows, Sending, Settings, Inner, InReceive, Returns
<1>11. ASSUME Done PROVE ~At("initialize")'
  BY <1>11, DoneSteps DEF Follows, Sending, Settings, Inner, InReceive, Returns
<1>12. ASSUME Csma PROVE ~At("initialize")'
  BY <1>12, CsmaSteps
<1>13. ASSUME SendFrame PROVE ~At("initialize")'
  BY <1>13, SendFrameSteps
<1>14. ASSUME Fill PROVE ~At("initialize")'
  <2>1. Doing("fill") /\ Do(<<>>) /\ "fill" \in Simple
    BY <1>14 DEF Fill, Turn, Simple
  <2> QED BY <2>1, PopSteps DEF Follows, Sending, Settings, Inner, InReceive, Returns
<1>15. ASSUME Sent PROVE ~At("initialize")'
  BY <1>15, SentSteps
<1>16. ASSUME Wait PROVE ~At("initialize")'
  BY <1>16, WaitSteps
<1>17. ASSUME ACKReceived PROVE ~At("initialize")'
  BY <1>17, ACKReceivedSteps
<1>18. ASSUME Poll PROVE ~At("initialize")'
  BY <1>18, PollSteps
<1>19. ASSUME Deliver PROVE ~At("initialize")'
  BY <1>19, DeliverSteps
<1>20. ASSUME Round PROVE ~At("initialize")'
  BY <1>20, RoundSteps
<1>21. ASSUME Acquire \/ Date \/ ShellRead \/ ShellWrite PROVE UNCHANGED todo
  BY <1>21 DEF Acquire, Date, ShellRead, ShellWrite
<1>22. ASSUME NEW p \in Peers, PeerAnswers(p) \/ \E to \in {"us", "another", "all"} : PeerSends(p, to)
       PROVE  UNCHANGED todo
  BY <1>22 DEF PeerSends, PeerAnswers
<1> QED BY <1>1, <1>2, <1>3, <1>4, <1>5, <1>6, <1>7, <1>8, <1>9, <1>10, <1>11, <1>12,
           <1>13, <1>14, <1>15, <1>16, <1>17, <1>18, <1>19, <1>20, <1>21, <1>22
       DEF Next, Thread, vars

LEMMA BusKept ==
    ASSUME RadioTypes, BusInv, [Next]_vars
    PROVE  BusInv'
<1> USE DEF BusInv
<1>1. ~At("initialize") => ~At("initialize")'
  BY NotAgain
\* A step off the bus, and one on it.
<1>2. ASSUME NEW op, op \notin OnBus, op # "initialize", Doing(op), UNCHANGED <<bus, shell>>
      PROVE  BusInv'
  <2>1. todo # <<>> /\ todo[1][1] = op
    BY <1>2, Heads
  <2>2. ~Queued("thread", bus) /\ ~At("initialize")
    BY <1>2, <2>1 DEF At
  <2> QED BY <1>1, <1>2, <2>2
<1>3. ASSUME NEW op, op # "initialize", Turn(op), UNCHANGED shell PROVE BusInv'
  <2>1. ~At("initialize")
    BY <1>3, Heads DEF Turn, At
  <2>2. /\ bus' \in Queues /\ ~Queued("thread", bus')
        /\ Queued("shell", bus') <=> Queued("shell", bus)
    BY <1>3, QueueSteps DEF Turn
  <2> QED BY <1>1, <1>3, <2>1, <2>2
<1>4. ASSUME Acquire PROVE BusInv'
  <2>1. ~Queued("thread", bus) /\ bus' = Append(bus, "thread") /\ UNCHANGED <<shell, todo>>
    BY <1>4 DEF Acquire, Queued
  <2>2. todo # <<>> /\ todo[1][1] \in OnBus
    <3>1. todo # <<>> /\ Head(todo)[1] \in OnBus
      BY <1>4 DEF Acquire
    <3> QED BY <3>1, HeadIsFirst DEF RadioTypes, Shape
  <2>3. /\ bus' \in Queues
        /\ Queued("shell", bus') <=> Queued("shell", bus)
    BY <2>1, QueueSteps
  <2>4. ~At("initialize")'
    BY <2>1, <2>2 DEF At, OnBus
  <2> QED BY <2>1, <2>2, <2>3, <2>4
<1>5. ASSUME Initialize PROVE BusInv'
  <2>1. Doing("initialize") /\ UNCHANGED bus /\ shell' = "idle"
    BY <1>5 DEF Initialize
  <2>2. At("initialize") /\ todo # <<>> /\ todo[1][1] = "initialize"
    BY <2>1, Heads DEF At
  <2>3. ~Queued("thread", bus) /\ ~Queued("shell", bus)
    BY <2>2 DEF OnBus
  <2>4. ~At("initialize")'
    BY <1>5, InitializeSteps DEF At
  <2> QED BY <2>1, <2>3, <2>4
<1>6. ASSUME Date PROVE BusInv'
  <2>1. shell = "idle" /\ UNCHANGED todo
    BY <1>6 DEF Date
  <2>2. CASE UNCHANGED <<shell, bus>>
    BY <1>1, <2>1, <2>2 DEF At
  <2>3. CASE shell' = "reading" /\ bus' = Append(bus, "shell")
    <3>1. /\ bus' \in Queues /\ Queued("shell", bus')
          /\ Queued("thread", bus') <=> Queued("thread", bus)
      BY <2>1, <2>3, QueueSteps
    <3> QED BY <2>1, <2>3, <3>1 DEF At
  <2> QED BY <1>6, <2>2, <2>3 DEF Date
<1>7. ASSUME ShellRead PROVE BusInv'
  <2>1. /\ shell = "reading" /\ Head(bus) = "shell" /\ shell' = "writing"
        /\ bus' = Append(Tail(bus), "shell") /\ UNCHANGED todo
    BY <1>7 DEF ShellRead
  <2>2. bus # <<>>
    BY <2>1, QueueFacts
  <2>3. /\ Tail(bus) \in Queues /\ ~Queued("shell", Tail(bus))
        /\ Queued("thread", Tail(bus)) <=> Queued("thread", bus)
    BY <2>1, <2>2, QueueSteps
  <2>4. /\ bus' \in Queues /\ Queued("shell", bus')
        /\ Queued("thread", bus') <=> Queued("thread", bus)
    BY <2>1, <2>3, QueueSteps
  <2> QED BY <1>1, <2>1, <2>4 DEF At
<1>8. ASSUME ShellWrite PROVE BusInv'
  <2>1. /\ shell = "writing" /\ Head(bus) = "shell" /\ shell' = "idle"
        /\ bus' = Tail(bus) /\ UNCHANGED todo
    BY <1>8 DEF ShellWrite
  <2>2. bus # <<>>
    BY <2>1, QueueFacts
  <2>3. /\ Tail(bus) \in Queues /\ ~Queued("shell", Tail(bus))
        /\ Queued("thread", Tail(bus)) <=> Queued("thread", bus)
    BY <2>1, <2>2, QueueSteps
  <2> QED BY <1>1, <2>1, <2>3 DEF At
<1>9. ASSUME UNCHANGED <<bus, shell, todo>> PROVE BusInv'
  BY <1>9 DEF At
<1>10. ASSUME NEW op \in {"read", "write", "testpa1", "testpa2"}, Access(op) PROVE BusInv'
  BY <1>3, <1>10 DEF Access
<1>11. CASE SetMode
  BY <1>2, <1>11 DEF SetMode, OnBus
<1>12. CASE Assign
  BY <1>2, <1>12 DEF Assign, OnBus
<1>13. CASE Handler
  BY <1>2, <1>13 DEF Handler, OnBus
<1>14. CASE Payload
  BY <1>3, <1>14 DEF Payload
<1>15. CASE Fetch
  BY <1>3, <1>15 DEF Fetch
<1>16. CASE ReceiveBegin
  BY <1>2, <1>16 DEF ReceiveBegin, OnBus
<1>17. CASE Restart
  BY <1>3, <1>17 DEF Restart
<1>18. CASE Done
  BY <1>2, <1>18 DEF Done, OnBus
<1>19. CASE Csma
  BY <1>2, <1>19 DEF Csma, OnBus
<1>20. CASE SendFrame
  BY <1>2, <1>20 DEF SendFrame, OnBus
<1>21. CASE Fill
  BY <1>3, <1>21 DEF Fill
<1>22. CASE Sent
  BY <1>2, <1>22 DEF Sent, OnBus
<1>23. CASE Wait
  BY <1>2, <1>23 DEF Wait, OnBus
<1>24. CASE ACKReceived
  BY <1>2, <1>24 DEF ACKReceived, OnBus
<1>25. CASE Poll
  BY <1>2, <1>25 DEF Poll, OnBus
<1>26. CASE Deliver
  BY <1>2, <1>26 DEF Deliver, OnBus
<1>27. CASE Round
  BY <1>2, <1>27 DEF Round, OnBus
<1>28. ASSUME NEW p \in Peers, PeerAnswers(p) \/ \E to \in {"us", "another", "all"} : PeerSends(p, to)
       PROVE  BusInv'
  BY <1>9, <1>28 DEF PeerSends, PeerAnswers
<1>29. CASE UNCHANGED vars
  BY <1>9, <1>29 DEF vars
<1> QED BY <1>4, <1>5, <1>6, <1>7, <1>8, <1>10, <1>11, <1>12, <1>13, <1>14, <1>15, <1>16,
           <1>17, <1>18, <1>19, <1>20, <1>21, <1>22, <1>23, <1>24, <1>25, <1>26, <1>27,
           <1>28, <1>29 DEF Next, Thread

----------------------------------------------------------------------------
(* The modes.                                                               *)

LEMMA ModeKept ==
    ASSUME RadioTypes, BusInv, ModeInv, ShellInv, [Next]_vars
    PROVE  ModeInv'
<1> USE DEF ModeInv, At, Setting, Inside, Written, Settings, Inner, Mode
<1>0. mode \in Mode /\ chip \in Mode
  BY DEF RadioTypes
<1>1. ASSUME UNCHANGED <<mode, chip, todo>> PROVE ModeInv'
  BY <1>1
<1>2. CASE SetMode
  <2>1. UNCHANGED <<mode, chip>>
    BY <1>2 DEF SetMode
  <2> QED BY <1>0, <1>2, <2>1, SetModeSteps DEF Follows, Sending, InReceive, Returns
<1>3. CASE Assign
  <2>1. mode' = Arg /\ UNCHANGED chip
    BY <1>3 DEF Assign
  <2>2. CASE Len(todo) > 1
    BY <1>0, <1>3, <2>1, <2>2, AssignSteps DEF Follows, Sending, InReceive, Returns
  <2>3. CASE ~(Len(todo) > 1)
    BY <1>0, <1>3, <2>1, <2>3, AssignSteps
  <2> QED BY <2>2, <2>3
<1>4. CASE Initialize
  <2>1. UNCHANGED <<mode, chip>>
    BY <1>4 DEF Initialize
  <2> QED BY <1>0, <1>4, <2>1, InitializeSteps
<1>5. ASSUME NEW op \in {"read", "write", "testpa1", "testpa2"}, Access(op)
      PROVE  ModeInv'
  <2>1. CASE op = "write"
    <3>1. chip' = Arg /\ UNCHANGED mode
      BY <1>5, <2>1 DEF Access, ChipTo
    <3>2. Following(op, Arg) \in {"testpa1", "assign"}
      BY <2>1 DEF Following
    <3> QED BY <1>0, <1>5, <2>1, <3>1, <3>2, AccessSteps
  <2>2. CASE op # "write"
    <3>1. UNCHANGED <<mode, chip>>
      BY <1>5, <2>2 DEF Access
    <3>2. IF op = "read" THEN Following(op, Arg) = "write"
                         ELSE Following(op, Arg) \in {"testpa2", "assign"}
      BY <2>2 DEF Following
    <3> QED BY <1>0, <1>5, <2>2, <3>1, <3>2, AccessSteps
  <2> QED BY <2>1, <2>2
<1>6. CASE Handler
  <2>1. UNCHANGED <<mode, chip>>
    BY <1>6 DEF Handler
  <2> QED BY <1>0, <1>6, <2>1, HandlerSteps DEF Follows, Sending, InReceive, Returns
<1>7. CASE Payload
  <2>1. UNCHANGED <<mode, chip>>
    BY <1>7 DEF Payload
  <2> QED BY <1>0, <1>7, <2>1, PayloadSteps DEF Follows, Sending, InReceive, Returns
<1>8. CASE Fetch
  <2>1. UNCHANGED <<mode, chip>>
    BY <1>8 DEF Fetch
  <2> QED BY <1>0, <1>8, <2>1, FetchSteps DEF Follows, Sending, InReceive, Returns
<1>9. CASE ReceiveBegin
  <2>1. UNCHANGED <<mode, chip>>
    BY <1>9 DEF ReceiveBegin
  <2> QED BY <1>0, <1>9, <2>1, ReceiveBeginSteps
<1>10. CASE Restart
  <2>1. UNCHANGED <<mode, chip>> /\ Doing("restart") /\ Do(<<>>) /\ "restart" \in Simple
    BY <1>10 DEF Restart, Turn, Simple
  <2> QED BY <1>0, <2>1, PopSteps DEF Follows, Sending, InReceive, Returns
<1>11. CASE Done
  <2>1. UNCHANGED <<mode, chip>>
    BY <1>11 DEF Done
  <2> QED BY <1>0, <1>11, <2>1, DoneSteps DEF Follows, Sending, InReceive, Returns
<1>12. CASE Csma
  <2>1. UNCHANGED <<mode, chip>>
    BY <1>12 DEF Csma
  <2> QED BY <1>0, <1>12, <2>1, CsmaSteps
<1>13. CASE SendFrame
  <2>1. UNCHANGED <<mode, chip>>
    BY <1>13 DEF SendFrame
  <2> QED BY <1>0, <1>13, <2>1, SendFrameSteps
<1>14. CASE Fill
  <2>1. UNCHANGED <<mode, chip>> /\ Doing("fill") /\ Do(<<>>) /\ "fill" \in Simple
    BY <1>14 DEF Fill, Turn, Simple
  <2> QED BY <1>0, <2>1, PopSteps DEF Follows, Sending, InReceive, Returns
<1>15. CASE Sent
  <2>1. UNCHANGED <<mode, chip>>
    BY <1>15 DEF Sent
  <2> QED BY <1>0, <1>15, <2>1, SentSteps
<1>16. CASE Wait
  <2>1. UNCHANGED <<mode, chip>>
    BY <1>16 DEF Wait
  <2> QED BY <1>0, <1>16, <2>1, WaitSteps
<1>17. CASE ACKReceived
  <2>1. UNCHANGED <<mode, chip>>
    BY <1>17 DEF ACKReceived
  <2> QED BY <1>0, <1>17, <2>1, ACKReceivedSteps
<1>18. CASE Poll
  <2>1. UNCHANGED <<mode, chip>>
    BY <1>18 DEF Poll
  <2> QED BY <1>0, <1>18, <2>1, PollSteps
<1>19. CASE Deliver
  <2>1. UNCHANGED <<mode, chip>>
    BY <1>19 DEF Deliver
  <2> QED BY <1>0, <1>19, <2>1, DeliverSteps
<1>20. CASE Round
  <2>1. UNCHANGED <<mode, chip>>
    BY <1>20 DEF Round
  <2> QED BY <1>0, <1>20, <2>1, RoundSteps
<1>21. CASE ShellWrite
  <2>1. /\ mode' = "standby" /\ chip' = "standby" /\ UNCHANGED todo
        /\ shell = "writing" /\ Head(bus) = "shell"
    BY <1>21 DEF ShellWrite, ChipTo
  <2>2. bus # <<>> /\ bus[1] = "shell"
    BY <2>1, QueueFacts, QueueSteps DEF BusInv
  <2>3. ~Written("rx") /\ ~Written("tx")
    BY <2>1, <2>2 DEF ShellInv, ShellSafe
  <2> QED BY <1>0, <2>1, <2>3
<1>22. CASE Acquire \/ Date \/ ShellRead \/ UNCHANGED vars
  BY <1>1, <1>22 DEF Acquire, Date, ShellRead, vars
<1>23. ASSUME NEW p \in Peers, PeerAnswers(p) \/ \E to \in {"us", "another", "all"} : PeerSends(p, to)
       PROVE  ModeInv'
  BY <1>1, <1>23 DEF PeerSends, PeerAnswers
<1> QED BY <1>2, <1>3, <1>4, <1>5, <1>6, <1>7, <1>8, <1>9, <1>10, <1>11, <1>12, <1>13, <1>14,
           <1>15, <1>16, <1>17, <1>18, <1>19, <1>20, <1>21, <1>22, <1>23 DEF Next, Thread

\* A setMode is entered by SetMode only, and goes on step by step.
LEMMA OutOfSetMode ==
    ASSUME RadioTypes, Thread, ~Acquire, ~SetMode,
           \A op \in {"read", "write", "testpa1", "testpa2"} : ~Access(op)
    PROVE  \A m \in Mode : ~Inside(m)'
<1> USE DEF Inside, Inner
<1>1. CASE Assign
  BY <1>1, AssignSteps DEF Follows, Sending, Settings, InReceive, Returns
<1>2. CASE Initialize
  BY <1>2, InitializeSteps
<1>3. CASE Handler
  BY <1>3, HandlerSteps DEF Follows, Sending, Settings, InReceive, Returns
<1>4. CASE Payload
  BY <1>4, PayloadSteps DEF Follows, Sending, Settings, InReceive, Returns
<1>5. CASE Fetch
  BY <1>5, FetchSteps
<1>6. CASE ReceiveBegin
  BY <1>6, ReceiveBeginSteps
<1>7. CASE Restart \/ Fill
  <2>1. PICK op \in Simple : op \in {"restart", "fill"} /\ Doing(op) /\ Do(<<>>)
    BY <1>7 DEF Restart, Fill, Turn, Simple
  <2> QED BY <2>1, PopSteps DEF Follows, Sending, Settings, InReceive, Returns
<1>8. CASE Done
  BY <1>8, DoneSteps DEF Follows, Sending, Settings, InReceive, Returns
<1>9. CASE Csma
  BY <1>9, CsmaSteps
<1>10. CASE SendFrame
  BY <1>10, SendFrameSteps
<1>11. CASE Sent
  BY <1>11, SentSteps
<1>12. CASE Wait
  BY <1>12, WaitSteps
<1>13. CASE ACKReceived
  BY <1>13, ACKReceivedSteps
<1>14. CASE Poll
  BY <1>14, PollSteps
<1>15. CASE Deliver
  BY <1>15, DeliverSteps
<1>16. CASE Round
  BY <1>16, RoundSteps
<1> QED BY <1>1, <1>2, <1>3, <1>4, <1>5, <1>6, <1>7, <1>8, <1>9, <1>10, <1>11, <1>12, <1>13,
           <1>14, <1>15, <1>16 DEF Thread

LEMMA Firsts ==
    /\ <<"thread">>[1] = "thread" /\ <<"shell">>[1] = "shell"
    /\ <<"thread", "shell">>[1] = "thread" /\ <<"shell", "thread">>[1] = "shell"
  OBVIOUS

LEMMA ShellKept ==
    ASSUME RadioTypes, BusInv, ModeInv, ShellInv, [Next]_vars
    PROVE  ShellInv'
<1> SUFFICES ASSUME NEW m \in {"rx", "tx"} PROVE ShellSafe(m)'
  BY DEF ShellInv
<1>1. ShellSafe(m)
  BY DEF ShellInv
<1>2. Inside(m) => mode = "standby"
  BY DEF ModeInv, Inside, Setting, Settings
<1>3. (Written(m) => Inside(m)) /\ (Writing(m) => Inside(m))
  BY DEF Written, Writing, Inside, Inner
<1>4. (Written(m)' => Inside(m)') /\ (Writing(m)' => Inside(m)')
  BY DEF Written, Writing, Inside, Inner
<1>5. shell \in {"reading", "writing"} => bus # <<>>
  BY QueueFacts DEF BusInv
<1>6. CASE ~Inside(m)'
  BY <1>4, <1>6 DEF ShellSafe
<1>7. CASE shell' \notin {"reading", "writing"}
  BY <1>7 DEF ShellSafe
<1>8. CASE UNCHANGED <<bus, shell, todo>>
  BY <1>1, <1>8 DEF ShellSafe, Inside, Written, Writing, At
<1>9. CASE SetMode
  <2>1. UNCHANGED <<bus, shell>> /\ Doing("setMode")
    BY <1>9 DEF SetMode
  <2>2. ~Queued("thread", bus)
    BY <2>1, Heads DEF BusInv, OnBus
  <2>3. bus # <<>> => bus[1] # "thread"
    BY <2>2, Firsts, QueueFacts DEF BusInv, Queues
  <2>4. ~Written(m)' /\ ~Writing(m)'
    BY <1>9, SetModeSteps DEF Written, Writing, Inside, At, Follows, Sending, Settings, Inner,
                              InReceive, Returns
  <2> QED BY <1>5, <2>1, <2>3, <2>4 DEF ShellSafe
<1>10. ASSUME NEW op \in {"read", "write", "testpa1", "testpa2"}, Access(op)
       PROVE  ShellSafe(m)'
  <2>1. bus # <<>> /\ Head(bus) = "thread" /\ bus' = Tail(bus) /\ UNCHANGED shell
    BY <1>10 DEF Access, Turn
  <2>2. bus[1] = "thread" /\ ~Queued("thread", bus') /\ bus' \in Queues
    BY <2>1, QueueSteps DEF BusInv
  <2>3. bus' # <<>> => bus'[1] # "thread"
    BY <2>2, Firsts, QueueFacts DEF Queues
  <2>4. shell \in {"reading", "writing"} => bus' # <<>>
    <3>1. bus \in Queues /\ (shell \in {"reading", "writing"} => Queued("shell", bus))
      BY DEF BusInv
    <3>2. Queued("shell", bus') <=> Queued("shell", bus)
      BY <2>1, <3>1, QueueSteps
    <3> QED BY <3>1, <3>2, QueueFacts
  <2>5. Inside(m)' => Inside(m)
    BY <1>10, AccessSteps DEF Inside, Inner
  <2>6. Written(m)' => Written(m) \/ Writing(m)
    BY <1>10, AccessSteps DEF Written, Writing, Inside, Inner, At, Following
  <2> QED BY <1>1, <1>3, <1>4, <2>1, <2>2, <2>3, <2>4, <2>5, <2>6 DEF ShellSafe
<1>11. CASE Acquire
  <2>1. bus' = Append(bus, "thread") /\ UNCHANGED <<shell, todo>> /\ ~Queued("thread", bus)
    BY <1>11 DEF Acquire, Queued
  <2>2. shell \in {"reading", "writing"} => bus = <<"shell">>
    BY <2>1, QueueFacts DEF BusInv, Queues
  <2>3. bus = <<"shell">> => bus' = <<"shell", "thread">>
    <3>1. "thread" \in {"thread", "shell"} /\ "shell" \in {"thread", "shell"}
      OBVIOUS
    <3> QED BY <2>1, <3>1, AppendOne
  <2>4. shell \in {"reading", "writing"} => bus[1] = "shell" /\ bus'[1] = "shell"
    BY <2>2, <2>3, Firsts
  <2> QED BY <1>1, <2>1, <2>4 DEF ShellSafe, Inside, Written, Writing, At
<1>12. CASE Date
  <2>1. mode = "standby" => shell' = "idle"
    BY <1>12 DEF Date
  <2>2. Inside(m)' => Inside(m)
    BY <1>12 DEF Date, Inside
  <2> QED BY <1>2, <1>6, <1>7, <2>1, <2>2
<1>13. CASE ShellRead
  <2>1. /\ shell = "reading" /\ Head(bus) = "shell" /\ shell' = "writing" /\ UNCHANGED todo
    BY <1>13 DEF ShellRead
  <2>2. bus[1] = "shell"
    BY <1>5, <2>1, QueueSteps DEF BusInv
  <2>3. ~Written(m) /\ ~Writing(m)
    BY <1>1, <2>1, <2>2 DEF ShellSafe
  <2> QED BY <2>1, <2>3 DEF ShellSafe, Inside, Written, Writing, At
<1>14. CASE ShellWrite
  BY <1>7, <1>14 DEF ShellWrite
<1>15. ASSUME NEW p \in Peers, PeerAnswers(p) \/ \E to \in {"us", "another", "all"} : PeerSends(p, to)
       PROVE  ShellSafe(m)'
  BY <1>8, <1>15 DEF PeerSends, PeerAnswers
<1>16. CASE UNCHANGED vars
  BY <1>8, <1>16 DEF vars
<1>17. CASE /\ Thread /\ ~Acquire /\ ~SetMode
            /\ \A op \in {"read", "write", "testpa1", "testpa2"} : ~Access(op)
  <2>1. ~Inside(m)'
    BY <1>17, OutOfSetMode DEF Mode
  <2> QED BY <1>6, <2>1
<1> QED BY <1>9, <1>10, <1>11, <1>12, <1>13, <1>14, <1>15, <1>16, <1>17 DEF Next

----------------------------------------------------------------------------
(* The frame receiveDone has returned.                                      *)

LEMMA GotKept ==
    ASSUME RadioTypes, ModeInv, GotInv, [Next]_vars
    PROVE  GotInv'
<1> USE DEF GotInv, Landing, Restarts, At, Next2, Setting, Settings, Inner
<1>0. /\ mode \in Mode
      /\ Setting("tx") => mode = "standby"
      /\ At("sent") => mode # "rx"
  BY DEF RadioTypes, ModeInv
<1>1. ASSUME UNCHANGED <<mode, buf, got, todo>> PROVE GotInv'
  BY <1>1
<1>2. CASE SetMode
  <2>1. UNCHANGED <<mode, buf, got>>
    BY <1>2 DEF SetMode
  <2> QED BY <1>0, <1>2, <2>1, SetModeSteps DEF Follows, Sending, InReceive, Returns, Mode
<1>3. CASE Assign
  <2>1. mode' = Arg /\ UNCHANGED <<buf, got>>
    BY <1>3 DEF Assign
  <2> QED BY <1>0, <1>3, <2>1, AssignSteps DEF Follows, Sending, InReceive, Returns, Mode
<1>4. CASE Initialize
  <2>1. UNCHANGED <<mode, buf, got>>
    BY <1>4 DEF Initialize
  <2> QED BY <1>0, <1>4, <2>1, InitializeSteps
<1>5. ASSUME NEW op \in {"read", "write", "testpa1", "testpa2"}, Access(op)
      PROVE  GotInv'
  <2>1. UNCHANGED <<mode, buf, got>>
    BY <1>5 DEF Access
  <2> QED BY <1>0, <1>5, <2>1, AccessSteps
<1>6. CASE Handler
  <2>1. UNCHANGED <<mode, buf, got>>
    BY <1>6 DEF Handler
  <2> QED BY <1>0, <1>6, <2>1, HandlerSteps DEF Follows, Sending, InReceive, Returns
<1>7. CASE Payload
  <2>1. UNCHANGED <<mode, buf, got>>
    BY <1>7 DEF Payload
  <2> QED BY <1>0, <1>7, <2>1, PayloadSteps
<1>8. CASE Fetch
  <2>1. UNCHANGED <<mode, got>>
    BY <1>8 DEF Fetch
  <2> QED BY <1>0, <1>8, <2>1, FetchSteps
<1>9. CASE ReceiveBegin
  <2>1. UNCHANGED <<mode, got>>
    BY <1>9 DEF ReceiveBegin
  <2> QED BY <1>0, <1>9, <2>1, ReceiveBeginSteps
<1>10. CASE Restart
  <2>1. UNCHANGED <<mode, buf, got>> /\ Doing("restart") /\ Do(<<>>) /\ "restart" \in Simple
    BY <1>10 DEF Restart, Turn, Simple
  <2> QED BY <1>0, <2>1, PopSteps DEF Follows, Sending, InReceive, Returns
<1>11. CASE Done
  <2>1. UNCHANGED <<mode, buf>>
    BY <1>11 DEF Done
  <2> QED BY <1>0, <1>11, <2>1, DoneSteps DEF Follows, Sending, InReceive, Returns
<1>12. CASE Csma
  <2>1. UNCHANGED <<mode, buf, got>>
    BY <1>12 DEF Csma
  <2> QED BY <1>0, <1>12, <2>1, CsmaSteps
<1>13. CASE SendFrame
  <2>1. UNCHANGED <<mode, buf, got>>
    BY <1>13 DEF SendFrame
  <2> QED BY <1>0, <1>13, <2>1, SendFrameSteps
<1>14. CASE Fill
  <2>1. UNCHANGED <<mode, buf, got>> /\ Doing("fill") /\ Do(<<>>) /\ "fill" \in Simple
    BY <1>14 DEF Fill, Turn, Simple
  <2> QED BY <1>0, <2>1, PopSteps DEF Follows, Sending, InReceive, Returns
<1>15. CASE Sent
  <2>1. UNCHANGED <<mode, buf, got>>
    BY <1>15 DEF Sent
  <2> QED BY <1>0, <1>15, <2>1, SentSteps DEF Follows, Sending, InReceive, Returns
<1>16. CASE Wait
  <2>1. UNCHANGED <<mode, buf, got>>
    BY <1>16 DEF Wait
  <2> QED BY <1>0, <1>16, <2>1, WaitSteps
<1>17. CASE ACKReceived
  <2>1. UNCHANGED <<mode, buf, got>>
    BY <1>17 DEF ACKReceived
  <2> QED BY <1>0, <1>17, <2>1, ACKReceivedSteps
<1>18. CASE Poll
  <2>1. UNCHANGED <<mode, buf, got>>
    BY <1>18 DEF Poll
  <2> QED BY <1>0, <1>18, <2>1, PollSteps
<1>19. CASE Deliver
  <2>1. UNCHANGED <<mode, buf, got>>
    BY <1>19 DEF Deliver
  <2> QED BY <1>0, <1>19, <2>1, DeliverSteps
<1>20. CASE Round
  <2>1. UNCHANGED <<mode, buf, got>>
    BY <1>20 DEF Round
  <2> QED BY <1>0, <1>20, <2>1, RoundSteps
<1>21. CASE ShellWrite
  <2>1. mode' = "standby" /\ UNCHANGED <<buf, got, todo>>
    BY <1>21 DEF ShellWrite
  <2> QED BY <1>0, <2>1
<1>22. CASE Acquire \/ Date \/ ShellRead \/ UNCHANGED vars
  BY <1>1, <1>22 DEF Acquire, Date, ShellRead, vars
<1>23. ASSUME NEW p \in Peers, PeerAnswers(p) \/ \E to \in {"us", "another", "all"} : PeerSends(p, to)
       PROVE  GotInv'
  BY <1>1, <1>23 DEF PeerSends, PeerAnswers
<1> QED BY <1>2, <1>3, <1>4, <1>5, <1>6, <1>7, <1>8, <1>9, <1>10, <1>11, <1>12, <1>13, <1>14,
           <1>15, <1>16, <1>17, <1>18, <1>19, <1>20, <1>21, <1>22, <1>23 DEF Next, Thread

----------------------------------------------------------------------------
(* The ACKs.                                                                *)

LEMMA AnswersKept ==
    ASSUME RadioTypes, AnswerInv, [Next]_vars
    PROVE  AnswerInv'
\* What is owed stays as it is where no answer is sent and none asked for.
<1>1. ASSUME history'.asked = history.asked, history'.answers = history.answers,
             Acks(todo') = Acks(todo)
      PROVE  AnswerInv'
  BY <1>1 DEF AnswerInv
<1>2. CASE SetMode
  BY <1>1, <1>2, SetModeSteps DEF SetMode
<1>3. CASE Assign
  BY <1>1, <1>3, AssignSteps DEF Assign
<1>4. CASE Initialize
  BY <1>1, <1>4, InitializeSteps DEF Initialize
<1>5. ASSUME NEW op \in {"read", "write", "testpa1", "testpa2"}, Access(op)
      PROVE  AnswerInv'
  BY <1>1, <1>5, AccessSteps DEF Access
<1>6. CASE Handler
  BY <1>1, <1>6, HandlerSteps DEF Handler
<1>7. CASE Payload
  BY <1>1, <1>7, PayloadSteps DEF Payload
<1>8. CASE Fetch
  BY <1>1, <1>8, FetchSteps DEF Fetch
<1>9. CASE ReceiveBegin
  BY <1>1, <1>9, ReceiveBeginSteps DEF ReceiveBegin
<1>10. CASE Restart
  <2>1. UNCHANGED history /\ Doing("restart") /\ Do(<<>>) /\ "restart" \in Simple
    BY <1>10 DEF Restart, Turn, Simple
  <2> QED BY <1>1, <2>1, PopSteps
<1>11. CASE Done
  BY <1>1, <1>11, DoneSteps DEF Done
<1>12. CASE Csma
  BY <1>1, <1>12, CsmaSteps DEF Csma
<1>13. CASE SendFrame
  BY <1>1, <1>13, SendFrameSteps DEF SendFrame
<1>14. CASE Fill
  <2>1. UNCHANGED history /\ Doing("fill") /\ Do(<<>>) /\ "fill" \in Simple
    BY <1>14 DEF Fill, Turn, Simple
  <2> QED BY <1>1, <2>1, PopSteps
<1>15. CASE Sent
  <2>1. CASE Arg.kind = "ack"
    <3>1. /\ Acks(todo) = {Arg} /\ Acks(todo') = {} /\ Arg \in Job
          /\ history' = [history EXCEPT !.answers = Append(@, Arg.to)]
      BY <1>15, <2>1, SentSteps DEF Sent
    <3>2. /\ history.answers \in Seq(Peers) /\ history.asked \in Seq(Peers) /\ Arg.to \in Peers
          /\ history'.asked = history.asked
          /\ history'.answers = Append(history.answers, Arg.to)
      BY <3>1 DEF RadioTypes, History, Job
    <3>3. /\ Len(history.asked) = Len(history.answers) + 1
          /\ Arg.to = history.asked[Len(history.asked)]
      BY <3>1 DEF AnswerInv
    <3>4. /\ Len(history'.answers) = Len(history.answers) + 1
          /\ \A i \in 1 .. Len(history.answers) : history'.answers[i] = history.answers[i]
          /\ history'.answers[Len(history.answers) + 1] = Arg.to
          /\ Len(history.answers) \in Nat
      BY <3>2, AppendProperties, LenProperties
    <3>5. ASSUME NEW i \in 1 .. Len(history'.answers)
          PROVE  i <= Len(history'.asked) /\ history'.answers[i] = history'.asked[i]
      <4>1. CASE i \in 1 .. Len(history.answers)
        BY <3>2, <3>3, <3>4, <4>1 DEF AnswerInv
      <4>2. CASE i = Len(history.answers) + 1
        BY <3>2, <3>3, <3>4, <4>2
      <4> QED BY <3>4, <4>1, <4>2
    <3>6. Len(history'.asked) = Len(history'.answers)
      BY <3>2, <3>3, <3>4
    <3> QED BY <3>1, <3>5, <3>6 DEF AnswerInv
  <2>2. CASE Arg.kind # "ack"
    <3>1. Acks(todo') = Acks(todo)
      BY <1>15, <2>2, SentSteps
    <3>2. history' = [history EXCEPT !.sent = @ + 1, !.acked = FALSE,
                                     !.due = IF chip = "tx" THEN @ + 1 ELSE @]
      BY <1>15, <2>2 DEF Sent
    <3>3. history'.asked = history.asked /\ history'.answers = history.answers
      BY <3>2 DEF RadioTypes, History
    <3> QED BY <1>1, <3>1, <3>3
  <2> QED BY <2>1, <2>2
<1>16. CASE Wait
  BY <1>1, <1>16, WaitSteps DEF Wait
<1>17. CASE ACKReceived
  <2>1. history'.asked = history.asked /\ history'.answers = history.answers
    BY <1>17, ACKReceivedSteps DEF RadioTypes, History
  <2> QED BY <1>1, <1>17, <2>1, ACKReceivedSteps
<1>18. CASE Poll
  BY <1>1, <1>18, PollSteps DEF Poll
<1>19. CASE Deliver
  <2>1. Acks(todo) = {}
    <3>1. todo # <<>> /\ todo[1][1] = "deliver" /\ Len(todo) = 1
      BY <1>19, DeliverSteps
    <3>2. \A i \in 1 .. 1 : i = 1
      OBVIOUS
    <3> QED BY <3>1, <3>2 DEF Acks, IsAck, Sending
  <2>2. Len(history.asked) = Len(history.answers)
    BY <2>1 DEF AnswerInv
  <2>3. CASE got /\ AckRequested(buf)
    <3>1. /\ history' = [history EXCEPT !.delivered = Append(@, buf), !.asked = Append(@, buf.from)]
          /\ Acks(todo') = {[kind |-> "ack", to |-> buf.from]}
      BY <1>19, <2>1, <2>3, DeliverSteps DEF Deliver
    <3>2. /\ history.answers \in Seq(Peers) /\ history.asked \in Seq(Peers) /\ buf.from \in Peers
          /\ history'.asked = Append(history.asked, buf.from)
          /\ history'.answers = history.answers
      BY <2>3, <3>1 DEF RadioTypes, History, Air, AckRequested, NoFrame
    <3>3. /\ Len(history'.asked) = Len(history.asked) + 1
          /\ \A i \in 1 .. Len(history.asked) : history'.asked[i] = history.asked[i]
          /\ history'.asked[Len(history.asked) + 1] = buf.from
          /\ Len(history.asked) \in Nat
      BY <3>2, AppendProperties, LenProperties
    <3>4. ASSUME NEW i \in 1 .. Len(history'.answers)
          PROVE  i <= Len(history'.asked) /\ history'.answers[i] = history'.asked[i]
      BY <2>2, <3>2, <3>3 DEF AnswerInv
    <3>5. /\ Len(history'.asked) = Len(history'.answers) + 1
          /\ buf.from = history'.asked[Len(history'.asked)]
      BY <2>2, <3>2, <3>3
    <3> QED BY <3>1, <3>4, <3>5 DEF AnswerInv
  <2>4. CASE ~(got /\ AckRequested(buf))
    <3>1. Acks(todo') = Acks(todo)
      BY <1>19, <2>4, DeliverSteps
    <3>2. history' = IF got THEN [history EXCEPT !.delivered = Append(@, buf)] ELSE history
      <4>1. CASE got
        <5>1. history' = [history EXCEPT !.delivered = Append(@, buf), !.asked = history.asked]
          BY <1>19, <2>4, <4>1 DEF Deliver
        <5> QED BY <4>1, <5>1 DEF RadioTypes, History
      <4>2. CASE ~got
        BY <1>19, <4>2 DEF Deliver
      <4> QED BY <4>1, <4>2
    <3>3. history'.asked = history.asked /\ history'.answers = history.answers
      BY <3>2 DEF RadioTypes, History
    <3> QED BY <1>1, <3>1, <3>3
  <2> QED BY <2>3, <2>4
<1>20. CASE Round
  <2>1. history'.asked = history.asked /\ history'.answers = history.answers
    BY <1>20 DEF Round, RadioTypes, History
  <2> QED BY <1>1, <1>20, <2>1, RoundSteps
<1>21. CASE Date
  <2>1. history'.asked = history.asked /\ history'.answers = history.answers /\ UNCHANGED todo
    BY <1>21 DEF Date, RadioTypes, History
  <2> QED BY <1>1, <2>1
<1>22. CASE Acquire \/ ShellRead \/ ShellWrite \/ UNCHANGED vars
  BY <1>1, <1>22 DEF Acquire, ShellRead, ShellWrite, vars
<1>23. ASSUME NEW p \in Peers, PeerAnswers(p) \/ \E to \in {"us", "another", "all"} : PeerSends(p, to)
       PROVE  AnswerInv'
  <2>1. history'.asked = history.asked /\ history'.answers = history.answers /\ UNCHANGED todo
    BY <1>23 DEF PeerSends, PeerAnswers, RadioTypes, History
  <2> QED BY <1>1, <2>1
<1> QED BY <1>2, <1>3, <1>4, <1>5, <1>6, <1>7, <1>8, <1>9, <1>10, <1>11, <1>12, <1>13, <1>14,
           <1>15, <1>16, <1>17, <1>18, <1>19, <1>20, <1>21, <1>22, <1>23 DEF Next, Thread

----------------------------------------------------------------------------
(* The frames.                                                              *)

\* Where an action leads to, with the frames and what was delivered as it was.
LEMMA UsableKept ==
    ASSUME RadioTypes, ModeInv, Thread, ~Fetch, ~ReceiveBegin, ~Fill
    PROVE  (Usable' => Usable) /\ (Filled' => Filled)
<1> USE DEF Usable, Filled, Landing, Restarts, At, Next2, Setting, Settings, Inner
<1>0. mode \in Mode /\ (At("sent") => mode # "rx")
  BY DEF RadioTypes, ModeInv
<1>1. CASE Acquire
  BY <1>1 DEF Acquire
<1>2. CASE SetMode
  <2>1. UNCHANGED mode
    BY <1>2 DEF SetMode
  <2>2. mode # "tx" \/ Setting("standby")
    BY <1>2, SetModeSteps DEF ModeInv
  <2> QED BY <1>0, <1>2, <2>1, <2>2, SetModeSteps DEF Follows, Sending, InReceive, Returns, Mode
<1>3. CASE Assign
  <2>1. mode' = Arg
    BY <1>3 DEF Assign
  <2> QED BY <1>0, <1>3, <2>1, AssignSteps DEF Follows, Sending, InReceive, Returns, Mode
<1>4. CASE Initialize
  <2>1. UNCHANGED mode
    BY <1>4 DEF Initialize
  <2> QED BY <1>4, <2>1, InitializeSteps
<1>5. ASSUME NEW op \in {"read", "write", "testpa1", "testpa2"}, Access(op)
      PROVE  (Usable' => Usable) /\ (Filled' => Filled)
  <2>1. UNCHANGED mode
    BY <1>5 DEF Access
  <2> QED BY <1>5, <2>1, AccessSteps
<1>6. CASE Handler
  <2>1. UNCHANGED mode
    BY <1>6 DEF Handler
  <2> QED BY <1>6, <2>1, HandlerSteps DEF Follows, Sending, InReceive, Returns
<1>7. CASE Payload
  <2>1. UNCHANGED mode
    BY <1>7 DEF Payload
  <2> QED BY <1>7, <2>1, PayloadSteps DEF Follows, Sending, InReceive, Returns
<1>8. CASE Restart
  <2>1. UNCHANGED mode /\ Doing("restart") /\ Do(<<>>) /\ "restart" \in Simple
    BY <1>8 DEF Restart, Turn, Simple
  <2> QED BY <2>1, PopSteps DEF Follows, Sending, InReceive, Returns
<1>9. CASE Done
  <2>1. UNCHANGED mode
    BY <1>9 DEF Done
  <2> QED BY <1>9, <2>1, DoneSteps DEF Follows, Sending, InReceive, Returns
<1>10. CASE Csma
  <2>1. UNCHANGED mode
    BY <1>10 DEF Csma
  <2> QED BY <1>10, <2>1, CsmaSteps
<1>11. CASE SendFrame
  <2>1. UNCHANGED mode
    BY <1>11 DEF SendFrame
  <2> QED BY <1>11, <2>1, SendFrameSteps
<1>12. CASE Sent
  <2>1. UNCHANGED mode
    BY <1>12 DEF Sent
  <2> QED BY <1>12, <2>1, SentSteps DEF Follows, Sending, InReceive, Returns
<1>13. CASE Wait
  <2>1. UNCHANGED mode
    BY <1>13 DEF Wait
  <2> QED BY <1>13, <2>1, WaitSteps
<1>14. CASE ACKReceived
  <2>1. UNCHANGED mode
    BY <1>14 DEF ACKReceived
  <2> QED BY <1>14, <2>1, ACKReceivedSteps
<1>15. CASE Poll
  <2>1. UNCHANGED mode
    BY <1>15 DEF Poll
  <2> QED BY <1>15, <2>1, PollSteps
<1>16. CASE Deliver
  <2>1. UNCHANGED mode
    BY <1>16 DEF Deliver
  <2> QED BY <1>16, <2>1, DeliverSteps
<1>17. CASE Round
  <2>1. UNCHANGED mode
    BY <1>17 DEF Round
  <2> QED BY <1>17, <2>1, RoundSteps
<1> QED BY <1>1, <1>2, <1>3, <1>4, <1>5, <1>6, <1>7, <1>8, <1>9, <1>10, <1>11, <1>12, <1>13,
           <1>14, <1>15, <1>16, <1>17 DEF Thread

\* While the FIFO holds a frame of ours the chip does not listen.
LEMMA NotListening ==
    ASSUME RadioTypes, ModeInv, Filled
    PROVE  chip # "rx"
<1>1. CASE At("sent")
  <2>1. \A m \in Mode : ~Written(m)
    BY <1>1 DEF At, Written
  <2> QED BY <1>1, <2>1 DEF ModeInv
<1>2. CASE Setting("tx") /\ ~Written("tx")
  <2>1. \A m \in Mode : ~Written(m)
    BY <1>2 DEF Setting, Written
  <2> QED BY <1>2, <2>1 DEF ModeInv
<1>3. CASE Written("tx")
  BY <1>3 DEF ModeInv, Mode
<1> QED BY <1>1, <1>2, <1>3 DEF Filled

LEMMA NoneFresh == Fresh(NoFrame) /\ NoFrame.kind = "none"
  BY DEF Fresh, NoFrame

LEMMA FrameKept ==
    ASSUME RadioTypes, ModeInv, GotInv, FrameInv, [Next]_vars
    PROVE  FrameInv'
\* The FIFO as it was or emptied, the buffers and what was delivered as they were.
<1>1. ASSUME fifo' \in {fifo, NoFrame}, UNCHANGED buf,
             history'.delivered = history.delivered, history'.sent = history.sent,
             history'.aired = history.aired,
             Usable' => Usable, Filled' => Filled
      PROVE  FrameInv'
  BY <1>1, NoneFresh DEF FrameInv, Fresh
<1>2. CASE UNCHANGED <<fifo, buf, history>> /\ Thread /\ ~Fetch /\ ~ReceiveBegin /\ ~Fill
  BY <1>1, <1>2, UsableKept
<1>3. CASE Acquire \/ SetMode \/ Assign \/ Initialize
  BY <1>2, <1>3 DEF Acquire, SetMode, Assign, Initialize, Thread, Fetch, ReceiveBegin, Fill, Turn, Doing
<1>4. ASSUME NEW op \in {"read", "write", "testpa1", "testpa2"}, Access(op)
      PROVE  FrameInv'
  <2>1. UNCHANGED <<buf, history>> /\ fifo' \in {fifo, NoFrame}
    BY <1>4 DEF Access, ChipTo
  <2>2. Thread /\ ~Fetch /\ ~ReceiveBegin /\ ~Fill
    BY <1>4 DEF Thread, Access, Fetch, ReceiveBegin, Fill, Turn, Doing
  <2> QED BY <1>1, <2>1, <2>2, UsableKept
<1>5. CASE Handler \/ Payload \/ Done
  BY <1>2, <1>5 DEF Handler, Payload, Done, Thread, Fetch, ReceiveBegin, Fill, Turn, Doing
<1>6. CASE Restart
  <2>1. UNCHANGED <<buf, history>> /\ fifo' \in {fifo, NoFrame}
    BY <1>6 DEF Restart
  <2>2. Thread /\ ~Fetch /\ ~ReceiveBegin /\ ~Fill
    BY <1>6 DEF Thread, Restart, Fetch, ReceiveBegin, Fill, Turn, Doing
  <2> QED BY <1>1, <2>1, <2>2, UsableKept
<1>7. CASE Csma \/ SendFrame \/ Wait \/ Poll
  BY <1>2, <1>7 DEF Csma, SendFrame, Wait, Poll, Thread, Fetch, ReceiveBegin, Fill, Turn, Doing
<1>8. CASE Fetch
  <2>1. fifo' = NoFrame /\ buf' \in {fifo, NoFrame} /\ UNCHANGED history
    BY <1>8 DEF Fetch
  <2> QED BY <2>1, NoneFresh DEF FrameInv, Fresh
<1>9. CASE ReceiveBegin
  <2>1. UNCHANGED <<fifo, history>> /\ buf' = NoFrame
    BY <1>9 DEF ReceiveBegin
  <2>2. ~Filled'
    BY <1>9, ReceiveBeginSteps DEF Filled, At, Setting, Settings, Inner
  <2> QED BY <2>1, <2>2, NoneFresh DEF FrameInv, Fresh
<1>10. CASE Fill
  <2>1. /\ fifo' = NoFrame /\ UNCHANGED <<mode, buf, history>>
        /\ Doing("fill") /\ Do(<<>>) /\ "fill" \in Simple
    BY <1>10 DEF Fill, Turn, Simple
  <2>2. Usable' => Usable
    BY <2>1, PopSteps DEF Usable, Landing, Restarts, At, Next2, Setting, Settings, Inner,
                          Follows, Sending, InReceive, Returns
  <2> QED BY <2>1, <2>2, NoneFresh DEF FrameInv, Fresh
<1>11. CASE Sent
  <2>1. /\ UNCHANGED <<mode, fifo, buf>> /\ At("sent") /\ Thread
        /\ ~Fetch /\ ~ReceiveBegin /\ ~Fill
    BY <1>11, SentSteps DEF Sent, At, Thread, Fetch, ReceiveBegin, Fill, Turn, Doing
  <2>2. fifo = NoFrame /\ mode # "rx"
    BY <2>1 DEF FrameInv, ModeInv, Filled
  <2>3. ~Usable' /\ ~Filled'
    BY <1>11, <2>1, <2>2, SentSteps
       DEF Usable, Filled, Landing, Restarts, At, Next2, Setting, Settings, Inner,
           Follows, Sending
  <2>4. history'.delivered = history.delivered /\ history'.aired = history.aired
    BY <1>11 DEF Sent, RadioTypes, History
  <2> QED BY <2>1, <2>2, <2>3, <2>4, NoneFresh DEF FrameInv, Fresh
<1>12. CASE ACKReceived
  <2>1. /\ UNCHANGED <<fifo, buf>> /\ Thread /\ ~Fetch /\ ~ReceiveBegin /\ ~Fill
    BY <1>12 DEF ACKReceived, Thread, Fetch, ReceiveBegin, Fill, Turn, Doing
  <2>2. /\ history'.delivered = history.delivered /\ history'.aired = history.aired
        /\ history'.sent = history.sent
    BY <1>12, ACKReceivedSteps DEF RadioTypes, History
  <2> QED BY <1>1, <2>1, <2>2, UsableKept
<1>13. CASE Deliver
  <2>1. /\ UNCHANGED <<mode, fifo, buf>> /\ At("deliver") /\ Thread
        /\ ~Fetch /\ ~ReceiveBegin /\ ~Fill
    BY <1>13, DeliverSteps DEF Deliver, At, Thread, Fetch, ReceiveBegin, Fill, Turn, Doing
  <2>2. CASE ~got
    BY <1>2, <1>13, <2>1, <2>2 DEF Deliver
  <2>3. CASE got
    <3>1. buf # NoFrame /\ mode # "rx" /\ Fresh(buf)
      BY <2>1, <2>3 DEF GotInv, FrameInv, Usable, Landing, At, Setting, Settings, Inner
    <3>2. buf \in Air /\ history.delivered \in Seq(Air)
      BY <3>1 DEF RadioTypes, History
    <3>3. /\ history'.delivered = Append(history.delivered, buf)
          /\ history'.sent = history.sent /\ history'.aired = history.aired
      BY <1>13, <2>3 DEF Deliver, RadioTypes, History
    <3>4. /\ Len(history'.delivered) = Len(history.delivered) + 1
          /\ \A i \in 1 .. Len(history.delivered) : history'.delivered[i] = history.delivered[i]
          /\ history'.delivered[Len(history.delivered) + 1] = buf
          /\ Len(history.delivered) \in Nat
      BY <3>2, <3>3, AppendProperties, LenProperties
    <3>5. ~Usable' /\ (Filled' => Filled)
      BY <1>13, <2>1, <3>1, DeliverSteps, UsableKept
         DEF Usable, Landing, Restarts, At, Next2, Setting, Settings, Inner
    <3>6. ASSUME NEW i \in 1 .. Len(history'.delivered)
          PROVE  i \in 1 .. Len(history.delivered) \/ i = Len(history.delivered) + 1
      BY <3>4
    <3>7. /\ buf.kind = "data" => buf.no \in Nat
          /\ fifo.kind = "data" => fifo.no \in Nat
          /\ \A i \in 1 .. Len(history.delivered) : history.delivered[i].kind = "data"
                => history.delivered[i].no \in Nat
      <4>1. \A f \in Air \cup {NoFrame} : f.kind = "data" => f.no \in Nat
        BY DEF Air, NoFrame
      <4>2. \A i \in 1 .. Len(history.delivered) : history.delivered[i] \in Air
        BY <3>2
      <4> QED BY <4>1, <4>2 DEF RadioTypes
    <3>8. Fresh(fifo)'
      <4>1. Fresh(fifo) /\ (fifo.kind = "data" /\ buf.kind = "data" => buf.no < fifo.no)
        BY DEF FrameInv
      <4> QED BY <2>1, <3>3, <3>4, <3>6, <4>1 DEF Fresh
    <3>9. ASSUME NEW i \in 1 .. Len(history'.delivered), history'.delivered[i].kind = "data"
          PROVE  history'.delivered[i].no <= history'.aired
      BY <3>3, <3>4, <3>6, <3>9 DEF FrameInv
    <3>10. ASSUME NEW i \in 1 .. Len(history'.delivered), NEW j \in 1 .. Len(history'.delivered),
                  i < j, history'.delivered[i].kind = "data", history'.delivered[j].kind = "data"
           PROVE  history'.delivered[i].no < history'.delivered[j].no
      <4>1. i \in 1 .. Len(history.delivered)
        BY <3>4, <3>10
      <4>2. CASE j \in 1 .. Len(history.delivered)
        BY <3>4, <3>10, <4>1, <4>2 DEF FrameInv
      <4>3. CASE j = Len(history.delivered) + 1
        BY <3>1, <3>4, <3>10, <4>1, <4>3 DEF Fresh
      <4> QED BY <3>6, <4>2, <4>3
    <3> QED BY <2>1, <3>3, <3>5, <3>8, <3>9, <3>10 DEF FrameInv
  <2> QED BY <2>2, <2>3
<1>14. CASE Round
  <2>1. /\ UNCHANGED <<fifo, buf>> /\ Thread /\ ~Fetch /\ ~ReceiveBegin /\ ~Fill
    BY <1>14 DEF Round, Thread, Fetch, ReceiveBegin, Fill, Turn, Doing
  <2>2. /\ history'.delivered = history.delivered /\ history'.aired = history.aired
        /\ history'.sent = history.sent
    BY <1>14 DEF Round, RadioTypes, History
  <2> QED BY <1>1, <2>1, <2>2, UsableKept
<1>15. CASE Date
  <2>1. /\ UNCHANGED <<mode, fifo, buf, todo>>
        /\ history'.delivered = history.delivered /\ history'.aired = history.aired
        /\ history'.sent = history.sent
    BY <1>15 DEF Date, RadioTypes, History
  <2> QED BY <1>1, <2>1 DEF Usable, Filled, Landing, Restarts, At, Next2, Setting
<1>16. CASE ShellRead \/ UNCHANGED vars
  <2>1. UNCHANGED <<mode, fifo, buf, todo, history>>
    BY <1>16 DEF ShellRead, vars
  <2> QED BY <1>1, <2>1 DEF Usable, Filled, Landing, Restarts, At, Next2, Setting
<1>17. CASE ShellWrite
  <2>1. mode' = "standby" /\ UNCHANGED <<buf, todo, history>> /\ fifo' \in {fifo, NoFrame}
    BY <1>17 DEF ShellWrite, ChipTo
  <2> QED BY <1>1, <2>1 DEF Usable, Filled, Landing, Restarts, At, Next2, Setting
<1>18. ASSUME NEW p \in Peers, NEW to \in {"us", "another", "all"}, PeerSends(p, to)
       PROVE  FrameInv'
  <2>1. /\ UNCHANGED <<mode, buf, todo>>
        /\ history'.delivered = history.delivered /\ history'.sent = history.sent
        /\ history.aired \in Nat /\ history'.aired = history.aired + 1
        /\ fifo' = IF Listening THEN Data(p, to, history.aired + 1) ELSE fifo
    BY <1>18 DEF PeerSends, RadioTypes, History
  <2>2. (Usable' <=> Usable) /\ (Filled' <=> Filled)
    BY <2>1 DEF Usable, Filled, Landing, Restarts, At, Next2, Setting
  <2>3. Filled => ~Listening
    BY NotListening DEF Listening
  <2>4. \A f \in Air \cup {NoFrame} : f.kind = "data" => f.no \in Nat
    BY DEF Air, NoFrame
  <2>5. \A i \in 1 .. Len(history.delivered) : history.delivered[i] \in Air
    BY DEF RadioTypes, History
  <2>6. CASE Listening
    <3>1. fifo'.kind = "data" /\ fifo'.no = history.aired + 1
      BY <2>1, <2>6 DEF Data
    <3>2. \A i \in 1 .. Len(history.delivered) : history.delivered[i].kind = "data"
             => history.delivered[i].no \in Nat /\ history.delivered[i].no <= history.aired
      BY <2>4, <2>5 DEF FrameInv
    <3>3. buf.kind = "data" => buf.no \in Nat /\ buf.no <= history.aired
      BY <2>4 DEF FrameInv, RadioTypes
    <3>4. Fresh(fifo)'
      BY <2>1, <3>1, <3>2 DEF Fresh
    <3>5. Usable' => Fresh(buf)'
      BY <2>1, <2>2 DEF FrameInv, Fresh
    <3>6. \A i, j \in 1 .. Len(history'.delivered) :
             i < j /\ history'.delivered[i].kind = "data" /\ history'.delivered[j].kind = "data"
             => history'.delivered[i].no < history'.delivered[j].no
      BY <2>1 DEF FrameInv
    <3>7. \A i \in 1 .. Len(history'.delivered) : history'.delivered[i].kind = "data"
             => history'.delivered[i].no <= history'.aired
      BY <2>1, <3>2
    <3>8. /\ fifo'.kind = "data" /\ buf'.kind = "data" => buf'.no < fifo'.no
          /\ fifo'.kind = "data" => fifo'.no <= history'.aired
          /\ buf'.kind = "data" => buf'.no <= history'.aired
      BY <2>1, <3>1, <3>3
    <3> QED BY <2>2, <2>3, <2>6, <3>4, <3>5, <3>6, <3>7, <3>8 DEF FrameInv
  <2>7. CASE ~Listening
    <3>1. UNCHANGED fifo
      BY <2>1, <2>7
    <3>2. /\ fifo.kind = "data" => fifo.no \in Nat /\ fifo.no <= history.aired
          /\ buf.kind = "data" => buf.no \in Nat /\ buf.no <= history.aired
          /\ \A i \in 1 .. Len(history.delivered) : history.delivered[i].kind = "data"
                => history.delivered[i].no \in Nat /\ history.delivered[i].no <= history.aired
      BY <2>4, <2>5 DEF FrameInv, RadioTypes
    <3>3. /\ fifo.kind = "data" => fifo.no <= history.aired + 1
          /\ buf.kind = "data" => buf.no <= history.aired + 1
          /\ \A i \in 1 .. Len(history.delivered) : history.delivered[i].kind = "data"
                => history.delivered[i].no <= history.aired + 1
      BY <2>1, <3>2
    <3> QED BY <2>1, <2>2, <3>1, <3>3 DEF FrameInv, Fresh
  <2> QED BY <2>6, <2>7
<1>19. ASSUME NEW p \in Peers, PeerAnswers(p) PROVE FrameInv'
  <2>1. /\ UNCHANGED <<mode, buf, todo>>
        /\ history'.delivered = history.delivered /\ history'.sent = history.sent
        /\ history'.aired = history.aired
        /\ fifo' = IF Listening THEN AckOf(p, history.sent) ELSE fifo
    BY <1>19 DEF PeerAnswers, RadioTypes, History
  <2>2. (Usable' <=> Usable) /\ (Filled' <=> Filled)
    BY <2>1 DEF Usable, Filled, Landing, Restarts, At, Next2, Setting
  <2>3. Filled => ~Listening
    BY NotListening DEF Listening
  <2>4. CASE Listening
    <3>1. fifo'.kind = "ack" /\ fifo'.no = history'.sent
      BY <2>1, <2>4 DEF AckOf
    <3> QED BY <2>1, <2>2, <2>3, <2>4, <3>1 DEF FrameInv, Fresh
  <2>5. CASE ~Listening
    BY <1>1, <2>1, <2>2, <2>5
  <2> QED BY <2>4, <2>5
<1> QED BY <1>3, <1>4, <1>5, <1>6, <1>7, <1>8, <1>9, <1>10, <1>11, <1>12, <1>13, <1>14,
           <1>15, <1>16, <1>17, <1>18, <1>19 DEF Next, Thread

----------------------------------------------------------------------------
(* The theorems.                                                            *)

Invariants ==
    /\ RadioTypes /\ BusInv /\ ModeInv /\ ShellInv
    /\ FrameInv /\ GotInv /\ AnswerInv

LEMMA InitInvariants == Init => Invariants
<1> SUFFICES ASSUME Init PROVE Invariants
  OBVIOUS
<1>1. /\ todo = <<<<"initialize">>>> /\ todo # <<>> /\ todo[1] = <<"initialize">>
      /\ ~(Len(todo) > 1) /\ Len(todo) = 1
      /\ mode = "standby" /\ chip = "standby" /\ fifo = NoFrame /\ buf = NoFrame
      /\ got = FALSE /\ bus = <<>> /\ shell = "none"
      /\ history = [aired |-> 0, delivered |-> <<>>, asked |-> <<>>, answers |-> <<>>,
                    sent |-> 0, due |-> 0, messages |-> 0, dates |-> 0, acked |-> TRUE]
  BY DEF Init
<1>2. Shape(todo)
  <2>1. <<"initialize">> \in Step
    BY DEF Step, Terminal
  <2> QED BY <1>1, <2>1 DEF Shape, Chain
<1>3. RadioTypes
  <2>1. <<>> \in Seq(Air) /\ <<>> \in Seq(Peers)
    OBVIOUS
  <2>2. history \in History
    BY <1>1, <2>1 DEF History
  <2> QED BY <1>1, <1>2, <2>2 DEF RadioTypes, Mode
<1>4. BusInv
  BY <1>1, QueueFacts DEF BusInv, Queues
<1>5. ModeInv
  BY <1>1 DEF ModeInv, Mode, At, Setting, Inside, Written, Settings, Inner
<1>6. ShellInv
  BY <1>1 DEF ShellInv, ShellSafe
<1>7. FrameInv
  BY <1>1, NoneFresh DEF FrameInv, Filled, At, Setting
<1>8. GotInv
  BY <1>1 DEF GotInv
<1>9. AnswerInv
  <2>1. \A i \in 1 .. 1 : i = 1
    OBVIOUS
  <2>2. Acks(todo) = {}
    BY <1>1, <2>1 DEF Acks, IsAck, Sending
  <2> QED BY <1>1, <2>2 DEF AnswerInv
<1> QED BY <1>3, <1>4, <1>5, <1>6, <1>7, <1>8, <1>9 DEF Invariants

LEMMA InvariantsKept == Invariants /\ [Next]_vars => Invariants'
<1> SUFFICES ASSUME Invariants, [Next]_vars PROVE Invariants'
  OBVIOUS
<1>1. /\ RadioTypes /\ BusInv /\ ModeInv /\ ShellInv
      /\ FrameInv /\ GotInv /\ AnswerInv
  BY DEF Invariants
<1>2. RadioTypes' /\ BusInv'
  BY <1>1, TypesKept, BusKept
<1>3. ModeInv' /\ ShellInv'
  BY <1>1, ModeKept, ShellKept
<1>4. FrameInv' /\ GotInv' /\ AnswerInv'
  BY <1>1, FrameKept, GotKept, AnswersKept
<1> QED BY <1>2, <1>3, <1>4 DEF Invariants

\* Every part of the inductive invariant holds in every reachable state of driver,
\* shell and chip, for any peers, retries, frames, messages and uses of `date`.
THEOREM RadioInvariants == Spec => []Invariants
<1> QED BY InitInvariants, InvariantsKept, PTL DEF Spec

\* The driver's variables have their types, and what Thread1 has still to do is
\* always a sequence of steps of RFM69.cpp in which each may follow the last.
THEOREM RadioTypeCorrect == Spec => []RadioTypes
<1>1. Invariants => RadioTypes
  BY DEF Invariants
<1> QED BY <1>1, RadioInvariants, PTL

\* _mode differs from the chip's mode only between setMode's write of OPMODE and
\* its assignment, whatever the shell's readTemperature does in between.
THEOREM ModeFollowsChip == Spec => []ModeIsTheChips
<1>1. Invariants => ModeIsTheChips
  <2> SUFFICES ASSUME Invariants, mode # chip
               PROVE  Doing("testpa1") \/ Doing("testpa2") \/ Doing("assign")
    BY DEF ModeIsTheChips
  <2>1. PICK m \in Mode : Written(m)
    BY DEF Invariants, ModeInv
  <2>2. todo \in Seq(Step)
    BY DEF Invariants, RadioTypes, Shape
  <2> QED BY <2>1, <2>2, HeadIsFirst DEF Written, At
<1> QED BY <1>1, RadioInvariants, PTL

\* A peer's frame is delivered at most once and in the order of arrival, however
\* many calls of receiveDone find it in the driver's buffers.
THEOREM FramesOnce == Spec => []EachFrameOnce
<1>1. Invariants => EachFrameOnce
  <2>1. ASSUME Invariants PROVE DOMAIN history.delivered = 1 .. Len(history.delivered)
    BY <2>1 DEF Invariants, RadioTypes, History
  <2> QED BY <2>1 DEF Invariants, FrameInv, EachFrameOnce
<1> QED BY <1>1, RadioInvariants, PTL

\* Each frame that was delivered and asked for an ACK has it sent to its sender,
\* in order; at most the last is still owed.
THEOREM AnswersRight == Spec => []AnswersGoToSenders
<1>1. Invariants => AnswersGoToSenders
  <2> SUFFICES ASSUME Invariants PROVE AnswersGoToSenders
    OBVIOUS
  <2>1. /\ DOMAIN history.answers = 1 .. Len(history.answers)
        /\ Len(history.answers) \in Nat /\ Len(history.asked) \in Nat
    BY DEF Invariants, RadioTypes, History
  <2>2. Len(history.asked) = Len(history.answers) \/ Len(history.asked) = Len(history.answers) + 1
    BY DEF Invariants, AnswerInv
  <2>3. Len(history.answers) \in {Len(history.asked) - 1, Len(history.asked)}
    BY <2>1, <2>2
  <2> QED BY <2>1, <2>3 DEF Invariants, AnswerInv, AnswersGoToSenders
<1> QED BY <1>1, RadioInvariants, PTL

\* sendWithRetry returns true only for an ACK that came after its last
\* transmission: none that was left in the buffers before it.
THEOREM AcksAreNew == Spec => AckIsNew
<1>1. Invariants /\ [Next]_vars => [Doing("ACKReceived") /\ Head(todo') = <<"poll">> => history'.acked]_vars
  <2> SUFFICES ASSUME Invariants, Next, Doing("ACKReceived"), Head(todo') = <<"poll">>
               PROVE  history'.acked \/ UNCHANGED vars
    OBVIOUS
  <2>1. RadioTypes /\ FrameInv /\ todo # <<>> /\ todo[1][1] = "ACKReceived"
    BY Heads DEF Invariants
  <2>2. Head(todo) # <<"poll">>
    BY <2>1
  <2>3. ~UNCHANGED todo
    BY <2>2
  <2>4. ACKReceived
    BY <2>3 DEF Next, Thread, Acquire, SetMode, Assign, Initialize, Access, Handler, Payload,
                Fetch, ReceiveBegin, Restart, Done, Csma, SendFrame, Fill, Sent, Wait, Poll,
                Deliver, Round, Date, ShellRead, ShellWrite, PeerSends, PeerAnswers, Turn, Doing
  <2>5. \/ /\ got /\ buf.kind = "ack"
           /\ history' = [history EXCEPT !.acked = buf.no = history.sent]
        \/ todo' # <<>> /\ todo'[1] = <<"wait", Arg>>
    BY <2>1, <2>4, ACKReceivedSteps
  <2>6. ASSUME todo' # <<>>, todo'[1] = <<"wait", Arg>> PROVE FALSE
    <3>1. Head(todo') = todo'[1]
      BY <2>1, <2>4, <2>6, ACKReceivedSteps DEF Shape
    <3> QED BY <2>6, <3>1
  <2>7. Usable
    BY <2>1 DEF Usable, Landing, At
  <2>8. buf.kind = "ack" => buf.no = history.sent
    BY <2>1, <2>7 DEF FrameInv, Fresh
  <2> QED BY <2>1, <2>5, <2>6, <2>8 DEF RadioTypes, History
<1> QED BY <1>1, RadioInvariants, PTL DEF Spec, AckIsNew
=============================================================================
