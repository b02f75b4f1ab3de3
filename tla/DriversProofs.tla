---------------------------- MODULE DriversProofs ----------------------------
(* Proofs about the drivers of a version 3 board, for any number of polls,  *)
(* samples, failures and commands: the types of the pressure sensor's       *)
(* driver, the mode it leaves the sensor in, and that no sample is read     *)
(* twice; that the round of all the drivers is one of that driver; and that *)
(* the DHT22's sum finds what one preemption changes, for any frames and     *)
(* delays.                                                                  *)
EXTENDS SensorDrivers, SequenceTheorems, TLAPS

\* The calls the threads make: everything but a call that puts the sensor
\* into standby.
Calls == {"whoami", "active", "barometer", "oversample", "events",
          "clearOST", "setOST", "waitP", "waitT", "readP", "readT"}

CallState == [todo : Seq(Calls), reg : SUBSET Bits, got : BOOLEAN, polls : 0 .. POLLS]

\* Data is read only after a wait for it.
WaitsFirst(calls) ==
    \A i \in 1 .. Len(calls) - 1 :
       /\ calls[i + 1] = "readP" => calls[i] = "waitP"
       /\ calls[i + 1] = "readT" => calls[i] = "waitT"

\* The type invariant, with what the threads' variables may hold.
DriverTypes ==
    /\ firmware \in {"v2", "v3"}
    /\ chip \in [ctrl : SUBSET Bits, events : BOOLEAN, ready : SUBSET Kind,
                 sample : 0 .. SAMPLES]
    /\ thread \in [Thread -> CallState]
    /\ present \in {"unset", "yes", "no"}
    /\ sent \in [pressure : 0 .. SAMPLES, temp : 0 .. SAMPLES, twice : BOOLEAN]
    /\ done \in [failures : 0 .. FAILURES, commands : 0 .. COMMANDS]
    /\ \A t \in Thread : /\ thread[t].got => Call(t) \in Changes
                         /\ WaitsFirst(thread[t].todo)

\* The modes that setup leaves CTRL_REG1 in, a measurement under way or not.
SetUp(reg) == {"SBYB", "OS"} \subseteq reg /\ reg \subseteq {"SBYB", "OS", "OST"}

\* While setup runs, which it does alone, a thread has read what is there; the
\* value there is the one the calls so far have made.
Progress(reg) ==
    LET calls == thread["radio"].todo IN
    \/ calls = <<"whoami", "active", "barometer", "oversample", "events">> /\ reg = {}
    \/ calls = <<"active", "barometer", "oversample", "events">> /\ reg = {}
    \/ calls = <<"barometer", "oversample", "events">> /\ reg = {"SBYB"}
    \/ calls = <<"oversample", "events">> /\ reg = {"SBYB"}
    \/ calls = <<"events">> /\ reg = {"SBYB", "OS"}

ModeInv ==
    done.failures = 0 =>
       IF present = "unset"
       THEN /\ thread["shell"] = NoCall
            /\ Progress(chip.ctrl)
            /\ thread["radio"].got => thread["radio"].reg = chip.ctrl
       ELSE /\ SetUp(chip.ctrl)
            /\ \A t \in Thread : thread[t].got => SetUp(thread[t].reg)

\* What is ready, or has been seen to be ready, has not been read.
SampleInv ==
    /\ sent.pressure <= chip.sample /\ sent.temp <= chip.sample
    /\ done.failures = 0 =>
          /\ "pressure" \in chip.ready \/ Call("radio") = "readP" => sent.pressure < chip.sample
          /\ "temp" \in chip.ready \/ Call("radio") = "readT" => sent.temp < chip.sample
          /\ ~sent.twice
----------------------------------------------------------------------------
(* The sequences of calls.                                                  *)

LEMMA TailOfCalls ==
    ASSUME NEW calls \in Seq(Calls), calls # <<>>, WaitsFirst(calls)
    PROVE  /\ Tail(calls) \in Seq(Calls) /\ WaitsFirst(Tail(calls))
           /\ Head(calls) \in Calls
           /\ Tail(calls) # <<>> /\ Head(Tail(calls)) = "readP" => Head(calls) = "waitP"
           /\ Tail(calls) # <<>> /\ Head(Tail(calls)) = "readT" => Head(calls) = "waitT"
<1>1. /\ Tail(calls) \in Seq(Calls) /\ Head(calls) \in Calls
      /\ Len(Tail(calls)) = Len(calls) - 1 /\ Len(calls) \in Nat \ {0}
      /\ \A i \in 1 .. Len(Tail(calls)) : Tail(calls)[i] = calls[i + 1]
  BY HeadTailProperties, EmptySeq
<1>2. WaitsFirst(Tail(calls))
  BY <1>1 DEF WaitsFirst
<1>3. Tail(calls) # <<>> => Head(Tail(calls)) = calls[2] /\ Len(calls) > 1
  BY <1>1
<1>4. Head(calls) = calls[1]
  BY <1>1
<1> QED BY <1>1, <1>2, <1>3, <1>4 DEF WaitsFirst

\* Calls that begin with another call than a read can follow any others.
LEMMA ConcatCalls ==
    ASSUME NEW s \in Seq(Calls), NEW t \in Seq(Calls), WaitsFirst(s), WaitsFirst(t),
           t = <<>> \/ t[1] \notin DOMAIN Reads
    PROVE  s \o t \in Seq(Calls) /\ WaitsFirst(s \o t)
<1>1. /\ s \o t \in Seq(Calls) /\ Len(s \o t) = Len(s) + Len(t)
      /\ \A i \in 1 .. Len(s) + Len(t) :
            (s \o t)[i] = IF i <= Len(s) THEN s[i] ELSE t[i - Len(s)]
      /\ Len(s) \in Nat /\ Len(t) \in Nat
  BY ConcatProperties, LenProperties
<1>2. DOMAIN Reads = {"readP", "readT"}
  BY DEF Reads
<1>3. ASSUME NEW i \in 1 .. Len(s \o t) - 1
      PROVE  /\ (s \o t)[i + 1] = "readP" => (s \o t)[i] = "waitP"
             /\ (s \o t)[i + 1] = "readT" => (s \o t)[i] = "waitT"
  <2>1. CASE i < Len(s)
    BY <1>1, <2>1 DEF WaitsFirst
  <2>2. CASE i = Len(s)
    <3>1. (s \o t)[i + 1] = t[1] /\ t # <<>>
      BY <1>1, <2>2
    <3> QED BY <1>2, <3>1
  <2>3. CASE i > Len(s)
    <3>1. /\ (s \o t)[i] = t[i - Len(s)] /\ (s \o t)[i + 1] = t[(i - Len(s)) + 1]
          /\ i - Len(s) \in 1 .. Len(t) - 1
      BY <1>1, <2>3
    <3> QED BY <3>1 DEF WaitsFirst
  <2> QED BY <1>1, <2>1, <2>2, <2>3
<1> QED BY <1>1, <1>3 DEF WaitsFirst

LEMMA SetupCalls == Setup \in Seq(Calls) /\ Setup # <<>> /\ Setup[1] = "whoami" /\ WaitsFirst(Setup)
  BY DEF Setup, Calls, WaitsFirst

LEMMA ReadTempCalls ==
    ReadTemp \in Seq(Calls) /\ ReadTemp # <<>> /\ ReadTemp[1] = "clearOST" /\ WaitsFirst(ReadTemp)
  BY DEF ReadTemp, Calls, WaitsFirst

LEMMA ReadPressureCalls ==
    /\ ReadPressure \in Seq(Calls) /\ Len(ReadPressure) >= 4
    /\ ReadPressure[1] = "clearOST" /\ WaitsFirst(ReadPressure)
<1> DEFINE s == <<"clearOST", "setOST", "waitP", "readP">>
           t == IF firmware = "v2" THEN <<"clearOST", "setOST">> ELSE <<>>
<1>1. s \in Seq(Calls) /\ WaitsFirst(s) /\ Len(s) = 4 /\ s[1] = "clearOST"
  BY DEF Calls, WaitsFirst
<1>2. t \in Seq(Calls) /\ WaitsFirst(t) /\ (t = <<>> \/ t[1] \notin DOMAIN Reads)
  <2>1. CASE firmware = "v2"
    <3>1. t = <<"clearOST", "setOST">>
      BY <2>1
    <3> HIDE DEF t
    <3> QED BY <3>1 DEF Calls, WaitsFirst, Reads
  <2>2. CASE firmware # "v2"
    <3>1. t = <<>>
      BY <2>2
    <3> HIDE DEF t
    <3> QED BY <3>1, EmptySeq DEF WaitsFirst
  <2> QED BY <2>1, <2>2
<1>3. ReadPressure = s \o t
  BY DEF ReadPressure
<1> HIDE DEF s, t
<1>4. s \o t \in Seq(Calls) /\ WaitsFirst(s \o t)
  BY <1>1, <1>2, ConcatCalls
<1>5. Len(s \o t) >= 4 /\ (s \o t)[1] = s[1]
  <2>1. /\ Len(s \o t) = Len(s) + Len(t) /\ Len(t) \in Nat
        /\ \A i \in 1 .. Len(s) + Len(t) :
              (s \o t)[i] = IF i <= Len(s) THEN s[i] ELSE t[i - Len(s)]
    BY <1>1, <1>2, ConcatProperties, LenProperties
  <2> QED BY <1>1, <2>1
<1> QED BY <1>1, <1>3, <1>4, <1>5

LEMMA MeasureCalls ==
    LET calls == ReadPressure \o ReadTemp IN
    calls \in Seq(Calls) /\ calls # <<>> /\ calls[1] = "clearOST" /\ WaitsFirst(calls)
<1> DEFINE s == ReadPressure
           t == ReadTemp
<1> HIDE DEF s, t
<1>1. s \o t \in Seq(Calls) /\ WaitsFirst(s \o t)
  BY ReadPressureCalls, ReadTempCalls, ConcatCalls DEF s, t, Reads
<1>2. Len(s \o t) >= 4 /\ (s \o t)[1] = s[1]
  BY ReadPressureCalls, ReadTempCalls, ConcatProperties, LenProperties DEF s, t
<1>3. s \o t # <<>>
  BY <1>1, <1>2
<1> QED BY <1>1, <1>2, <1>3, ReadPressureCalls DEF s, t

LEMMA CommandCalls ==
    LET calls == Setup \o ReadPressure \o ReadTemp IN
    calls \in Seq(Calls) /\ calls # <<>> /\ calls[1] = "whoami" /\ WaitsFirst(calls)
<1> DEFINE s == Setup
           t == ReadPressure
           u == ReadTemp
<1>1. Len(s) = 5 /\ s[1] = "whoami"
  BY DEF Setup
<1> HIDE DEF s, t, u
<1>2. s \o t \in Seq(Calls) /\ WaitsFirst(s \o t)
  BY SetupCalls, ReadPressureCalls, ConcatCalls DEF s, t, Reads
<1>3. Len(s \o t) >= 5 /\ (s \o t)[1] = s[1]
  BY <1>1, SetupCalls, ReadPressureCalls, ConcatProperties, LenProperties DEF s, t
<1>4. (s \o t) \o u \in Seq(Calls) /\ WaitsFirst((s \o t) \o u)
  BY <1>2, ReadTempCalls, ConcatCalls DEF u, Reads
<1>5. Len((s \o t) \o u) >= 5 /\ ((s \o t) \o u)[1] = s[1]
  BY <1>2, <1>3, ReadTempCalls, ConcatProperties, LenProperties DEF u
<1>6. (s \o t) \o u # <<>>
  BY <1>4, <1>5
<1> QED BY <1>1, <1>4, <1>5, <1>6 DEF s, t, u
----------------------------------------------------------------------------
(* Types.                                                                   *)

\* What a step of a thread may leave it with.
Fits(r) == /\ r \in CallState /\ WaitsFirst(r.todo)
           /\ r.got => r.todo # <<>> /\ Head(r.todo) \in Changes

LEMMA Numbers == /\ POLLS \in Nat /\ SAMPLES \in Nat /\ FAILURES \in Nat /\ COMMANDS \in Nat
                 /\ 0 \in 0 .. POLLS /\ 0 \in 0 .. SAMPLES
                 /\ 0 \in 0 .. FAILURES /\ 0 \in 0 .. COMMANDS
  BY SensorAssumption

LEMMA NoCallFits == Fits(NoCall) /\ NoCall.todo = <<>> /\ NoCall.got = FALSE /\ NoCall.reg = {}
<1>1. <<>> \in Seq(Calls) /\ WaitsFirst(<<>>)
  BY EmptySeq DEF WaitsFirst
<1>2. NoCall \in CallState
  BY <1>1, Numbers DEF CallState, NoCall
<1> QED BY <1>1, <1>2 DEF Fits, NoCall

\* Which data a call waits for, and which it reads.
LEMMA KindOfCall ==
    /\ DOMAIN Reads = {"readP", "readT"} /\ DOMAIN Waits = {"waitP", "waitT"}
    /\ Reads["readP"] = "pressure" /\ Reads["readT"] = "temp"
    /\ Waits["waitP"] = "pressure" /\ Waits["waitT"] = "temp"
  BY DEF Reads, Waits

LEMMA FreshCalls ==
    ASSUME NEW calls \in Seq(Calls), WaitsFirst(calls)
    PROVE  LET r == [NoCall EXCEPT !.todo = calls] IN
           Fits(r) /\ r.todo = calls /\ ~r.got /\ r.reg = {}
<1> DEFINE r == [NoCall EXCEPT !.todo = calls]
<1>1. NoCall \in CallState
  BY NoCallFits DEF Fits
<1>2. r \in CallState /\ r.todo = calls /\ r.got = NoCall.got /\ r.reg = NoCall.reg
  BY <1>1 DEF CallState
<1> QED BY <1>2, NoCallFits DEF Fits

\* One thread's new variables fit: then all do.
LEMMA ThreadUpdate ==
    ASSUME DriverTypes, NEW t \in Thread, NEW r, Fits(r), thread' = [thread EXCEPT ![t] = r]
    PROVE  /\ thread' \in [Thread -> CallState] /\ thread'[t] = r
           /\ \A u \in Thread : u # t => thread'[u] = thread[u] /\ (Call(u))' = Call(u)
           /\ \A u \in Thread : /\ thread'[u].got => (Call(u))' \in Changes
                                /\ WaitsFirst(thread'[u].todo)
<1>1. thread \in [Thread -> CallState]
  BY DEF DriverTypes
<1>2. /\ thread' \in [Thread -> CallState] /\ thread'[t] = r
      /\ \A u \in Thread : u # t => thread'[u] = thread[u]
  BY <1>1 DEF Fits
<1>3. ASSUME NEW u \in Thread
      PROVE  /\ thread'[u].got => (Call(u))' \in Changes
             /\ WaitsFirst(thread'[u].todo)
             /\ u # t => (Call(u))' = Call(u)
  <2>1. CASE u = t
    BY <1>2, <2>1 DEF Fits, Call
  <2>2. CASE u # t
    BY <1>2, <2>2 DEF DriverTypes, Call
  <2> QED BY <2>1, <2>2
<1> QED BY <1>2, <1>3

\* A thread that makes a call, and what comes after it.
LEMMA CallFacts ==
    ASSUME DriverTypes, NEW t \in Thread, Call(t) # "none"
    PROVE  /\ thread[t] \in CallState /\ thread[t].todo \in Seq(Calls)
           /\ thread[t].todo # <<>> /\ Call(t) = Head(thread[t].todo)
           /\ After(t).todo = Tail(thread[t].todo) /\ ~After(t).got
           /\ Fits(After(t)) /\ Fits(GivenUp(t))
           /\ After(t).todo # <<>> /\ Head(After(t).todo) = "readP" => Call(t) = "waitP"
           /\ After(t).todo # <<>> /\ Head(After(t).todo) = "readT" => Call(t) = "waitT"
           /\ GivenUp(t).todo # <<>> => Head(GivenUp(t).todo) = "clearOST"
<1>1. /\ thread[t] \in CallState /\ thread[t].todo \in Seq(Calls)
      /\ thread[t].todo # <<>> /\ Call(t) = Head(thread[t].todo) /\ WaitsFirst(thread[t].todo)
  BY DEF DriverTypes, Call, CallState
<1>2. /\ Tail(thread[t].todo) \in Seq(Calls) /\ WaitsFirst(Tail(thread[t].todo))
      /\ Tail(thread[t].todo) # <<>> /\ Head(Tail(thread[t].todo)) = "readP" => Call(t) = "waitP"
      /\ Tail(thread[t].todo) # <<>> /\ Head(Tail(thread[t].todo)) = "readT" => Call(t) = "waitT"
  BY <1>1, TailOfCalls
<1>3. /\ After(t).todo = Tail(thread[t].todo) /\ ~After(t).got
      /\ Fits(After(t))
  BY <1>2, FreshCalls DEF After
<1>4. Fits(GivenUp(t)) /\ (GivenUp(t).todo # <<>> => Head(GivenUp(t).todo) = "clearOST")
  <2>1. CASE Call(t) \in {"waitP", "readP"}
    <3>1. GivenUp(t) = [NoCall EXCEPT !.todo = ReadTemp]
      BY <2>1 DEF GivenUp
    <3>2. Fits(GivenUp(t)) /\ GivenUp(t).todo = ReadTemp
      BY <3>1, ReadTempCalls, FreshCalls
    <3> QED BY <3>2 DEF ReadTemp
  <2>2. CASE Call(t) \notin {"waitP", "readP"}
    <3>1. GivenUp(t) = [NoCall EXCEPT !.todo = <<>>]
      BY <2>2 DEF GivenUp
    <3>2. GivenUp(t) = NoCall
      BY <3>1 DEF NoCall
    <3> QED BY <3>2, NoCallFits
  <2> QED BY <2>1, <2>2
<1> QED BY <1>1, <1>2, <1>3, <1>4

LEMMA InitTypes == Init => DriverTypes
<1> SUFFICES ASSUME Init PROVE DriverTypes
  OBVIOUS
<1>1. Fits([NoCall EXCEPT !.todo = Setup]) /\ ~[NoCall EXCEPT !.todo = Setup].got
  BY SetupCalls, FreshCalls
<1>2. /\ thread["radio"] = [NoCall EXCEPT !.todo = Setup] /\ thread["shell"] = NoCall
      /\ thread \in [Thread -> CallState]
  BY <1>1, NoCallFits DEF Init, Thread, Fits
<1>3. \A t \in Thread : ~thread[t].got /\ WaitsFirst(thread[t].todo)
  BY <1>1, <1>2, NoCallFits DEF Thread, Fits
<1>4. /\ chip \in [ctrl : SUBSET Bits, events : BOOLEAN, ready : SUBSET Kind, sample : 0 .. SAMPLES]
      /\ sent \in [pressure : 0 .. SAMPLES, temp : 0 .. SAMPLES, twice : BOOLEAN]
      /\ done \in [failures : 0 .. FAILURES, commands : 0 .. COMMANDS]
  BY Numbers DEF Init
<1> QED BY <1>2, <1>3, <1>4 DEF Init, DriverTypes

LEMMA WhoAmITypes ==
    ASSUME DriverTypes, NEW t \in Thread, NEW fails \in BOOLEAN, WhoAmI(t, fails)
    PROVE  \E r : /\ Fits(r) /\ thread' = [thread EXCEPT ![t] = r]
                  /\ ~fails => r = After(t)
                  /\ fails => r = NoCall
                  /\ ~r.got
  BY CallFacts, NoCallFits DEF WhoAmI

LEMMA ReadControlTypes ==
    ASSUME DriverTypes, NEW t \in Thread, NEW fails \in BOOLEAN, ReadControl(t, fails)
    PROVE  \E r : /\ Fits(r) /\ thread' = [thread EXCEPT ![t] = r]
                  /\ r.todo = thread[t].todo /\ r.got
                  /\ ~fails => r.reg = chip.ctrl
<1> DEFINE reg == IF fails THEN Bits ELSE chip.ctrl
           r == [thread[t] EXCEPT !.got = TRUE, !.reg = reg]
<1>1. Call(t) # "none"
  BY DEF ReadControl, Changes
<1>2. thread[t] \in CallState /\ reg \in SUBSET Bits /\ thread \in [Thread -> CallState]
  BY DEF DriverTypes
<1>3. thread[t].todo # <<>> /\ Head(thread[t].todo) \in Changes /\ WaitsFirst(thread[t].todo)
  BY <1>1, CallFacts DEF ReadControl, DriverTypes
<1> HIDE DEF reg
<1>4. r \in CallState /\ r.todo = thread[t].todo /\ r.got /\ r.reg = reg
  BY <1>2 DEF CallState
<1>5. thread' = [thread EXCEPT ![t] = r]
  <2>1. thread' = [thread EXCEPT ![t].got = TRUE, ![t].reg = reg]
    BY DEF ReadControl, reg
  <2> QED BY <1>2, <2>1
<1> HIDE DEF r
<1> QED BY <1>3, <1>4, <1>5 DEF Fits, reg

LEMMA WriteControlTypes ==
    ASSUME DriverTypes, NEW t \in Thread, NEW fails \in BOOLEAN, WriteControl(t, fails)
    PROVE  /\ Call(t) \in Changes \ {"standby"}
           /\ Fits(After(t)) /\ thread' = [thread EXCEPT ![t] = After(t)]
           /\ Changed(Call(t), thread[t].reg) \in SUBSET Bits
<1>1. Call(t) \in Changes /\ Call(t) # "none"
  BY DEF WriteControl, DriverTypes, Changes
<1>2. Call(t) \in Calls /\ thread[t].reg \in SUBSET Bits
  BY <1>1, CallFacts, HeadTailProperties DEF CallState
<1>3. Call(t) # "standby"
  BY <1>2 DEF Calls
<1>4. Changed(Call(t), thread[t].reg) \in SUBSET Bits
  BY <1>1, <1>2 DEF Changed, Changes, Bits
<1> QED BY <1>1, <1>3, <1>4, CallFacts DEF WriteControl

LEMMA EnableEventsTypes ==
    ASSUME DriverTypes, NEW t \in Thread, NEW fails \in BOOLEAN, EnableEvents(t, fails)
    PROVE  Fits(After(t)) /\ thread' = [thread EXCEPT ![t] = After(t)]
  BY CallFacts DEF EnableEvents

LEMMA WaitTypes ==
    ASSUME DriverTypes, NEW t \in Thread, NEW fails \in BOOLEAN, Wait(t, fails)
    PROVE  \E r : /\ Fits(r) /\ thread' = [thread EXCEPT ![t] = r] /\ ~r.got
                  /\ \/ r = After(t) /\ (fails \/ Waits[Call(t)] \in chip.ready)
                     \/ r = GivenUp(t)
                     \/ r.todo = thread[t].todo
<1>1. Call(t) \in {"waitP", "waitT"} /\ Call(t) # "none"
  BY DEF Wait, Waits
<1>2. /\ Fits(After(t)) /\ Fits(GivenUp(t)) /\ thread[t] \in CallState
      /\ thread[t].todo # <<>> /\ ~After(t).got
  BY <1>1, CallFacts
<1>3. ~thread[t].got /\ WaitsFirst(thread[t].todo)
  BY <1>1 DEF DriverTypes, Changes
<1>4. ~GivenUp(t).got
  BY <1>2, ReadTempCalls, FreshCalls, EmptySeq DEF GivenUp, Fits, Changes, CallState, WaitsFirst
<1>5. CASE fails \/ Waits[Call(t)] \in chip.ready
  BY <1>2, <1>5 DEF Wait
<1>6. CASE ~(fails \/ Waits[Call(t)] \in chip.ready) /\ thread[t].polls = POLLS
  <2>1. thread' = [thread EXCEPT ![t] = GivenUp(t)]
    BY <1>6 DEF Wait, DriverTypes
  <2> QED BY <1>2, <1>4, <2>1
<1>7. CASE ~(fails \/ Waits[Call(t)] \in chip.ready) /\ thread[t].polls # POLLS
  <2> DEFINE r == [thread[t] EXCEPT !.polls = thread[t].polls + 1]
  <2>1. thread' = [thread EXCEPT ![t] = r]
    BY <1>7 DEF Wait
  <2>2. thread[t].polls + 1 \in 0 .. POLLS
    BY <1>2, <1>7, Numbers DEF CallState
  <2>3. r \in CallState /\ r.todo = thread[t].todo /\ r.got = thread[t].got
    BY <1>2, <2>2 DEF CallState
  <2> HIDE DEF r
  <2> QED BY <1>3, <2>1, <2>3 DEF Fits
<1> QED BY <1>5, <1>6, <1>7

LEMMA ReadDataTypes ==
    ASSUME DriverTypes, NEW t \in Thread, NEW fails \in BOOLEAN, ReadData(t, fails)
    PROVE  \E r : /\ Fits(r) /\ thread' = [thread EXCEPT ![t] = r]
                  /\ ~fails => r = After(t)
<1>1. Call(t) \in {"readP", "readT"} /\ Call(t) # "none"
  BY DEF ReadData, Reads
<1> QED BY <1>1, CallFacts DEF ReadData

\* Every step of a thread leaves it with variables that fit.
LEMMA ThreadStep ==
    ASSUME DriverTypes, NEW t \in Thread, Transact(t)
    PROVE  \E r : Fits(r) /\ thread' = [thread EXCEPT ![t] = r]
<1> PICK fails \in BOOLEAN :
      \/ WhoAmI(t, fails) \/ ReadControl(t, fails) \/ WriteControl(t, fails)
      \/ EnableEvents(t, fails) \/ Wait(t, fails) \/ ReadData(t, fails)
  BY DEF Transact
<1>1. CASE WhoAmI(t, fails)
  BY <1>1, WhoAmITypes
<1>2. CASE ReadControl(t, fails)
  BY <1>2, ReadControlTypes
<1>3. CASE WriteControl(t, fails)
  BY <1>3, WriteControlTypes
<1>4. CASE EnableEvents(t, fails)
  BY <1>4, EnableEventsTypes
<1>5. CASE Wait(t, fails)
  BY <1>5, WaitTypes
<1>6. CASE ReadData(t, fails)
  BY <1>6, ReadDataTypes
<1> QED BY <1>1, <1>2, <1>3, <1>4, <1>5, <1>6

LEMMA DoneStep ==
    ASSUME DriverTypes, NEW fails \in BOOLEAN, Transaction(fails)
    PROVE  /\ done' \in [failures : 0 .. FAILURES, commands : 0 .. COMMANDS]
           /\ done'.failures = 0 => done.failures = 0 /\ ~fails
<1>1. done \in [failures : 0 .. FAILURES, commands : 0 .. COMMANDS]
  BY DEF DriverTypes
<1>2. CASE fails
  <2>1. done.failures < FAILURES /\ done' = [done EXCEPT !.failures = done.failures + 1]
    BY <1>1, <1>2 DEF Transaction
  <2>2. done.failures + 1 \in 0 .. FAILURES /\ done.failures + 1 # 0
    BY <1>1, <2>1, Numbers
  <2> QED BY <1>1, <2>1, <2>2
<1>3. CASE ~fails
  BY <1>1, <1>3 DEF Transaction
<1> QED BY <1>2, <1>3

LEMMA TransactTypes ==
    ASSUME DriverTypes, NEW t \in Thread, Transact(t), UNCHANGED firmware
    PROVE  DriverTypes'
<1> PICK fails \in BOOLEAN :
      \/ WhoAmI(t, fails) \/ ReadControl(t, fails) \/ WriteControl(t, fails)
      \/ EnableEvents(t, fails) \/ Wait(t, fails) \/ ReadData(t, fails)
  BY DEF Transact
<1> DEFINE Chips == [ctrl : SUBSET Bits, events : BOOLEAN, ready : SUBSET Kind, sample : 0 .. SAMPLES]
           Sents == [pressure : 0 .. SAMPLES, temp : 0 .. SAMPLES, twice : BOOLEAN]
<1>1. /\ thread' \in [Thread -> CallState]
      /\ \A u \in Thread : /\ thread'[u].got => (Call(u))' \in Changes
                           /\ WaitsFirst(thread'[u].todo)
  BY ThreadStep, ThreadUpdate
<1>2. done' \in [failures : 0 .. FAILURES, commands : 0 .. COMMANDS]
  BY DoneStep DEF WhoAmI, ReadControl, WriteControl, EnableEvents, Wait, ReadData
<1>3. chip \in Chips /\ sent \in Sents
  BY DEF DriverTypes
<1>4. chip' \in Chips
  <2>1. CASE WriteControl(t, fails)
    <3>1. Changed(Call(t), thread[t].reg) \in SUBSET Bits
      BY <2>1, WriteControlTypes
    <3> QED BY <1>3, <2>1, <3>1 DEF WriteControl
  <2>2. CASE EnableEvents(t, fails)
    BY <1>3, <2>2 DEF EnableEvents
  <2>3. CASE ReadData(t, fails)
    BY <1>3, <2>3 DEF ReadData
  <2> QED BY <1>3, <2>1, <2>2, <2>3 DEF WhoAmI, ReadControl, Wait
<1>5. sent' \in Sents
  <2>1. CASE ReadData(t, fails)
    <3>1. Reads[Call(t)] \in {"pressure", "temp"}
      BY <2>1, KindOfCall DEF ReadData
    <3>2. chip.sample \in 0 .. SAMPLES
      BY <1>3
    <3>3. (sent.twice \/ sent[Reads[Call(t)]] = chip.sample) \in BOOLEAN
      OBVIOUS
    <3> QED BY <1>3, <2>1, <3>1, <3>2, <3>3 DEF ReadData
  <2> QED BY <1>3, <2>1 DEF WhoAmI, ReadControl, WriteControl, EnableEvents, Wait
<1>6. present' \in {"unset", "yes", "no"}
  BY DEF WhoAmI, ReadControl, WriteControl, EnableEvents, Wait, ReadData, Finds, DriverTypes
<1> QED BY <1>1, <1>2, <1>4, <1>5, <1>6 DEF DriverTypes

LEMMA NextRoundTypes ==
    ASSUME DriverTypes, NextRound
    PROVE  /\ thread["radio"].todo = <<>>
           /\ \E r : /\ Fits(r) /\ thread' = [thread EXCEPT !["radio"] = r] /\ ~r.got
                    /\ r.todo # <<>> /\ Head(r.todo) = "clearOST"
<1> DEFINE calls == ReadPressure \o ReadTemp
           r == [thread["radio"] EXCEPT !.todo = calls]
<1>1. calls \in Seq(Calls) /\ calls # <<>> /\ Head(calls) = "clearOST" /\ WaitsFirst(calls)
  BY MeasureCalls
<1>2. thread["radio"] \in CallState /\ thread["radio"].todo = <<>> /\ ~thread["radio"].got
  BY DEF DriverTypes, Thread, NextRound, Call, Changes
<1>3. thread' = [thread EXCEPT !["radio"] = r]
  BY DEF NextRound, DriverTypes
<1> HIDE DEF calls
<1>4. r \in CallState /\ r.todo = calls /\ r.got = thread["radio"].got
  BY <1>1, <1>2 DEF CallState
<1> HIDE DEF r
<1> QED BY <1>1, <1>2, <1>3, <1>4 DEF Fits

LEMMA CommandTypes ==
    ASSUME DriverTypes, Command
    PROVE  /\ \E r : Fits(r) /\ thread' = [thread EXCEPT !["shell"] = r] /\ ~r.got
           /\ done' \in [failures : 0 .. FAILURES, commands : 0 .. COMMANDS]
           /\ done'.failures = done.failures
<1> DEFINE calls == Setup \o ReadPressure \o ReadTemp
           r == [thread["shell"] EXCEPT !.todo = calls]
<1>1. calls \in Seq(Calls) /\ WaitsFirst(calls)
  BY CommandCalls
<1>2. thread["shell"] \in CallState /\ ~thread["shell"].got
  BY DEF DriverTypes, Thread, Command, Call, Changes
<1>3. thread' = [thread EXCEPT !["shell"] = r]
  BY DEF Command, DriverTypes
<1> HIDE DEF calls
<1>4. r \in CallState /\ r.todo = calls /\ r.got = thread["shell"].got
  BY <1>1, <1>2 DEF CallState
<1>5. /\ done' \in [failures : 0 .. FAILURES, commands : 0 .. COMMANDS]
      /\ done'.failures = done.failures
  BY Numbers DEF Command, DriverTypes
<1> HIDE DEF r
<1> QED BY <1>1, <1>2, <1>3, <1>4, <1>5 DEF Fits

LEMMA SampleTypes ==
    ASSUME DriverTypes, Sample
    PROVE  /\ chip' \in [ctrl : SUBSET Bits, events : BOOLEAN, ready : SUBSET Kind,
                         sample : 0 .. SAMPLES]
           /\ chip'.ctrl = chip.ctrl /\ chip'.sample = chip.sample + 1
<1>1. chip \in [ctrl : SUBSET Bits, events : BOOLEAN, ready : SUBSET Kind, sample : 0 .. SAMPLES]
  BY DEF DriverTypes
<1>2. chip.sample + 1 \in 0 .. SAMPLES /\ Kind \in SUBSET Kind
  BY <1>1, Numbers DEF Sample
<1>3. (IF chip.events THEN Kind ELSE chip.ready) \in SUBSET Kind
  BY <1>1
<1>4. chip' = [chip EXCEPT !.sample = chip.sample + 1,
                           !.ready = IF chip.events THEN Kind ELSE chip.ready]
  BY <1>1 DEF Sample
<1> QED BY <1>1, <1>2, <1>3, <1>4

LEMMA StepTypes == DriverTypes /\ [Next]_vars => DriverTypes'
<1> SUFFICES ASSUME DriverTypes, [Next]_vars PROVE DriverTypes'
  OBVIOUS
<1>1. CASE UNCHANGED vars
  BY <1>1 DEF vars, DriverTypes, Call
<1>2. ASSUME NEW t \in Thread, Transact(t), UNCHANGED firmware PROVE DriverTypes'
  BY <1>2, TransactTypes
<1>3. CASE NextRound /\ UNCHANGED firmware
  <2>1. /\ thread' \in [Thread -> CallState]
        /\ \A u \in Thread : /\ thread'[u].got => (Call(u))' \in Changes
                             /\ WaitsFirst(thread'[u].todo)
    BY <1>3, NextRoundTypes, ThreadUpdate DEF Thread
  <2> QED BY <1>3, <2>1 DEF NextRound, DriverTypes
<1>4. CASE Command /\ UNCHANGED firmware
  <2>1. /\ thread' \in [Thread -> CallState]
        /\ \A u \in Thread : /\ thread'[u].got => (Call(u))' \in Changes
                             /\ WaitsFirst(thread'[u].todo)
    BY <1>4, CommandTypes, ThreadUpdate DEF Thread
  <2> QED BY <1>4, <2>1, CommandTypes DEF Command, DriverTypes
<1>5. CASE Sample /\ UNCHANGED firmware
  BY <1>5, SampleTypes DEF Sample, DriverTypes, Call
<1> QED BY <1>1, <1>2, <1>3, <1>4, <1>5 DEF Next

LEMMA TypesInvariant == Spec => []DriverTypes
  BY InitTypes, StepTypes, PTL DEF Spec

\* The pressure sensor's driver keeps its variables in their types; no read
\* of STATUS is counted beyond the limit.
THEOREM SensorTypeCorrect == Spec => []SensorTypeOK
<1>1. DriverTypes => SensorTypeOK
  BY DEF DriverTypes, SensorTypeOK, CallState
<1> QED BY <1>1, TypesInvariant, PTL

----------------------------------------------------------------------------
(* The mode of the sensor.                                                  *)

\* Whatever a call but "standby" makes of a mode after setup is one again.
LEMMA ChangedSetUp ==
    ASSUME NEW call \in Changes \ {"standby"}, NEW reg, SetUp(reg)
    PROVE  SetUp(Changed(call, reg))
  BY DEF Changes, Changed, SetUp

\* Setup, call by call.
LEMMA SetupProgress ==
    ASSUME DriverTypes, Progress(chip.ctrl), Call("radio") \in Changes,
           NEW reg, reg = chip.ctrl
    PROVE  LET calls == Tail(thread["radio"].todo) IN
           \/ calls = <<"barometer", "oversample", "events">> /\ Changed(Call("radio"), reg) = {"SBYB"}
           \/ calls = <<"oversample", "events">> /\ Changed(Call("radio"), reg) = {"SBYB"}
           \/ calls = <<"events">> /\ Changed(Call("radio"), reg) = {"SBYB", "OS"}
<1> DEFINE calls == thread["radio"].todo
<1>1. CASE calls = <<"whoami", "active", "barometer", "oversample", "events">>
  BY <1>1 DEF Call, Changes
<1>2. CASE calls = <<"active", "barometer", "oversample", "events">> /\ chip.ctrl = {}
  BY <1>2 DEF Call, Changed
<1>3. CASE calls = <<"barometer", "oversample", "events">> /\ chip.ctrl = {"SBYB"}
  BY <1>3 DEF Call, Changed
<1>4. CASE calls = <<"oversample", "events">> /\ chip.ctrl = {"SBYB"}
  BY <1>4 DEF Call, Changed
<1>5. CASE calls = <<"events">>
  BY <1>5 DEF Call, Changes
<1> QED BY <1>1, <1>2, <1>3, <1>4, <1>5 DEF Progress

\* A step of the radio thread in setup, which the shell waits for.
LEMMA SetupStep ==
    ASSUME DriverTypes, ModeInv, done.failures = 0, present = "unset",
           NEW t \in Thread,
           \/ WhoAmI(t, FALSE) \/ ReadControl(t, FALSE) \/ WriteControl(t, FALSE)
           \/ EnableEvents(t, FALSE) \/ Wait(t, FALSE) \/ ReadData(t, FALSE)
    PROVE  ModeInv'
<1>1. /\ thread["shell"] = NoCall /\ Progress(chip.ctrl)
      /\ thread["radio"].got => thread["radio"].reg = chip.ctrl
  BY DEF ModeInv
<1>2. t = "radio"
  <2>1. CASE t = "shell"
    <3>1. Call(t) = "none" /\ ~thread[t].got
      BY <1>1, <2>1 DEF NoCall, Call
    <3> QED BY <3>1, KindOfCall DEF WhoAmI, ReadControl, WriteControl, EnableEvents, Wait,
                                    ReadData, Changes
  <2> QED BY <2>1 DEF Thread
<1>3. Call("radio") \in {"whoami", "events"} \cup Changes
  BY <1>1 DEF Progress, Call, Changes
<1>4. ASSUME NEW r, Fits(r), thread' = [thread EXCEPT !["radio"] = r]
      PROVE  thread'["shell"] = NoCall /\ thread'["radio"] = r
  BY <1>1, <1>4, ThreadUpdate DEF Thread
<1>5. CASE WhoAmI("radio", FALSE)
  <2>1. PICK r : Fits(r) /\ thread' = [thread EXCEPT !["radio"] = r] /\ r = After("radio")
    BY <1>5, WhoAmITypes DEF Thread
  <2>2. thread["radio"].todo = <<"whoami", "active", "barometer", "oversample", "events">> /\ chip.ctrl = {}
    BY <1>1, <1>5 DEF WhoAmI, Call, Progress
  <2>3. /\ thread'["radio"].todo = <<"active", "barometer", "oversample", "events">>
        /\ ~thread'["radio"].got
    <3>1. Call("radio") # "none"
      BY <1>5 DEF WhoAmI
    <3>2. After("radio").todo = Tail(thread["radio"].todo) /\ ~After("radio").got
      BY <3>1, CallFacts DEF Thread
    <3>3. Tail(thread["radio"].todo) = <<"active", "barometer", "oversample", "events">>
      BY <2>2
    <3> QED BY <1>4, <2>1, <3>2, <3>3
  <2> QED BY <1>4, <1>5, <2>1, <2>2, <2>3 DEF ModeInv, Progress, WhoAmI
<1>6. CASE ReadControl("radio", FALSE)
  <2>1. PICK r : /\ Fits(r) /\ thread' = [thread EXCEPT !["radio"] = r]
                 /\ r.todo = thread["radio"].todo /\ r.reg = chip.ctrl
    BY <1>6, ReadControlTypes DEF Thread
  <2> QED BY <1>1, <1>4, <1>6, <2>1 DEF ModeInv, Progress, ReadControl
<1>7. CASE WriteControl("radio", FALSE)
  <2>1. /\ Call("radio") \in Changes /\ Call("radio") # "none"
        /\ Fits(After("radio")) /\ thread' = [thread EXCEPT !["radio"] = After("radio")]
    BY <1>7, WriteControlTypes DEF Thread, Changes
  <2>2. thread["radio"].reg = chip.ctrl
    BY <1>1, <1>7 DEF WriteControl
  <2>3. /\ thread'["radio"].todo = Tail(thread["radio"].todo) /\ ~thread'["radio"].got
        /\ thread'["shell"] = NoCall
    BY <1>4, <2>1, CallFacts DEF Thread
  <2>4. chip'.ctrl = Changed(Call("radio"), thread["radio"].reg)
    BY <1>7 DEF WriteControl, DriverTypes
  <2>5. Progress(chip.ctrl)'
    BY <1>1, <2>1, <2>2, <2>3, <2>4, SetupProgress DEF Progress
  <2> QED BY <1>7, <2>3, <2>5 DEF ModeInv, WriteControl
<1>8. CASE EnableEvents("radio", FALSE)
  <2>1. thread["radio"].todo = <<"events">> /\ chip.ctrl = {"SBYB", "OS"}
    BY <1>1, <1>8 DEF EnableEvents, Call, Progress
  <2>2. chip'.ctrl = chip.ctrl /\ present' # "unset"
    BY <1>8 DEF EnableEvents, Finds, DriverTypes
  <2>3. ~thread'["radio"].got /\ ~thread'["shell"].got
    <3>1. Call("radio") # "none"
      BY <1>8 DEF EnableEvents
    <3> QED BY <1>4, <1>8, <3>1, EnableEventsTypes, CallFacts, NoCallFits DEF Thread
  <2> QED BY <2>1, <2>2, <2>3 DEF ModeInv, SetUp, Thread
<1> QED BY <1>2, <1>3, <1>5, <1>6, <1>7, <1>8, KindOfCall DEF Wait, ReadData, Changes

\* A step of either thread after setup, the two in any order.
LEMMA ModeTransact ==
    ASSUME DriverTypes, ModeInv, done.failures = 0, present # "unset",
           NEW t \in Thread,
           \/ WhoAmI(t, FALSE) \/ ReadControl(t, FALSE) \/ WriteControl(t, FALSE)
           \/ EnableEvents(t, FALSE) \/ Wait(t, FALSE) \/ ReadData(t, FALSE)
    PROVE  ModeInv'
<1>1. SetUp(chip.ctrl) /\ \A u \in Thread : thread[u].got => SetUp(thread[u].reg)
  BY DEF ModeInv
<1>2. present' # "unset"
  BY DEF WhoAmI, ReadControl, WriteControl, EnableEvents, Wait, ReadData, Finds
<1>3. SetUp(chip'.ctrl)
  <2>1. CASE WriteControl(t, FALSE)
    <3>1. Call(t) \in Changes \ {"standby"} /\ SetUp(thread[t].reg)
      BY <1>1, <2>1, WriteControlTypes DEF WriteControl
    <3>2. chip'.ctrl = Changed(Call(t), thread[t].reg)
      BY <2>1 DEF WriteControl, DriverTypes
    <3> QED BY <3>1, <3>2, ChangedSetUp
  <2> QED BY <1>1, <2>1 DEF WhoAmI, ReadControl, EnableEvents, Wait, ReadData, DriverTypes
<1>4. PICK r : /\ Fits(r) /\ thread' = [thread EXCEPT ![t] = r]
               /\ r.got => SetUp(r.reg)
  <2>1. CASE WhoAmI(t, FALSE)
    BY <2>1, WhoAmITypes
  <2>2. CASE ReadControl(t, FALSE)
    BY <1>1, <2>2, ReadControlTypes
  <2>3. CASE WriteControl(t, FALSE)
    <3>1. ~After(t).got
      BY <2>3, WriteControlTypes, CallFacts DEF Changes
    <3> QED BY <2>3, <3>1, WriteControlTypes
  <2>4. CASE EnableEvents(t, FALSE)
    <3>1. ~After(t).got
      BY <2>4, CallFacts DEF EnableEvents
    <3> QED BY <2>4, <3>1, EnableEventsTypes
  <2>5. CASE Wait(t, FALSE)
    BY <2>5, WaitTypes
  <2>6. CASE ReadData(t, FALSE)
    <3>1. ~After(t).got
      BY <2>6, KindOfCall, CallFacts DEF ReadData
    <3> QED BY <2>6, <3>1, ReadDataTypes
  <2> QED BY <2>1, <2>2, <2>3, <2>4, <2>5, <2>6
<1>5. \A u \in Thread : thread'[u].got => SetUp(thread'[u].reg)
  BY <1>1, <1>4, ThreadUpdate
<1> QED BY <1>2, <1>3, <1>5 DEF ModeInv

LEMMA ModeStep == DriverTypes /\ ModeInv /\ [Next]_vars => ModeInv'
<1> SUFFICES ASSUME DriverTypes, ModeInv, [Next]_vars PROVE ModeInv'
  OBVIOUS
<1>1. CASE UNCHANGED vars
  BY <1>1 DEF vars, ModeInv, Progress
<1>2. ASSUME NEW t \in Thread, Transact(t) PROVE ModeInv'
  <2> SUFFICES ASSUME done'.failures = 0 PROVE ModeInv'
    BY DEF ModeInv
  <2> PICK fails \in BOOLEAN :
        \/ WhoAmI(t, fails) \/ ReadControl(t, fails) \/ WriteControl(t, fails)
        \/ EnableEvents(t, fails) \/ Wait(t, fails) \/ ReadData(t, fails)
    BY <1>2 DEF Transact
  <2>1. done.failures = 0 /\ fails = FALSE
    BY DoneStep DEF WhoAmI, ReadControl, WriteControl, EnableEvents, Wait, ReadData
  <2> QED BY <2>1, SetupStep, ModeTransact
<1>3. CASE NextRound
  <2>1. PICK r : Fits(r) /\ thread' = [thread EXCEPT !["radio"] = r] /\ ~r.got
    BY <1>3, NextRoundTypes
  <2>2. \A u \in Thread : thread'[u].got => u # "radio" /\ thread'[u] = thread[u]
    BY <2>1, ThreadUpdate DEF Thread
  <2> QED BY <1>3, <2>2 DEF NextRound, ModeInv
<1>4. CASE Command
  <2>1. PICK r : Fits(r) /\ thread' = [thread EXCEPT !["shell"] = r] /\ ~r.got
    BY <1>4, CommandTypes
  <2>2. \A u \in Thread : thread'[u].got => u # "shell" /\ thread'[u] = thread[u]
    BY <2>1, ThreadUpdate DEF Thread
  <2> QED BY <1>4, <2>2, CommandTypes DEF Command, ModeInv
<1>5. CASE Sample
  BY <1>5, SampleTypes DEF Sample, ModeInv, Progress
<1> QED BY <1>1, <1>2, <1>3, <1>4, <1>5 DEF Next

LEMMA InitMode == Init => ModeInv
<1> SUFFICES ASSUME Init PROVE ModeInv
  OBVIOUS
<1>1. thread["radio"].todo = Setup /\ ~thread["radio"].got /\ thread["shell"] = NoCall
  BY SetupCalls, FreshCalls DEF Init
<1> QED BY <1>1 DEF Init, ModeInv, Progress, Setup

\* However the radio thread and the shell interleave their reads and writes of
\* CTRL_REG1, for any number of commands, the sensor stays in the mode that
\* setup put it in.
THEOREM ModeIsKept == Spec => []ModeStays
<1>1. DriverTypes /\ ModeInv => ModeStays
  BY DEF ModeInv, ModeStays, SetUp
<1> QED BY <1>1, InitTypes, StepTypes, InitMode, ModeStep, PTL DEF Spec

----------------------------------------------------------------------------
(* The samples that are sent.                                               *)

\* Which kind of data each of the two facts of SampleInv is about.
Unread(kind, read) ==
    kind \in chip.ready \/ Call("radio") = read => sent[kind] < chip.sample

LEMMA SampleInvByKind ==
    SampleInv <=> /\ sent["pressure"] <= chip.sample /\ sent["temp"] <= chip.sample
                  /\ done.failures = 0 =>
                        /\ Unread("pressure", "readP") /\ Unread("temp", "readT")
                        /\ ~sent.twice
  BY DEF SampleInv, Unread

\* A step of the radio thread: it comes to a read only from a wait that saw
\* the data ready.
LEMMA ReadsWhatIsReady ==
    ASSUME DriverTypes, NEW t \in Thread, NEW fails \in BOOLEAN, ~fails,
           \/ WhoAmI(t, fails) \/ ReadControl(t, fails) \/ WriteControl(t, fails)
           \/ EnableEvents(t, fails) \/ Wait(t, fails) \/ ReadData(t, fails)
    PROVE  /\ Call("radio")' = "readP" => Call("radio") = "readP" \/ "pressure" \in chip.ready
           /\ Call("radio")' = "readT" => Call("radio") = "readT" \/ "temp" \in chip.ready
           /\ ReadData(t, fails) /\ t = "radio" =>
                 Call("radio")' # "readP" /\ Call("radio")' # "readT"
<1>1. CASE t # "radio"
  <2>1. PICK r : Fits(r) /\ thread' = [thread EXCEPT ![t] = r]
    BY ThreadStep DEF Transact
  <2>2. Call("radio")' = Call("radio")
    BY <1>1, <2>1, ThreadUpdate DEF Thread
  <2> QED BY <1>1, <2>2
<1>2. CASE t = "radio"
  <2>1. ASSUME Fits(After(t)), thread' = [thread EXCEPT ![t] = After(t)], Call(t) # "none"
        PROVE  /\ Call("radio")' = "readP" => Call(t) = "waitP"
               /\ Call("radio")' = "readT" => Call(t) = "waitT"
    <3>1. thread'["radio"] = After(t)
      BY <1>2, <2>1, ThreadUpdate
    <3> QED BY <1>2, <2>1, <3>1, CallFacts DEF Call
  <2>2. CASE WhoAmI(t, fails)
    BY <1>2, <2>1, <2>2, CallFacts, WhoAmITypes DEF WhoAmI
  <2>3. CASE ReadControl(t, fails)
    <3>1. PICK r : /\ Fits(r) /\ thread' = [thread EXCEPT ![t] = r] /\ r.todo = thread[t].todo
      BY <2>3, ReadControlTypes
    <3>2. Call("radio")' = Call("radio")
      BY <1>2, <3>1, ThreadUpdate DEF Call
    <3> QED BY <1>2, <2>3, <3>2, KindOfCall DEF ReadControl, ReadData, Changes
  <2>4. CASE WriteControl(t, fails)
    BY <1>2, <2>1, <2>4, WriteControlTypes, KindOfCall DEF Changes, ReadData
  <2>5. CASE EnableEvents(t, fails)
    BY <1>2, <2>1, <2>5, EnableEventsTypes, KindOfCall, CallFacts DEF EnableEvents, ReadData
  <2>6. CASE Wait(t, fails)
    <3>1. /\ Call(t) \in {"waitP", "waitT"} /\ Call(t) # "none"
          /\ Call(t) = "waitP" => Waits[Call(t)] = "pressure"
          /\ Call(t) = "waitT" => Waits[Call(t)] = "temp"
      BY <2>6, KindOfCall DEF Wait
    <3>2. PICK r : /\ Fits(r) /\ thread' = [thread EXCEPT ![t] = r]
                   /\ \/ r = After(t) /\ Waits[Call(t)] \in chip.ready
                      \/ r = GivenUp(t)
                      \/ r.todo = thread[t].todo
      BY <2>6, WaitTypes
    <3>3. CASE r = After(t) /\ Waits[Call(t)] \in chip.ready
      BY <1>2, <2>1, <2>6, <3>1, <3>2, <3>3, KindOfCall DEF ReadData
    <3>4. CASE r = GivenUp(t)
      <4>1. Call("radio")' \in {"none", "clearOST"}
        BY <1>2, <3>1, <3>2, <3>4, ThreadUpdate, CallFacts DEF Call
      <4> QED BY <4>1
    <3>5. CASE r.todo = thread[t].todo
      <4>1. Call("radio")' = Call(t)
        BY <1>2, <3>2, <3>5, ThreadUpdate DEF Call
      <4> QED BY <3>1, <4>1
    <3> QED BY <3>2, <3>3, <3>4, <3>5
  <2>7. CASE ReadData(t, fails)
    <3>1. Call(t) \in {"readP", "readT"}
      BY <2>7, KindOfCall DEF ReadData
    <3>2. /\ Call("radio")' = "readP" => Call(t) = "waitP"
          /\ Call("radio")' = "readT" => Call(t) = "waitT"
      BY <2>1, <2>7, <3>1, CallFacts, ReadDataTypes
    <3> QED BY <3>1, <3>2
  <2> QED BY <2>2, <2>3, <2>4, <2>5, <2>6, <2>7
<1> QED BY <1>1, <1>2

\* The data of a kind, as long as the radio thread does not read it now.
LEMMA UnreadKept ==
    ASSUME DriverTypes, NEW kind \in {"pressure", "temp"}, NEW read,
           Unread(kind, read), sent'[kind] = sent[kind],
           \/ chip'.sample = chip.sample /\ chip'.ready \subseteq chip.ready
           \/ chip'.sample = chip.sample + 1 /\ sent[kind] <= chip.sample,
           Call("radio")' = read => Call("radio") = read \/ kind \in chip.ready
    PROVE  Unread(kind, read)'
<1>1. chip.sample \in Nat /\ sent[kind] \in Nat
  BY Numbers DEF DriverTypes
<1> QED BY <1>1 DEF Unread

\* The sensor takes its samples by itself.
LEMMA TransactionTakesNoSample ==
    ASSUME DriverTypes, NEW t \in Thread, NEW fails \in BOOLEAN,
           \/ WhoAmI(t, fails) \/ ReadControl(t, fails) \/ WriteControl(t, fails)
           \/ EnableEvents(t, fails) \/ Wait(t, fails) \/ ReadData(t, fails)
    PROVE  chip'.sample = chip.sample /\ chip'.ready \subseteq chip.ready
<1>1. chip \in [ctrl : SUBSET Bits, events : BOOLEAN, ready : SUBSET Kind, sample : 0 .. SAMPLES]
  BY DEF DriverTypes
<1>2. CASE WriteControl(t, fails)
  BY <1>1, <1>2 DEF WriteControl
<1>3. CASE EnableEvents(t, fails)
  BY <1>1, <1>3 DEF EnableEvents
<1>4. CASE ReadData(t, fails)
  BY <1>1, <1>4 DEF ReadData
<1>5. CASE UNCHANGED chip
  BY <1>5
<1> QED BY <1>2, <1>3, <1>4, <1>5 DEF WhoAmI, ReadControl, Wait

\* No step but the radio thread's own read touches what it has sent.
LEMMA SampleTransact ==
    ASSUME DriverTypes, SampleInv, done.failures = 0,
           NEW t \in Thread, NEW fails \in BOOLEAN, ~fails,
           \/ WhoAmI(t, fails) \/ ReadControl(t, fails) \/ WriteControl(t, fails)
           \/ EnableEvents(t, fails) \/ Wait(t, fails) \/ ReadData(t, fails)
    PROVE  SampleInv'
<1>1. /\ Call("radio")' = "readP" => Call("radio") = "readP" \/ "pressure" \in chip.ready
      /\ Call("radio")' = "readT" => Call("radio") = "readT" \/ "temp" \in chip.ready
      /\ ReadData(t, fails) /\ t = "radio" =>
            Call("radio")' # "readP" /\ Call("radio")' # "readT"
  BY ReadsWhatIsReady
<1>2. /\ sent["pressure"] <= chip.sample /\ sent["temp"] <= chip.sample
      /\ Unread("pressure", "readP") /\ Unread("temp", "readT") /\ ~sent.twice
  BY SampleInvByKind
<1>3. chip'.sample = chip.sample /\ chip'.ready \subseteq chip.ready
  BY TransactionTakesNoSample
<1>4. chip.sample \in Nat /\ sent["pressure"] \in Nat /\ sent["temp"] \in Nat
  BY Numbers DEF DriverTypes
<1>5. CASE ~(ReadData(t, fails) /\ t = "radio")
  <2>1. sent' = sent
    BY <1>5 DEF WhoAmI, ReadControl, WriteControl, EnableEvents, Wait, ReadData, Thread
  <2>2. Unread("pressure", "readP")' /\ Unread("temp", "readT")'
    BY <1>1, <1>2, <1>3, <2>1, UnreadKept
  <2> QED BY <1>2, <1>3, <2>1, <2>2 DEF SampleInv, Unread
<1>6. CASE ReadData(t, fails) /\ t = "radio"
  <2> DEFINE kind == Reads[Call("radio")]
  <2>1. /\ kind \in {"pressure", "temp"}
        /\ kind = "pressure" => Call("radio") = "readP"
        /\ kind = "temp" => Call("radio") = "readT"
    BY <1>6, KindOfCall DEF ReadData
  <2>2. sent[kind] < chip.sample
    BY <1>2, <2>1 DEF Unread
  <2>3. /\ chip' = [chip EXCEPT !.ready = chip.ready \ {kind}]
        /\ sent' = [sent EXCEPT ![kind] = chip.sample,
                               !.twice = sent.twice \/ sent[kind] = chip.sample]
    BY <1>6 DEF ReadData, DriverTypes
  <2> HIDE DEF kind
  <2>4. /\ kind \notin chip'.ready
        /\ sent'[kind] = chip.sample
        /\ \A other \in {"pressure", "temp"} \ {kind} : sent'[other] = sent[other]
        /\ sent'.twice = (sent.twice \/ sent[kind] = chip.sample)
    BY <2>1, <2>3 DEF DriverTypes
  <2>5. ~sent'.twice
    BY <1>2, <1>4, <2>1, <2>2, <2>4
  <2>6. /\ "pressure" \in chip'.ready => sent'["pressure"] < chip'.sample
        /\ "temp" \in chip'.ready => sent'["temp"] < chip'.sample
    BY <1>2, <1>3, <2>1, <2>4 DEF Unread
  <2>7. sent'["pressure"] <= chip'.sample /\ sent'["temp"] <= chip'.sample
    BY <1>2, <1>3, <1>4, <2>1, <2>4
  <2> QED BY <1>1, <1>6, <2>5, <2>6, <2>7 DEF SampleInv
<1> QED BY <1>5, <1>6

LEMMA SampleStep == DriverTypes /\ SampleInv /\ [Next]_vars => SampleInv'
<1> SUFFICES ASSUME DriverTypes, SampleInv, [Next]_vars PROVE SampleInv'
  OBVIOUS
<1>1. CASE UNCHANGED vars
  BY <1>1 DEF vars, SampleInv, Call
<1>2. ASSUME NEW t \in Thread, Transact(t) PROVE SampleInv'
  <2> PICK fails \in BOOLEAN :
        \/ WhoAmI(t, fails) \/ ReadControl(t, fails) \/ WriteControl(t, fails)
        \/ EnableEvents(t, fails) \/ Wait(t, fails) \/ ReadData(t, fails)
    BY <1>2 DEF Transact
  <2>1. CASE done'.failures = 0
    <3>1. done.failures = 0 /\ ~fails
      BY <2>1, DoneStep DEF WhoAmI, ReadControl, WriteControl, EnableEvents, Wait, ReadData
    <3> QED BY <3>1, SampleTransact
  <2>2. CASE done'.failures # 0
    <3>1. chip'.sample = chip.sample /\ chip.sample \in Nat
      BY TransactionTakesNoSample, Numbers DEF DriverTypes
    <3>2. sent'.pressure \in {sent.pressure, chip.sample} /\ sent'.temp \in {sent.temp, chip.sample}
      <4>1. CASE ReadData(t, fails)
        <5>1. Reads[Call(t)] \in {"pressure", "temp"}
          BY <4>1, KindOfCall DEF ReadData
        <5> QED BY <4>1, <5>1 DEF ReadData, DriverTypes
      <4> QED BY <4>1 DEF WhoAmI, ReadControl, WriteControl, EnableEvents, Wait
    <3> QED BY <2>2, <3>1, <3>2 DEF SampleInv
  <2> QED BY <2>1, <2>2
<1>3. CASE NextRound
  <2>1. PICK r : /\ Fits(r) /\ thread' = [thread EXCEPT !["radio"] = r]
                 /\ r.todo # <<>> /\ Head(r.todo) = "clearOST"
    BY <1>3, NextRoundTypes
  <2>2. Call("radio")' = "clearOST"
    BY <2>1, ThreadUpdate DEF Thread, Call
  <2> QED BY <1>3, <2>2 DEF NextRound, SampleInv
<1>4. CASE Command
  <2>1. PICK r : Fits(r) /\ thread' = [thread EXCEPT !["shell"] = r] /\ ~r.got
    BY <1>4, CommandTypes
  <2>2. Call("radio")' = Call("radio")
    BY <2>1, ThreadUpdate DEF Thread
  <2> QED BY <1>4, <2>2, CommandTypes DEF Command, SampleInv
<1>5. CASE Sample
  <2>1. chip'.sample = chip.sample + 1 /\ UNCHANGED <<sent, done, thread>>
    BY <1>5, SampleTypes DEF Sample
  <2>2. chip.sample \in Nat /\ sent.pressure \in Nat /\ sent.temp \in Nat
    BY Numbers DEF DriverTypes
  <2> QED BY <2>1, <2>2 DEF SampleInv
<1> QED BY <1>1, <1>2, <1>3, <1>4, <1>5 DEF Next

LEMMA InitSample == Init => SampleInv
<1> SUFFICES ASSUME Init PROVE SampleInv
  OBVIOUS
<1>1. Call("radio") = "whoami"
  <2>1. thread["radio"].todo = Setup
    BY SetupCalls, FreshCalls DEF Init
  <2> QED BY <2>1 DEF Call, Setup
<1> QED BY <1>1 DEF Init, SampleInv

\* The radio thread never sends one sample twice, whatever the shell reads
\* between its STATUS and its read of the data.
THEOREM SamplesAreSentOnce == Spec => []EverySampleOnce
<1>1. SampleInv => EverySampleOnce
  BY DEF SampleInv, EverySampleOnce
<1> QED BY <1>1, InitTypes, StepTypes, InitSample, SampleStep, PTL DEF Spec

----------------------------------------------------------------------------
(* All drivers of a board.                                                  *)

\* The round with the DHT22 in it is a behaviour of the pressure sensor's
\* driver: what is proved of the one holds in the other.
THEOREM DriversImplementSensor == DriversSpec => Spec
<1>1. DriversInit => Init
  BY DEF DriversInit
<1>2. [DriversNext]_driverVars => [Next]_vars
  BY DEF DriversNext, driverVars, ReadDht
<1> QED BY <1>1, <1>2, PTL DEF DriversSpec, Spec

\* On the board the sensor stays in its mode, and no sample of it is sent
\* twice.
THEOREM BoardKeepsModeAndSamples == DriversSpec => [](ModeStays /\ EverySampleOnce)
  BY DriversImplementSensor, ModeIsKept, SamplesAreSentOnce, PTL

----------------------------------------------------------------------------
(* The DHT22.                                                               *)

\* A pulse is taken for a shorter one only when the thread was late at its
\* start, and for a longer one only when it was late at its end.
LEMMA PulseIsRead ==
  ASSUME NEW edges \in SUBSET Edge
  PROVE  /\ 0 \in Outcomes[1][edges] => "start" \in edges
         /\ 1 \in Outcomes[0][edges] => "end" \in edges
<1>1. ASSUME NEW us \in Nat, us >= 70, NEW phase \in 0 .. TICK - 1
      PROVE  ReadAs(us, phase) = 1
  <2>1. phase \in 0 .. 19
    BY DEF TICK
  <2>2. (us + phase) \div 20 >= 3
    BY <1>1, <2>1
  <2> QED BY <2>1, <2>2 DEF ReadAs, Elapsed, TICK
<1>2. ASSUME NEW us \in 0 .. 28, NEW phase \in 0 .. TICK - 1
      PROVE  ReadAs(us, phase) = 0
  <2>1. phase \in 0 .. 19
    BY DEF TICK
  <2>2. (us + phase) \div 20 <= 2 /\ (us + phase) \div 20 \in Nat
    BY <2>1
  <2> QED BY <2>1, <2>2 DEF ReadAs, Elapsed, TICK
<1>3. ASSUME 0 \in Outcomes[1][edges], "start" \notin edges PROVE FALSE
  <2>1. PICK phase \in 0 .. TICK - 1, e \in IF "end" \in edges THEN Delays ELSE {0} :
           0 = ReadAs(Measured(One, 0, e), phase)
    BY <1>3 DEF Outcomes
  <2>2. e \in Nat
    BY DhtAssumption
  <2>3. Measured(One, 0, e) \in Nat /\ Measured(One, 0, e) >= 70
    BY <2>2 DEF Measured, One
  <2> QED BY <1>1, <2>1, <2>3
<1>4. ASSUME 1 \in Outcomes[0][edges], "end" \notin edges PROVE FALSE
  <2>1. PICK us \in Zero, phase \in 0 .. TICK - 1,
             s \in IF "start" \in edges THEN Delays ELSE {0} :
           1 = ReadAs(Measured(us, s, 0), phase)
    BY <1>4 DEF Outcomes
  <2>2. s \in Nat
    BY DhtAssumption
  <2>3. Measured(us, s, 0) \in 0 .. 28
    BY <2>2 DEF Measured, Zero
  <2> QED BY <1>2, <2>1, <2>3
<1> QED BY <1>3, <1>4

\* So only a 1 with a late start is misread, and a 0 with a late end.
LEMMA MisreadBits ==
  ASSUME NEW frame, NEW late, NEW x \in Misread(frame, late)
  PROVE  /\ x \in Bit
         /\ x \in frame => <<"start", x>> \in late
         /\ x \notin frame => <<"end", x>> \in late
<1> DEFINE edges == {edge \in Edge : <<edge, x>> \in late}
<1>1. x \in Bit /\ 1 - BitOf(frame, x) \in Outcomes[BitOf(frame, x)][edges]
  BY DEF Misread
<1>2. edges \in SUBSET Edge
  OBVIOUS
<1>3. /\ "start" \in edges => <<"start", x>> \in late
      /\ "end" \in edges => <<"end", x>> \in late
  OBVIOUS
<1> HIDE DEF edges
<1>4. CASE x \in frame
  <2>1. BitOf(frame, x) = 1 /\ 1 - BitOf(frame, x) = 0
    BY <1>4 DEF BitOf
  <2>2. 0 \in Outcomes[1][edges]
    BY <1>1, <2>1
  <2> QED BY <1>1, <1>2, <1>3, <1>4, <2>2, PulseIsRead
<1>5. CASE x \notin frame
  <2>1. BitOf(frame, x) = 0 /\ 1 - BitOf(frame, x) = 1
    BY <1>5 DEF BitOf
  <2>2. 1 \in Outcomes[0][edges]
    BY <1>1, <2>1
  <2> QED BY <1>1, <1>2, <1>3, <1>5, <2>2, PulseIsRead
<1> QED BY <1>4, <1>5

----------------------------------------------------------------------------
(* What the bits of a frame count for in its sum.                           *)

LEMMA BitNumbers ==
  /\ 0 \in 0 .. 7 /\ 1 \in 0 .. 7 /\ 2 \in 0 .. 7 /\ 3 \in 0 .. 7
  /\ 4 \in 0 .. 7 /\ 5 \in 0 .. 7 /\ 6 \in 0 .. 7 /\ 7 \in 0 .. 7
  OBVIOUS

Weight(i) ==
    IF i = 0 THEN 128 ELSE IF i = 1 THEN 64 ELSE IF i = 2 THEN 32 ELSE IF i = 3 THEN 16
    ELSE IF i = 4 THEN 8 ELSE IF i = 5 THEN 4 ELSE IF i = 6 THEN 2 ELSE 1

\* What a 1 adds to the sum of the bytes less the byte sent for it.
Counts(x) == IF x[1] = 4 THEN -Weight(x[2]) ELSE Weight(x[2])
Excess(frame) ==
    ByteOf(frame, 0) + ByteOf(frame, 1) + ByteOf(frame, 2) + ByteOf(frame, 3)
      - ByteOf(frame, 4)

\* A 1 more in a byte.
LEMMA OneBitMore ==
  ASSUME NEW frame \in SUBSET Bit, NEW b \in 0 .. 4, NEW i \in 0 .. 7, <<b, i>> \notin frame
  PROVE  /\ ByteOf(frame \cup {<<b, i>>}, b) = ByteOf(frame, b) + Weight(i)
         /\ \A c \in (0 .. 4) \ {b} : ByteOf(frame \cup {<<b, i>>}, c) = ByteOf(frame, c)
<1> DEFINE more == frame \cup {<<b, i>>}
           Old(j) == <<b, j>> \in frame
           New(j) == <<b, j>> \in more
<1>1. \A j \in 0 .. 7 : j # i => (New(j) <=> Old(j))
  OBVIOUS
<1>2. New(i) /\ ~Old(i)
  OBVIOUS
<1>3. \A c \in (0 .. 4) \ {b}, j \in 0 .. 7 : <<c, j>> \in more <=> <<c, j>> \in frame
  OBVIOUS
<1>4. \A c \in (0 .. 4) \ {b} : ByteOf(more, c) = ByteOf(frame, c)
  <2> HIDE DEF more
  <2> TAKE c \in (0 .. 4) \ {b}
  <2>1. \A j \in 0 .. 7 : <<c, j>> \in more <=> <<c, j>> \in frame
    BY <1>3
  <2> QED BY <2>1, BitNumbers DEF ByteOf, BitOf
<1>5. ByteOf(more, b) = ByteOf(frame, b) + Weight(i)
  <2> HIDE DEF more
  <2>0. ByteOf(frame, b) \in Int
    BY DEF ByteOf, BitOf
  <2>1. CASE i = 0
    BY <1>1, <1>2, BitNumbers, <2>0, <2>1 DEF ByteOf, BitOf, Weight
  <2>2. CASE i = 1
    BY <1>1, <1>2, BitNumbers, <2>0, <2>2 DEF ByteOf, BitOf, Weight
  <2>3. CASE i = 2
    BY <1>1, <1>2, BitNumbers, <2>0, <2>3 DEF ByteOf, BitOf, Weight
  <2>4. CASE i = 3
    BY <1>1, <1>2, BitNumbers, <2>0, <2>4 DEF ByteOf, BitOf, Weight
  <2>5. CASE i = 4
    BY <1>1, <1>2, BitNumbers, <2>0, <2>5 DEF ByteOf, BitOf, Weight
  <2>6. CASE i = 5
    BY <1>1, <1>2, BitNumbers, <2>0, <2>6 DEF ByteOf, BitOf, Weight
  <2>7. CASE i = 6
    BY <1>1, <1>2, BitNumbers, <2>0, <2>7 DEF ByteOf, BitOf, Weight
  <2>8. CASE i = 7
    BY <1>1, <1>2, BitNumbers, <2>0, <2>8 DEF ByteOf, BitOf, Weight
  <2> QED BY <2>1, <2>2, <2>3, <2>4, <2>5, <2>6, <2>7, <2>8
<1> QED BY <1>4, <1>5

LEMMA ExcessTypes ==
  ASSUME NEW frame \in SUBSET Bit
  PROVE  /\ Excess(frame) \in Int
         /\ \A c : ByteOf(frame, c) \in 0 .. 255
         /\ \A x \in Bit : Counts(x) \in Int
<1>1. \A c : ByteOf(frame, c) \in 0 .. 255
  BY DEF ByteOf, BitOf
<1>2. \A x \in Bit : Counts(x) \in Int
  BY DEF Counts, Weight
<1>3. \A c : ByteOf(frame, c) \in Int
  BY <1>1
<1>4. Excess(frame) \in Int
  BY <1>3 DEF Excess
<1> QED BY <1>1, <1>2, <1>4

LEMMA ExcessOfMore ==
  ASSUME NEW frame \in SUBSET Bit, NEW x \in Bit, x \notin frame
  PROVE  Excess(frame \cup {x}) = Excess(frame) + Counts(x)
<1>1. PICK b \in 0 .. 4, i \in 0 .. 7 : x = <<b, i>>
  BY DEF Bit
<1> DEFINE more == frame \cup {x}
<1>2. /\ ByteOf(more, b) = ByteOf(frame, b) + Weight(i)
      /\ \A c \in (0 .. 4) \ {b} : ByteOf(more, c) = ByteOf(frame, c)
  <2>1. /\ ByteOf(frame \cup {<<b, i>>}, b) = ByteOf(frame, b) + Weight(i)
        /\ \A c \in (0 .. 4) \ {b} : ByteOf(frame \cup {<<b, i>>}, c) = ByteOf(frame, c)
    <3>1. <<b, i>> \notin frame
      BY <1>1
    <3> QED BY <3>1, OneBitMore, Zenon
  <2>2. more = frame \cup {<<b, i>>}
    BY <1>1
  <2> HIDE DEF more
  <2> QED BY <2>1, <2>2
<1> HIDE DEF more
<1>3. \A c : ByteOf(frame, c) \in Int
  BY ExcessTypes
<1>4. Weight(i) \in Int /\ Counts(x) = IF b = 4 THEN -Weight(i) ELSE Weight(i)
  BY <1>1 DEF Counts, Weight
<1>5. CASE b = 0
  BY <1>2, <1>3, <1>4, <1>5 DEF Excess, more
<1>6. CASE b = 1
  BY <1>2, <1>3, <1>4, <1>6 DEF Excess, more
<1>7. CASE b = 2
  BY <1>2, <1>3, <1>4, <1>7 DEF Excess, more
<1>8. CASE b = 3
  BY <1>2, <1>3, <1>4, <1>8 DEF Excess, more
<1>9. CASE b = 4
  BY <1>2, <1>3, <1>4, <1>9 DEF Excess, more
<1> QED BY <1>5, <1>6, <1>7, <1>8, <1>9

LEMMA ExcessOfLess ==
  ASSUME NEW frame \in SUBSET Bit, NEW x \in Bit, x \in frame
  PROVE  Excess(frame \ {x}) = Excess(frame) - Counts(x)
<1> DEFINE less == frame \ {x}
<1>1. x \notin less /\ less \cup {x} = frame
  OBVIOUS
<1> HIDE DEF less
<1>2. Excess(frame) = Excess(less) + Counts(x)
  BY <1>1, ExcessOfMore
<1> QED BY <1>2, ExcessTypes DEF less

\* The check is that the excess is a multiple of 256.
LEMMA AcceptedExcess ==
  ASSUME NEW frame \in SUBSET Bit
  PROVE  ByteOf(frame, 4) = Sum(frame) <=> Excess(frame) % 256 = 0
<1> DEFINE b0 == ByteOf(frame, 0)
           b1 == ByteOf(frame, 1)
           b2 == ByteOf(frame, 2)
           b3 == ByteOf(frame, 3)
           b4 == ByteOf(frame, 4)
<1>1. /\ b0 \in 0 .. 255 /\ b1 \in 0 .. 255 /\ b2 \in 0 .. 255
      /\ b3 \in 0 .. 255 /\ b4 \in 0 .. 255
  BY ExcessTypes
<1>2. Sum(frame) = (b0 + b1 + b2 + b3) % 256 /\ Excess(frame) = b0 + b1 + b2 + b3 - b4
  BY DEF Sum, Excess
<1> HIDE DEF b0, b1, b2, b3, b4
<1>3. b4 = Sum(frame) <=> Excess(frame) % 256 = 0
  BY <1>1, <1>2
<1> QED BY <1>3 DEF b4

\* One bit, or two bits that follow each other, always change it by something
\* between two multiples.
LEMMA ExcessChanges ==
  ASSUME NEW d \in Int, d % 256 = 0, NEW w \in Int, w \in -255 .. 255, w # 0
  PROVE  (d + w) % 256 # 0
  OBVIOUS

LEMMA CountsOfBits ==
  ASSUME NEW x \in Bit
  PROVE  /\ Counts(x) \in -128 .. 128 /\ Counts(x) # 0
         /\ x # <<4, 7>> =>
               /\ NextBit(x) \in Bit
               /\ Counts(x) - Counts(NextBit(x)) \in -255 .. 255
               /\ Counts(x) - Counts(NextBit(x)) # 0
<1>1. PICK b \in 0 .. 4, i \in 0 .. 7 : x = <<b, i>>
  BY DEF Bit
<1>2. Counts(x) = IF b = 4 THEN -Weight(i) ELSE Weight(i)
  BY <1>1 DEF Counts
<1>3. CASE i < 7
  <2>1. NextBit(x) = <<b, i + 1>> /\ i + 1 \in 0 .. 7
    BY <1>1, <1>3 DEF NextBit
  <2>2. Counts(NextBit(x)) = IF b = 4 THEN -Weight(i + 1) ELSE Weight(i + 1)
    BY <2>1 DEF Counts
  <2>3. NextBit(x) \in Bit
    BY <2>1 DEF Bit
  <2> QED BY <1>2, <1>3, <2>2, <2>3 DEF Weight
<1>4. CASE i = 7
  <2>1. NextBit(x) = <<b + 1, 0>>
    BY <1>1, <1>4 DEF NextBit
  <2>2. Counts(NextBit(x)) = IF b + 1 = 4 THEN -128 ELSE 128
    BY <2>1 DEF Counts, Weight
  <2>3. x # <<4, 7>> => b # 4
    BY <1>1, <1>4
  <2>4. b # 4 => NextBit(x) \in Bit
    BY <2>1 DEF Bit
  <2> QED BY <1>2, <1>4, <2>2, <2>3, <2>4 DEF Weight
<1> QED BY <1>3, <1>4

\* The sum finds what one preemption changes.
LEMMA OnePreemptionFails ==
  ASSUME NEW frame \in SUBSET Bit, Sent(frame), NEW p \in Preemption,
         NEW late, late \subseteq p, NEW received \in Received(frame, late),
         NEW missed, received # frame
  PROVE  ~Accepted(received, missed)
<1>1. PICK wrong \in SUBSET Misread(frame, late) :
         received = (frame \ wrong) \cup (wrong \ frame)
  BY DEF Received
<1>2. ASSUME NEW x \in wrong
      PROVE  /\ x \in Bit
             /\ x \in frame => <<"start", x>> \in p
             /\ x \notin frame => <<"end", x>> \in p
  <2>1. /\ x \in Bit
        /\ x \in frame => <<"start", x>> \in late
        /\ x \notin frame => <<"end", x>> \in late
    BY MisreadBits
  <2> QED BY <2>1
<1>3. Excess(frame) \in Int /\ Excess(frame) % 256 = 0
  BY ExcessTypes, AcceptedExcess DEF Sent
<1>10. received \in SUBSET Bit
  BY <1>1 DEF Misread
<1>4. SUFFICES Excess(received) % 256 # 0
  BY <1>10, AcceptedExcess DEF Accepted
\* One bit is wrong.
<1>5. ASSUME NEW x \in Bit, wrong = {x} PROVE Excess(received) % 256 # 0
  <2>1. Counts(x) \in -128 .. 128 /\ Counts(x) # 0
    BY CountsOfBits
  <2>2. CASE x \in frame
    <3>1. received = frame \ {x}
      BY <1>1, <1>5, <2>2
    <3>2. Excess(received) = Excess(frame) + (-Counts(x))
      BY <1>3, <2>1, <2>2, <3>1, ExcessOfLess
    <3>3. -Counts(x) \in -255 .. 255 /\ -Counts(x) # 0 /\ -Counts(x) \in Int
      BY <2>1
    <3> QED BY <1>3, <3>2, <3>3, ExcessChanges
  <2>3. CASE x \notin frame
    <3>1. received = frame \cup {x}
      BY <1>1, <1>5, <2>3
    <3>2. Excess(received) = Excess(frame) + Counts(x)
      BY <2>3, <3>1, ExcessOfMore
    <3>3. Counts(x) \in -255 .. 255 /\ Counts(x) \in Int
      BY <2>1
    <3> QED BY <1>3, <2>1, <3>2, <3>3, ExcessChanges
  <2> QED BY <2>2, <2>3
\* Two are: a 0 that is read as a 1, and the 1 after it as a 0.
<1>6. ASSUME NEW x \in Bit \ {<<4, 7>>}, wrong = {x, NextBit(x)},
             x \notin frame, NextBit(x) \in frame
      PROVE  Excess(received) % 256 # 0
  <2> DEFINE y == NextBit(x)
             less == frame \ {y}
             w == Counts(x) - Counts(y)
  <2>1. y \in Bit /\ w \in -255 .. 255 /\ w # 0 /\ w \in Int
    BY CountsOfBits
  <2>2. received = less \cup {x} /\ x \notin less /\ less \in SUBSET Bit
    BY <1>1, <1>6
  <2>3. Excess(less) = Excess(frame) - Counts(y)
    BY <1>6, <2>1, ExcessOfLess
  <2> HIDE DEF less
  <2>4. Excess(less \cup {x}) = Excess(less) + Counts(x)
    BY <2>2, ExcessOfMore, Zenon
  <2>5. Counts(x) \in Int /\ Counts(y) \in Int
    BY <2>1, CountsOfBits
  <2>6. Excess(received) = Excess(frame) + w
    BY <1>3, <2>2, <2>3, <2>4, <2>5
  <2> HIDE DEF w
  <2> QED BY <1>3, <2>1, <2>6, ExcessChanges
<1>7. wrong # {}
  BY <1>1
<1>8. CASE \E edge \in Edge, x \in Bit : p = {<<edge, x>>}
  <2>1. PICK edge \in Edge, x \in Bit : p = {<<edge, x>>}
    BY <1>8
  <2>2. wrong = {x}
    BY <1>2, <1>7, <2>1
  <2> QED BY <1>5, <2>2
<1>9. CASE \E x \in Bit \ {<<4, 7>>} : p = {<<"end", x>>, <<"start", NextBit(x)>>}
  <2>1. PICK x \in Bit \ {<<4, 7>>} : p = {<<"end", x>>, <<"start", NextBit(x)>>}
    BY <1>9
  <2>2. NextBit(x) \in Bit
    BY CountsOfBits
  <2>3. \A z \in wrong : \/ z = x /\ x \notin frame
                         \/ z = NextBit(x) /\ NextBit(x) \in frame
    BY <1>2, <2>1
  <2>4. \/ wrong = {x} \/ wrong = {NextBit(x)}
        \/ wrong = {x, NextBit(x)} /\ x \notin frame /\ NextBit(x) \in frame
    BY <1>7, <2>3
  <2> QED BY <1>5, <1>6, <2>2, <2>4
<1> QED BY <1>8, <1>9 DEF Preemption

LEMMA ReadingIsRight ==
  ASSUME NEW reading \in Readings, reading.sent, ~reading.right
  PROVE  reading.preemptions # 1
<1>1. PICK frame \in Frames, late \in Late : reading \in ReadingsOf(frame, late)
  BY DEF Readings
<1>2. PICK received \in Received(frame, late), missed \in BOOLEAN :
         reading = [sent |-> Accepted(received, missed),
                    right |-> Value(received) = Value(frame),
                    preemptions |-> IF \E p \in Preemption : late \subseteq p THEN 1 ELSE 2]
  BY <1>1 DEF ReadingsOf
<1>3. Accepted(received, missed) /\ received # frame /\ Sent(frame) /\ frame \in SUBSET Bit
  BY <1>2, DriversAssumption
<1>4. ~\E p \in Preemption : late \subseteq p
  BY <1>3, OnePreemptionFails
<1> QED BY <1>2, <1>4

\* A value that is sent is the one the DHT22 measured unless the thread was
\* preempted twice at edges of its pulses: for any frames, any delays and any
\* place between two ticks.
THEOREM SumFindsOnePreemption == DriversSpec => []OnePreemptionIsFound
<1>1. DriversInit => OnePreemptionIsFound
  BY DEF DriversInit, OnePreemptionIsFound
<1>2. OnePreemptionIsFound /\ [DriversNext]_driverVars => OnePreemptionIsFound'
  <2> SUFFICES ASSUME OnePreemptionIsFound, [DriversNext]_driverVars
               PROVE  OnePreemptionIsFound'
    OBVIOUS
  <2>1. CASE UNCHANGED misread
    BY <2>1 DEF OnePreemptionIsFound
  <2>2. ASSUME NEW reading \in Readings, ReadDht(reading) PROVE OnePreemptionIsFound'
    BY <2>2, ReadingIsRight DEF ReadDht, OnePreemptionIsFound
  <2> QED BY <2>1, <2>2 DEF DriversNext, driverVars
<1> QED BY <1>1, <1>2, PTL DEF DriversSpec
============================================================================
