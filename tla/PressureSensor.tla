---------------------------- MODULE PressureSensor ----------------------------
(* The driver of the pressure sensor.  In version 3, mppl3115a2.cpp, two    *)
(* threads use it: the radio thread measures in every round, the shell's    *)
(* command sets the sensor up again and measures.  The bus is locked for    *)
(* one transaction only, so the two interleave between any two of them.     *)
(* Version 2, mppl3115a2.ino, is the same driver called from loop() only.   *)
EXTENDS Integers, Sequences

CONSTANTS
    POLLS,      \* reads of STATUS before a measurement is given up
    SAMPLES,    \* bound: samples the sensor takes
    FAILURES,   \* bound: transactions that fail
    COMMANDS    \* bound: uses of the shell's command

ASSUME SensorAssumption ==
    POLLS \in Nat \ {0} /\ SAMPLES \in Nat /\ FAILURES \in Nat /\ COMMANDS \in Nat

VARIABLES
    firmware,   \* "v2" or "v3"
    chip,       \* CTRL_REG1, event flags, data that is ready, samples taken
    thread,     \* of each thread: the calls still to make, and its variables
    present,    \* mppl3115a2_present
    sent,       \* the samples the radio thread read last, and whether it read
                \* one twice; a history, not code
    done        \* failures and commands so far; bounds

vars == <<firmware, chip, thread, present, sent, done>>

Thread == {"radio", "shell"}
Kind == {"pressure", "temp"}
Bits == {"ALT", "OS", "OST", "SBYB", "other"}   \* of CTRL_REG1

\* The calls.  Those that change CTRL_REG1 read it, change the bits and write
\* it back.
Changes == {"active", "standby", "barometer", "oversample", "clearOST", "setOST"}
Waits == [waitP |-> "pressure", waitT |-> "temp"]
Reads == [readP |-> "pressure", readT |-> "temp"]

\* Mutation of Setup: the sensor is put into standby before it is set up.
SetupInStandby == <<"whoami", "standby", "barometer", "oversample", "active", "events">>

Setup == <<"whoami", "active", "barometer", "oversample", "events">>

\* readPressure, which asks for one more sample in version 2, and readTemp.
ReadPressure == <<"clearOST", "setOST", "waitP", "readP">>
                \o IF firmware = "v2" THEN <<"clearOST", "setOST">> ELSE <<>>
ReadTemp == <<"clearOST", "setOST", "waitT", "readT">>

Changed(call, reg) ==
    CASE call = "active" -> reg \cup {"SBYB"}
      [] call = "standby" -> reg \ {"SBYB"}
      [] call = "barometer" -> reg \ {"ALT"}
      [] call = "oversample" -> reg \cup {"OS"}
      [] call = "clearOST" -> reg \ {"OST"}
      [] call = "setOST" -> reg \cup {"OST"}

NoCall == [todo |-> <<>>, reg |-> {}, got |-> FALSE, polls |-> 0]

Init ==
    /\ chip = [ctrl |-> {}, events |-> FALSE, ready |-> {}, sample |-> 0]
    /\ thread = [radio |-> [NoCall EXCEPT !.todo = Setup], shell |-> NoCall]
    /\ firmware \in {"v2", "v3"}
    /\ present = "unset"
    /\ sent = [pressure |-> 0, temp |-> 0, twice |-> FALSE]
    /\ done = [failures |-> 0, commands |-> 0]

----------------------------------------------------------------------------
\* The call t is in, what follows it, and what follows the measurement it is in.
Call(t) == IF thread[t].todo = <<>> THEN "none" ELSE Head(thread[t].todo)
After(t) == [NoCall EXCEPT !.todo = Tail(thread[t].todo)]
GivenUp(t) == [NoCall EXCEPT !.todo = IF Call(t) \in {"waitP", "readP"} THEN ReadTemp ELSE <<>>]

\* A transaction fails or not.
Transaction(fails) ==
    IF fails THEN /\ done.failures < FAILURES
                  /\ done' = [done EXCEPT !.failures = @ + 1]
    ELSE UNCHANGED done

\* setup() ends: main remembers whether the sensor is there.
Finds(t, answer) == present' = IF t = "radio" THEN answer ELSE present

WhoAmI(t, fails) ==
    /\ Call(t) = "whoami"
    /\ Transaction(fails)
    /\ IF fails THEN /\ thread' = [thread EXCEPT ![t] = NoCall]
                     /\ Finds(t, "no")
       ELSE thread' = [thread EXCEPT ![t] = After(t)] /\ UNCHANGED present
    /\ UNCHANGED <<chip, sent>>

\* IIC_Read(CTRL_REG1): -1, all bits, if it fails.
ReadControl(t, fails) ==
    /\ Call(t) \in Changes /\ ~thread[t].got
    /\ Transaction(fails)
    /\ thread' = [thread EXCEPT ![t].got = TRUE,
                                ![t].reg = IF fails THEN Bits ELSE chip.ctrl]
    /\ UNCHANGED <<chip, present, sent>>

\* IIC_Write(CTRL_REG1): its status is not looked at.
WriteControl(t, fails) ==
    /\ thread[t].got
    /\ Transaction(fails)
    /\ chip' = IF fails THEN chip
               ELSE [chip EXCEPT !.ctrl = Changed(Call(t), thread[t].reg)]
    /\ thread' = [thread EXCEPT ![t] = After(t)]
    /\ UNCHANGED <<present, sent>>

EnableEvents(t, fails) ==
    /\ Call(t) = "events"
    /\ Transaction(fails)
    /\ chip' = [chip EXCEPT !.events = @ \/ ~fails]
    /\ thread' = [thread EXCEPT ![t] = After(t)]
    /\ Finds(t, "yes")
    /\ UNCHANGED sent

\* Mutation of Wait: the counter is never compared with its limit.
WaitForever(t, fails) ==
    /\ Call(t) \in DOMAIN Waits
    /\ Transaction(fails)
    /\ thread' = [thread EXCEPT ![t] = IF fails \/ Waits[Call(t)] \in chip.ready
                                       THEN After(t) ELSE @]
    /\ UNCHANGED <<chip, present, sent>>

\* Mutation of Wait: the loop is left at the limit, and the data is read.
WaitThenRead(t, fails) ==
    /\ Call(t) \in DOMAIN Waits
    /\ Transaction(fails)
    /\ thread' = [thread EXCEPT ![t] =
          IF fails \/ Waits[Call(t)] \in chip.ready \/ @.polls = POLLS THEN After(t)
          ELSE [@ EXCEPT !.polls = @ + 1]]
    /\ UNCHANGED <<chip, present, sent>>

\* One read of STATUS.  If it fails all bits are set and data looks ready; at
\* the limit the measurement returns without data, and its caller sends -999
\* or whatever the variable held.
Wait(t, fails) ==
    /\ Call(t) \in DOMAIN Waits
    /\ Transaction(fails)
    /\ thread' = [thread EXCEPT ![t] =
          IF fails \/ Waits[Call(t)] \in chip.ready THEN After(t)
          ELSE IF thread[t].polls = POLLS THEN GivenUp(t)
          ELSE [thread[t] EXCEPT !.polls = @ + 1]]
    /\ UNCHANGED <<chip, present, sent>>

\* The data is read, which makes it not ready.  Version 3 uses what is in the
\* buffer if the transaction fails, version 2 waits for it in vain.
ReadData(t, fails) ==
    /\ Call(t) \in DOMAIN Reads
    /\ Transaction(fails)
    /\ LET kind == Reads[Call(t)] IN
       /\ chip' = IF fails THEN chip ELSE [chip EXCEPT !.ready = @ \ {kind}]
       /\ sent' = IF fails \/ t = "shell" THEN sent
                  ELSE [sent EXCEPT ![kind] = chip.sample,
                                    !.twice = @ \/ sent[kind] = chip.sample]
    /\ thread' = [thread EXCEPT ![t] =
                     IF fails /\ firmware = "v2" THEN GivenUp(t) ELSE After(t)]
    /\ UNCHANGED present

\* The reading is sent, and the next round begins.
NextRound ==
    /\ present = "yes" /\ thread["radio"].todo = <<>>
    /\ thread' = [thread EXCEPT !["radio"].todo = ReadPressure \o ReadTemp]
    /\ UNCHANGED <<chip, present, sent, done>>

\* cmd_i2c, once main has started the threads.
Command ==
    /\ firmware = "v3" /\ present # "unset" /\ thread["shell"].todo = <<>>
    /\ done.commands < COMMANDS
    /\ done' = [done EXCEPT !.commands = @ + 1]
    /\ thread' = [thread EXCEPT !["shell"].todo = Setup \o ReadPressure \o ReadTemp]
    /\ UNCHANGED <<chip, present, sent>>

\* The sensor takes a sample: on request, or by itself while it is active.
Sample ==
    /\ chip.ctrl \cap {"OST", "SBYB"} # {} /\ chip.sample < SAMPLES
    /\ chip' = [chip EXCEPT !.sample = @ + 1,
                            !.ready = IF chip.events THEN Kind ELSE @]
    /\ UNCHANGED <<thread, present, sent, done>>

Transact(t) == \E fails \in BOOLEAN :
    \/ WhoAmI(t, fails) \/ ReadControl(t, fails) \/ WriteControl(t, fails)
    \/ EnableEvents(t, fails) \/ Wait(t, fails) \/ ReadData(t, fails)

Next == /\ \/ \E t \in Thread : Transact(t)
           \/ NextRound \/ Command \/ Sample
        /\ UNCHANGED firmware

Spec == Init /\ [][Next]_vars

\* Transactions end, by their timeout at the latest.  The sensor owes nothing.
FairSpec == /\ Spec
            /\ WF_vars(NextRound /\ UNCHANGED firmware)
            /\ \A t \in Thread : WF_vars(Transact(t) /\ UNCHANGED firmware)

----------------------------------------------------------------------------
\* Type invariant.
SensorTypeOK ==
    /\ firmware \in {"v2", "v3"}
    /\ chip \in [ctrl : SUBSET Bits, events : BOOLEAN, ready : SUBSET Kind,
                 sample : 0 .. SAMPLES]
    /\ \A t \in Thread : thread[t].reg \subseteq Bits /\ thread[t].polls \in 0 .. POLLS
    /\ present \in {"unset", "yes", "no"}
    /\ done \in [failures : 0 .. FAILURES, commands : 0 .. COMMANDS]

\* The two threads change CTRL_REG1 by reading and writing it without a lock
\* across the two, and no order of their transactions takes the sensor out of
\* the mode that setup put it in, as long as no transaction fails: setup
\* writes what is there already, and the other writes differ in OST only.
ModeStays ==
    present = "yes" /\ done.failures = 0 =>
       {"SBYB", "OS"} \subseteq chip.ctrl /\ chip.ctrl \subseteq {"SBYB", "OS", "OST"}

\* The radio thread never reads the same sample twice, whatever the shell
\* reads in between: a read makes the data not ready, and every read is after
\* a STATUS that said so.
EverySampleOnce == done.failures = 0 => ~sent.twice

\* A measurement ends, with or without data, also when the other thread has
\* taken the data it waits for.
MeasurementEnds == \A t \in Thread : thread[t].todo # <<>> ~> thread[t].todo = <<>>
=============================================================================
