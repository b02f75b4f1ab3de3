# sensor_net in TLA+

sensor_net collects readings of radio sensors.  Sensors (STM32 boards under
ChibiOS, `src/rf_sensor_v3`) send frames through an RFM69 radio to a gateway,
the same firmware built with `GATEWAY_DEVICE`.  The gateway hands out radio
ids, answers every frame in the frame's ACK, and passes frames on to a host
over USB (the FastBus).  An older firmware, `src/rf_sensor_v2`, has no gateway:
its stations look for base stations and keep a table of them.  Python programs
on the host give readings their names, drop repeated ones and distribute them
over ZeroMQ to loggers, displays and browsers.

These modules model each of those parts and, where two of them share state,
their composition.  TLC checks them on small instances; TLAPS proves all of the
safety that the passing runs check, for every number of sensors, slots, buffers,
clients, stations, retries and restarts.  Liveness is left to TLC.

## Inventory

| part | state | operations | talks to | hard behaviour | what makes it correct |
|---|---|---|---|---|---|
| id table, `framing.cpp` | `nodes[64]`: UUID and flags of each id, in RAM | `assign_node`, `get_flags`, `set_flag`, `clear_nodes` | called by the gateway's Thread1 | repeated requests, full table, uint8_t wrap-around of ids, loss of the table | one owner per id, the same answer to a repeated request, owner and flag agree |
| sensor, `main.cpp` Thread1 and `send_frame` | address, `flags`, place in the round | readings, id request, descriptors | frames to the gateway, ACKs back | lost frames and ACKs, ACKs of others, restarts | it uses only an id that it was given, and it gets one |
| gateway, `main.cpp` Thread1 | the table, the ACK being sent | answer to a frame, host commands | radio, FastBus | flags changed between answer and sending; stale `theNodeID` | no id given away twice, no request of the host forgotten silently |
| radio driver, `RFM69.cpp` | `_mode`, the static buffers, the chip's FIFO | `receiveDone`, `sendACK`, `sendWithRetry`, `setMode` | SPI, DIO0 line, shell | a frame read while another is being answered; two threads in `setMode` | a frame is delivered once and answered to its sender, an accepted ACK is new, `_mode` is the chip's mode |
| radio thread's sleep, `main.cpp` | `trp`, `sleep`, `timecount` | suspend, resume from interrupts | radio and USB interrupts | wake-ups between check and suspend, kernel lock left held | work waits for a bounded time |
| FastBus, `fast_bus.cpp`, `usbcfg.cpp` | two buffer queues, two endpoints, kernel lock | Write, Read, transfer callbacks, USB events | thread, interrupts, host | callbacks against thread, reset and suspend between two steps, full queues | order kept, nothing lost or sent twice without a reset, no stall |
| shell, `main.cpp` | none | `date` (radio), `iic` (pressure sensor), `read` (FastBus) | everything above | runs between any two bus transactions of Thread1 | the driver's state survives it |
| `mppl3115a2.cpp`, `mppl3115a2.ino` | CTRL_REG1, data-ready flags | set up, measure | I2C | failing transactions, data taken by the other thread, read-modify-write from two threads | the mode stays, no sample twice, measurements end |
| `dht.cpp` | none | measure | a pin | pulses that look longer or shorter when the thread is preempted | a wrong value is not sent |
| version 2 firmware, `rf_sensor_v2` | neighbour table, phase of `loop()`, address in RAM and EEPROM, buttons, 1-wire probes | ping, route, age, sample, identify, set up | NRF24 radio, EEPROM | scores in bytes, slots given back while in use, setup in the middle of operation, conversions that take their time | a message is offered to two neighbours, the right probe is read, and not too early, new bases are found |
| `interface.py` | UUIDs of ids, names of readings | decode, ask for UUID and descriptors | FastBus, ZeroMQ | ids given to another sensor after a gateway restart | a reading carries its sensor's name |
| `sensor_node.py`, `tft_lib.py` | `last_seen`, `running`, `write_lock` | filter by sequence number, forward, time, ping, commands | ZeroMQ, radio | wrap of the numbers, 2 s window, exceptions in either thread | no reading twice, new readings pass, both threads end |
| `tornado_websocket.py` | callbacks, sessions, last messages and their file | open, session answer, message, close, save, load | ZeroMQ, browsers, session service | close before the session answer, an answer that raises, exception inside the loop over callbacks, crash in a save | each open client gets each message once, saved messages stay |
| `subscriber_logger.py`, `db_log.py` | `last_seen` per topic | log at most once a minute | ZeroMQ, database | one comparison of times | rate limit per topic |
| tools and display (`publisher*.py`, `set_address.py`, `plot-sensor.py`) | none to speak of | one-shot | | | |

## Modules

| module | what it is |
|---|---|
| `NodeTable` | the id table: one action per function of `framing.cpp` that changes it |
| `NodeIds` | what the table promises: an id belongs to nobody or to one sensor and is handed out once |
| `NodeTableProps` | properties of the table, refinement to `NodeIds` |
| `SensorNet` | sensors, radio and gateway; extends `NodeTable` and composes its operations with the ACKs |
| `SensorNetProps` | properties, inductive strengthenings, fairness, liveness |
| `SensorNetProofs` | proofs about the table and about sensors and gateway |
| `StationNames`, `StationNamesProofs` | `SensorNet` with the FastBus as two queues and `interface.py` at the other end; proofs, also that it implements `SensorNet` |
| `FastBus`, `FastBusProps` | the USB pipe and its properties |
| `RadioThread`, `RadioThreadProofs` | the gateway's thread between sleep and work; extends `FastBusProps` and drives the pipe; proofs about the pipe, and that the thread implements `FastBus` |
| `Rfm69`, `Rfm69Proofs` | the radio driver, one access to the SPI bus at a time, with the shell's `date`; proofs |
| `PressureSensor`, `Dht`, `SensorDrivers`, `DriversProofs` | the two sensor drivers, both in Thread1's round, and proofs about all three |
| `Neighbours`, `StationV2`, `StationV2Props`, `StationV2Proofs` | neighbour table, loop, properties and proofs of the version 2 firmware |
| `SequenceFilter`, `Hub`, `HubProofs` | the test for a repeated reading, the hub's two threads, proofs |
| `WebRelay`, `WebRelayProofs` | the web server's callbacks, sessions and file of last messages, proofs |
| `MC*` | instances for TLC |

Definitions named as a "Mutation" are variants of the definition that follows
them with one plausible mistake.  No specification uses them; they are there to
show that each property is able to fail.

### NodeTable

`nodes` is the array.  A slot's flags byte is the set of its bits and a UUID a
model value; `NoUUID` is the all-zero UUID.  `AssignNode(uuid, station, id)` is
`assign_node` returning `id`.  Its two loops become one predicate: the search
starts at the slot of the caller's own address (`Index`, which wraps like the
code's `uint8_t`) and stops at the first slot that is free or already has the
UUID (`FirstFrom`).  `Take` keeps the code's one asymmetry: at the caller's own
slot "free" is tested first.  `clear_nodes` passes `memset` its arguments in
the wrong order and clears nothing; the table is empty at start because `.bss`
is.  `check_node` is called nowhere.

### SensorNet

A sensor goes through rounds: `Reading` for each device, then `Enrol` (the id
request if `NeedsId`, else `Descriptors` if asked for).  Every frame goes
through `sendWithRetry`: `Transmit`, then an ACK (`SendAck`) or `Timeout`.  A
frame is reduced to what the gateway uses: kind, source address, UUID.  The
gateway's `GatewayReceive` covers Thread1 from `receiveDone` to `sendACK`,
`SendAck(heard)` the transmission up to a second later, heard by any set of
the sensors that wait at the address.  That one action is a lost ACK
(`heard = {}`), a late one (the sensor has sent a newer frame since) and one
that reaches two sensors, since ACKs carry an address and no sequence number.

Three things in the code look like slips and are modelled as written.

* `get_flags(theNodeID, false)` runs before `theNodeID` is assigned, so the
  choice between flags and UUID rests on the flags of the sender before, for
  which the model takes those of any id (`StaleFlags`).
* `nodes[theNodeID]` is indexed with the id instead of the slot (`CheckUUID`).
* All flags but ASSIGNED are cleared after the descriptors (`ActedOn`), also a
  request that came in the ACK of one of them, which is then lost.

`Home` is the `NODE_ID` compiled into each sensor.  All sensor boards in the
repository have `0xf0` (`Unconfigured`), with which no sensor is ever enrolled
(run `net_unconfigured`).  The other runs use addresses inside the table, the
case that the first half of `assign_node` is written for.

### StationNames

The steps of `SensorNet` with what Thread1 passes to the host and what the
host asks for.  `carried` says which part of its round the frame in the air
belongs to, `up` and `down` are the FastBus as bounded queues that drop what
does not fit (`Put`), which is what `FastBus` shows of it.  `Command` is the
two host commands that read or flag the table.  `ReadUnknown`, `ReadUuid`,
`ReadDescriptor` and `ReadReading` are the branches of `_decode_packet`.  A
restart of the gateway takes the USB device away and with it `interface.py`'s
dictionaries, which is why `NamedByOwner` holds: the mutation `HostRemembers`
keeps them and readings go out under another sensor's name.

### FastBus and RadioThread

The two buffer queues hold numbered frames and commands.  An endpoint is idle,
busy, or done with its callback still to come; that gap is where a reset, a
suspend or the kernel lock gets in between.  `ReadBuffer` and `ReadReturn` are
the two halves of `ReadBufferTimeout`: after a transfer shorter than the
caller's 128 bytes the loop takes the lock, finds no buffer and returns with
the lock held, until the next kernel call (`KernelCall`).  The host and the
driver of ChibiOS are modelled from the way `usbcfg.cpp` uses them: a reset
ends the transfers of all endpoints, a suspend keeps them.

`RadioThread` has one action per step of the gateway's loop: `Poll`
(`irq.Get`, `isr0`), `Receive` (`receiveDone` and the handling of a frame, which
ends in standby and with a `Write`), `ReadCommand`, `Obey`, `Doze`, `Tick`.
Every step makes the kernel calls the code makes there, and these are the
actions of `FastBus`.  The interrupts can come between any two steps, except
while the lock is held, and `Resume` does nothing unless the thread is
suspended.  A frame or a command that comes after the thread has looked for it
does not keep it from falling asleep; `CommandsAreServed`, `FifoIsRead` and
`ListensAgain` show that the limit on the sleep is what saves it.  The same
holds for a gateway whose radio stays in standby: `sleep` is decided before
`receiveDone` handles a frame, so the thread goes to sleep deaf.

### Rfm69

The driver's functions are sequences of steps that `todo` holds: a call puts
its own steps in front of what its caller has still to do.  A step that touches
the chip waits for the bus in a queue, as `chMtxLock` does; all others run
without one.  A `setMode` that has work to do is one entry that moves on
(`Following`): OPMODE read, OPMODE written, the amplifier's two registers if the
chip leaves standby, and last `_mode` assigned.  The shell has the higher
priority, so Thread1 moves only while the shell waits for the bus.
`readTemperature` is reduced to its `setMode`, whose reads, writes and assignment
to `_mode` interleave with Thread1's.  Frames
of the peers are numbered and an ACK remembers how many transmissions had begun
when it arrived; neither is in the frame.  `Done` has the outcomes of
`receiveDone` (a frame, nothing, a restart of the receiver), `Csma` those of the
wait in `send` and `sendACK`.

### PressureSensor, Dht and SensorDrivers

A measurement is a list of calls, and a call that changes CTRL_REG1 is two
transactions, `ReadControl` and `WriteControl`, between which the other thread
may do the same.  A failing `IIC_Read` returns all bits set, as the code's -1
does.  `firmware` selects between `mppl3115a2.cpp` and the version 2 driver,
which asks for one more sample and gives up on a failing read.  `Dht` has no
state: the length of a pulse in ticks of the 50 kHz timer, the bit it is taken
for, the five bytes, their sum and the two values.  A preemption makes the
thread late at an edge (`Measured`): before it has read `start_time` the pulse
looks shorter and a 1 may become a 0, before it has read the end it looks longer
and a 0 may become a 1, and one that begins in a pulse and lasts into the next
may change both.  These are the sets of `Preemption`.  `SensorDrivers` runs both
drivers in Thread1's round, with up to two preemptions of a frame.

### Neighbours and StationV2

The table's operations are `CountPing`, `AgeTable`, and `BeginRoute`, `Try` and
`TryNobody` for `SendRadioMessageRouted`.  `StationV2` puts them into `loop()`,
whose place is `phase`: receive, sample (the temperature, then the start of the
next conversion, then light and pressure), age, identify, buttons, sleep.  The
firmware is one thread, so a message being routed holds up everything else and
only the world moves.  `SetupRequest` runs `setup()` again in the middle of the
loop, as the code does; `eeprom` is the word the address is kept in.  A station
with a blank EEPROM and a held button loads 0xff as its address, like the code.
Time is which of two waits of 1200 ms are over (`waited`): since `past_millis` was
set, and since a 1-wire sensor was told to convert.

### Hub

`radio` and `main` are the program counters of the two threads, `lock` the
`write_lock` of `tft_lib.py` with its owner and depth, `inbox` what ZeroMQ has
for the main loop.  A reading is its station, its number, and two counters the
message does not carry: `n` counts the station's readings, `life` its restarts;
the properties use them to say which readings are new.  `Reading` is
`handle_packet` for messages with a number, with the two orders in which it
sends and notes them (`NotedFirst`); `Other` is everything else, including the
messages that raise.  A USB error leaves the lock taken (`Fails`), because
`tft_lib.py` releases it only on the way out of a write that worked.

### WebRelay

A client is one connection, a web socket or an event source, with a handler
object of its own.  `Open`, `SessionData` and `Leave` follow the handlers of
both kinds, `SessionDataRaises` is an answer that `json.loads` raises on; they differ in that Tornado calls `on_close` of a web socket and
never calls `close` of an event source.  `OnClose` keeps the one early exit
that matters: `remove_callback` raises `KeyError` for a callback that is not in
the set, and then the session is not closed.  `OnRecv` goes through the
callbacks in any order, and the first one that raises ends the loop, because
`WebSocketClosedError` in the `except` clause is not imported.  The callback
that keeps the last messages is one of them (`Cache`) and can be passed over
too.  `Save` empties the file before it writes it and can be cut short; an
empty file keeps the server from starting.  `missed` records who should have
had a message and did not.  The session service and Tornado's closing of a
socket whose handler raises are taken from how the code uses them.

## Runs

| run | instance | what it shows |
|---|---|---|
| `net` | 2 sensors at one address, 2 slots, 1 retry, host requests for id 2, a restart of each side, symmetry | `OwnerIffAssigned`, `SaneAddress`, `GrantIsOwned`, `OneSlotPerSensor`, `MovesOnlyToAssignedId`, `RequestLeavesInAck`, `RetryGetsSameId`; the table implements `NodeIds` (`IdsGrantedOnce`); the table fills up and refuses |
| `net_live` | 2 sensors at different addresses, 3 slots, 1 retry, a restart of a sensor and two of the gateway, no host requests | `EnrolledWhenTold` |
| `names` | 2 sensors at different addresses, 4 slots, one packet each way, one restart of a sensor, the gateway or the host | `NamedByOwner`, `NoSharedId` |
| `thread` | 2 buffers as in the code, 3 frames, 3 commands, one reset, one suspend, 2 ticks | `FramesShownInOrder`, `CommandsInOrder`, `InputNeverStalls`, `CommandsAreServed`, `FifoIsRead`, `ListensAgain` |
| `radio` | 2 peers, 2 frames, 1 message with a retry, 2 uses of `date` | `EachFrameOnce`, `AnswersGoToSenders`, `AckIsNew`, `ModeIsTheChips` |
| `drivers` | 2 samples, 2 polls, one failing transaction, one shell command; a frame with a temperature above 0 and one below, up to 2 preemptions, 15 or 60 µs late | `ModeStays`, `EverySampleOnce`, `OnePreemptionIsFound`, `MeasurementEnds` |
| `station2` | 3 bases of which 2 are in reach before and 2 after a move, 2 slots, 3 tries, 2 probes, a lost message, a restart | `ScoreBounded`, `OneSlotPerNeighbour`, `TriesTwo`, `ReadsWhatConverts`, `FindsNewBases` |
| `hub` | 1 station, numbers 0..5 with a gap of 3, 7 readings, one lost at a time, a queue of 2, a restart, a USB error | `NewReadingsPass`, `RepeatsAreDropped`, `HubStops` |
| `relay` | a local and two remote sockets, an event source, 2 topics, 2 messages, 2 crashes | `SubscribedWhenKnown`, `MissedOnlyAfterEarlyClose`, `NothingSavedIsLost`, `EventuallySubscribed` |
| `net_unconfigured`, `bus_stuck`, `relay_missed` | small | a comment says one thing, the code does another: see below |

Bounds.  Restarts, frames, commands, messages and failures are bounded by
guards that are not code and are named as bounds in the modules.

* Two sensors are what it takes to share an address or an ACK, and to fill two
  slots.  One retry gives both outcomes of a timeout, one device gives readings
  and descriptors.  In `names` nothing is retried: with a packet queue on each
  side a frame that is sent again adds states and no order of packets.
* Two buffers are the code's number; three frames and three commands fill a
  queue and go on past it.  Two ticks, where the code has five, are one that
  does not end the sleep and one that does.
* Two restarts of the gateway in `net_live` are one before and one after sensors
  have ids again; three slots leave one free.  With one sensor the previous
  sender's flags would be its own, which is why there are two.
* Two preemptions of a frame (`Late`) are the fewest that can leave the sum right
  and the value wrong, which is what the condition of `OnePreemptionIsFound`
  leaves out.  15 µs is a delay that changes a bit at some places between two
  ticks only, 60 µs one that always does.
* Two frames of the peers are one being answered and one that overwrites it;
  two uses of `date` are one in each half of a `setMode`.
* The number of readings in `hub` goes once around the modulus and beyond, and
  `GAP` leaves room for one lost reading and a repeat on each side of it.
* Three bases and two slots make a neighbour lose its slot, and `LIMIT` 1 (40 in
  the code) ages the table after the second ping of one base.  `PINGS` bounds
  the pings between two ageings by `LIMIT`; the code has a sample, and with it an
  ageing, every 1.2 s, and bases ping once a second.
* A local and a remote socket are a victim and a culprit of a missed message, a
  second remote one lets the two sessions cross; after the first message
  everything can change before the second, and after the first crash the server
  can crash again with a file that was saved twice.

Deadlock is checked where the system never stops of itself (`thread`,
`bus_stuck`, `net`, `net_live`, `station2`).  The others reach the end of a bound or stop
as the code does: a hub that has ended, a server without a file, a chip that
was not found.

### Fairness

* `SensorNetProps!Fairness`: each sensor's thread runs (its waits all have
  timeouts), and whole exchanges get through.  Of the readings that a sensor sends
  round after round some are heard, handled and answered in time, and so are
  some of the id requests that it repeats; it is asked separately for the two,
  since a radio that lost exactly the one kind would not be broken otherwise.
  What the answer says is not assumed, and frames and ACKs may be lost or late
  infinitely often.  Restarts are finitely many.
* `RadioThread!Fairness`: the thread, the kernel's timer and the host run, and
  the host configures and wakes the device.  USB interrupts are strongly fair,
  since the lock is left and taken in turns.  Frames and commands need not come.
* `StationV2Props!StationFairness`: `loop()` runs, time goes on, bases in reach
  ping again and again.
* `SensorDrivers!DriversSpec`: every I2C transaction ends, by its timeout at the
  latest.  The sensor owes no sample.
* `Hub!FairHubSpec`: both threads run and some publisher always sends again;
  without that, the main loop waits in `recv_multipart` for ever and does not see
  that the other thread has ended.
* `WebRelay!FairSpec`: the session service answers, whatever it says; browsers and the hub need
  not do anything.

### Findings

* `net_unconfigured` (`framing.cpp:42`): a request from `0xf0` is searched for
  from slot 230, past the table, and answered with 0 for ever.
* `bus_stuck` (`usbcfg.cpp:380`): configuring the device starts reception and
  no transmission.  Two frames written before fill the queue; all later ones
  are dropped, and nothing ever starts the endpoint.
* `relay_missed` (`tornado_websocket.py:74`): a socket closed before its
  session's answer leaves a callback behind that raises at every message it
  may see, and the clients after it in the set get nothing.

Found on the way, and in the models as the code has it:

* Gateway: the flags that decide between flags and UUID are those of the sender
  before (`main.cpp:194`).  After a restart of the gateway a sensor whose frames
  come after those of one that is assigned again is answered with UUIDs only,
  keeps ASSIGNED and never asks for an id, against the comment at `:370`.
  `EnrolledWhenTold` therefore has a condition once the gateway has been
  restarted; `EventuallyEnrolled`, without it, fails in the instance of `net_live`.
* Gateway: the verification UUID is read from the wrong index (`main.cpp:220`).  `set_flag` on an id that nobody owns makes the slot look taken, and
  a sensor that asks afterwards can end up with two slots.  A descriptor request
  that arrives while the last one is being served is lost (`:299`).
* Two sensors at one compiled-in address: ASSIGNED in a flags ACK heard by the
  other makes it believe the address is its own, and the host gives its readings
  the wrong name.  `NoSharedId` and `NamedByOwner` are therefore claimed for
  different addresses.
* FastBus: `Read` returns with the kernel lock (`fast_bus.cpp:128`); wake-ups of
  the radio thread are lost; a suspend that comes before the last full buffer is
  released stops reception for good, so `InputNeverStalls` is claimed up to the
  first suspend.
* Version 2: `setup()` starts a conversion and leaves `past_millis` alone, so the
  first sample after it is read in the middle of the conversion, although `:303`
  says that `past_millis` is set with it; `ReadsWhatConverts` exempts that one.
  `EEPROM.read` writes two bytes into the one of `source_addr`; a
  1-wire reading with a wrong CRC is sent, since -1 in a byte is true; a table
  full of neighbours out of reach is never aged and finds nobody.
* Host: `tft_lib.py` keeps `write_lock` after a USB error, so `HubStops` is
  claimed without one; what `set_address.py` publishes cannot be given a
  timestamp and reaches nobody in the web server (`tornado_websocket.py:67`); a
  crash between emptying and writing the file of last messages keeps the server
  from starting; a session answer that is not JSON leaves a connection open
  without a callback (`:178`).
* Hub: a number more than `GAP` below the last one counts as a wrap, so a reading
  passes for sure only within `MODULUS - GAP` of the last one that arrived, 56
  of 256; a longer silence is bridged by the two-second window.

## Proofs

The theorems hold for any constants that satisfy the named assumptions of the
modules.

* `SensorNetProofs`, the table.  `TableTypeOK /\ OwnerIffAssigned` is inductive;
  `TableTypeCorrect` and `TableOwners` follow.  `RetryIsIdempotent`: after
  `AssignNode` answers with slot i, slot i stops the same search, and no slot
  before it has been freed.  `TableImplementsIds`: under the mapping `Owner`
  each table action is a `Grant`, a `ForgetAll` or a stutter, which needs
  `OwnerIffAssigned` (a free slot has no owner).
* `SensorNetProofs`, sensors and gateway.  The table lemmas are cited for the
  composed actions.  `GrantIsOwned` is inductive together with the types: a slot
  that is not free changes owner only when the gateway restarts, and the restart
  drops the ACK.  `AddressesAreSane`, `MovesAreToAssignedIds` and
  `RequestsLeaveInAcks` rest on it.
* `SensorNetProofs`, one slot each.  `OneSlotForEach`: until the host asks for
  something or the gateway restarts, no sensor has two slots.  `OneSlot` is far from
  inductive.  `QuietInv` adds why a search finds the old slot: every slot
  between a sensor's compiled-in address and its slot is taken
  (`SearchFindsSlot`), it asks from that address only (`AsksFromHome`), because
  one that has moved is assigned and stays so (`MovedIsAssigned`) and no flags
  ACK tells it otherwise (`AckTellsAssigned`).  The condition is needed: the
  host's `set_flag` on an unused slot and a lost table each give a sensor a
  second slot.
* `StationNamesProofs`.  `NoSharedId` and `NamedByOwner` have one reason: in this
  composition no sensor is ever given an id other than its `NODE_ID`.  A request
  comes from that address, the search of `assign_node` starts at its slot, and
  the slot is free or the sensor's own, since only its owner ever asks from
  there.  `NetHome` says this of addresses, table, frame and ACK, `BusHome` of
  what is in the two queues and in the host's dictionary: packets carry their
  sensor's `NODE_ID`, and the host asks for the descriptors of an id only when it
  has a UUID for it, by which time the slot is taken, so that `set_flag` reserves
  no slot.  The one hypothesis, `HomesDiffer`, is that
  the boards are configured with different `NODE_ID`s; with equal ones both
  properties are false (see the findings).  `NamesImplementNet`: each step is a
  step of `SensorNet` or leaves its variables alone, provided that its `HostIds`
  contain every id, since here the host's commands come from what it has read.
* `RadioThreadProofs`.  The order of frames and commands in the pipe: the frames
  not yet shown are exactly those in `obqueue`, and the one an endpoint holds is
  its head.  `ThreadImplementsBus`: each step of the composition is a step or a
  stutter of `FastBus`, so the three safety properties proved of the
  pipe hold of the thread that uses it.  `ThreadTypeCorrect` adds the thread.
* `Rfm69Proofs`.  `todo` is a stack of calls, and the program counter is all of
  it.  `Follows` says which step may come after which, and `Chain` that it holds
  along the stack; there is a lemma for what each step puts on it.  On this rest
  the others.  `BusInv`, `ModeInv` and `ShellInv`: `_mode` differs from the
  chip only inside a `setMode` after the write of OPMODE; the shell's `setMode` to
  standby and Thread1's can be inside each other only in orders that the bus,
  handed over to whoever waits longest, leaves harmless.  `FrameInv`: frames in
  the FIFO, in the buffer and delivered are numbered upwards, and a frame in the
  buffer while the receiver may still return it (`Usable`) is `Fresh`.  `GotInv`:
  what `receiveDone` has returned stays in the buffer until the caller has used
  it.  `AnswerInv`: an ACK is owed exactly while one is on the stack, to the last
  who asked.  `AcksAreNew` is the action property.
* `DriversProofs`, pressure sensor.  `ModeIsKept`: as long as no
  transaction fails, from the end of the setup on the
  control register has the bits that setup put there, and so has every value that
  either thread has read and not yet written back.
  `SamplesAreSentOnce`: data is read only after the call that waited for it
  (`WaitsFirst`), and reading takes the ready flag away.  `DriversImplementSensor`
  carries both to the whole round.
* `DriversProofs`, DHT22.  `SumFindsOnePreemption`, for any frames and delays:
  without a delay a pulse is taken for what it is, wherever it lies between two
  ticks, and being late at its end only turns a 0 into a 1, at its start only a 1
  into a 0.  One preemption therefore changes at most one bit, or two adjacent
  ones the first of which was a 0 and the second a 1.  This adds to one byte, or to
  two neighbouring ones, what is not 0 modulo 256, and the sum is no longer right.
* `StationV2Proofs`.  One invariant of three parts.  `TableOK` bounds the sum of
  what pings add and ageing takes (`ScoresStayBytes`) and keeps addresses
  distinct (`SlotsAreDistinct`).  `RouteOK` is the strengthening `TriesTwo` needs:
  after one failing try the neighbour that was tried is the one left out, and
  one that was usable when the message began still has a score.  `LoopOK` is
  what the loop knows of probes and waits (`ReadsTheConverted`).
* `HubProofs`.  `Chain`: the readings of a station in the queue follow one
  another, each the one before it or a few readings on, and the last is what the
  station sent last.  `Connected`: the first of them follows the last that was
  passed on, as long as there was no exception.  A dropped reading leaves that
  as it is, because a reading that is on by fewer than `MODULUS - GAP` always
  looks new (`FilterFacts`), so one that was dropped was a repeat or of another
  life (`Dropped`).  `NewReadingsArePassed` and `RepeatedReadingsStop` follow for
  any modulus and gap.  `LossAssumption` says how many readings in a row the
  radio may lose; it is about the network and not about the code.
* `WebRelayProofs`.  `Connections` says what a connection that is new, local or
  cut off by a crash has left behind; with it `SubscribedWhenKnown` and
  `MissedOnlyAfterEarlyClose` are inductive.  `Files` relates file, memory and
  the number of messages, for `SavedIsKept`.

Only model-checked: the liveness properties `EnrolledWhenTold`,
`CommandsAreServed`, `FifoIsRead`, `ListensAgain`, `MeasurementEnds`,
`FindsNewBases`, `HubStops` and `EventuallySubscribed`.  They rest on fairness, that
is on ENABLED, which TLAPS does not support.

## Not modelled

* Register tables, encryption and power levels of the radio; payload values and
  descriptor texts; the display; plotting and one-shot tools.  They hold no
  state that another part depends on.
* The shell's `read`, which takes a FastBus command away from Thread1: a
  debugging command, and the pipe has one reader.
* Boards and USB descriptors: of the firmware's 10 500 lines some 6 000 are
  `chconf.h`, `halconf.h`, `mcuconf.h` of four boards and register headers,
  with values and no behaviour.  `NODE_ID`, the timer's tick and the number of
  buffers are constants here.
* Logger: one comparison of times and one insert per message.
* Version 2: the USB fast mode, the output that a BUTTON request sets, and the
  NRF24 library.

`PROJECT.json` gives the reason for each.

## Plan

1. Done: all parts with state of their own, their compositions up to the host's
   names, and proofs of the id table, the radio protocol, the pipe with its
   thread, the version 2 station, the hub and the relay.
2. Done: proofs of the radio driver, the sensor drivers and the names, so that
   every invariant and action property of a passing run has its theorem.
3. Composition: `SensorNet`'s link as what `Rfm69` implements, so that its lost,
   late and misdirected ACKs are derived rather than assumed; `StationNames` on
   `RadioThread` instead of bounded queues, with a proof that the pipe is those
   queues until a reset.
4. Properties: what remains true of names and ids for two sensors at one
   address; reception after a suspend.
