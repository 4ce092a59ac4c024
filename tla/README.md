# OSC-Midi-Live in TLA+

OSC-Midi-Live reads sensors with Arduino boards, carries the readings over
serial lines to a host program, turns them into OSC messages and sends the
messages in bundles over one TCP connection. This directory models the host
program, from the script that starts it to the bytes it writes, and the firmware
that reads the sensors; it checks the models with TLC on small instances, and
proves with TLAPS, for all sizes, what matters most along the way of a reading: the
notes and toggles of the sensors, the search for messages and its tables, the
read buffer, the policy of the message buffer, the layout of OSC messages, the
ring, bundles and sender up to the channel they implement, the event loop, and
the start of the program.

Paths below are relative to the repository root (`src/` is its source
directory, `include/` its headers, `Arduino/` the firmware).

## 1. Inventory

The host program is one process with one thread. Its only concurrency is with
what lies outside: the devices that send, the server that reads, the clock, the
kernel's answers to `select()`, `read()`, `send()` and `malloc()`.

```
 run.sh, check_device.py -> main(): socket, devices
                                  |
 sensors -> Drumpad_read -> buildMessage  ===serial===>  readFromArduino
                                                            | fd_info.buffer
   main loop: build sets, select, fireCallBacks, poke       v
       |                                        parseBuffer -> matchMessage
       |                                                    v
       |                                    MessageBuffer (readings)
       |                                                    v flushMessageBuffer
       +--- pokeBundle ------------------> local_bundle (Bundle.c)
       |                                                    v sendBundle
       |                                    bundle_buffer (CircularBuffer.c)
       +--- sendAllBufferedBundles <------------------------+
                     ===TCP===> server
```

| Component | State | Operations | What makes it correct |
|---|---|---|---|
| Bundle buffer (`src/CircularBuffer.c`, `src/BundleBuffer.c`) | slots, `first`, `last`, whether it exists | create, add, pop, isEmpty | it is a queue that drops its oldest element when full; no slot is read that was not written |
| Bundles (`src/Bundle.c`) | `local_bundle`: messages, length, birth | `addToBundle`, `pokeBundle`, `sendBundle`, `startBundle` | bundles fit their buffers, messages keep their order, an old bundle leaves without new messages |
| Sender (`src/Sockets.c`) | `bundle_to_send`, `bundle_size`, `bundle_sent` | `sendAllBufferedBundles`, `createSocket` | the byte stream stays framed across short writes and errors; nothing is sent twice or lost unaccounted for; with bundles and ring it is one channel in order |
| Event loop and registry (`src/Select.c`, `src/oscLiveMain.c`) | two registries of slots, two sets, `max_fd` | register, unregister, build, select, fire | `select()` asks for all descriptors, callbacks run once and `read()` does not block, no device starves while the server reads on, slots own their memory |
| Pattern matcher (`src/PatternMatcher.c`) | the array `matches[]`, the tables of `fastMatchMessage()` | `matchMessage`, `matchPattern`; `fastMatchMessage`, which only a test program calls | the first occurrence or -1; `matches[]` is never overrun; the tables say what `matchMessage()` computes |
| Serial reader and parser (`src/ArduinoComms.c`) | `fd_info.buffer`, `buff_full` | `readFromArduino`, `parseBuffer`, `getValues`, `connectArduino` | every complete message is passed on once and in order; the buffer always has room again, whatever the device sends |
| Message buffer (`src/MessageBuffer.c`) | readings, `last_sent` | create, add, flush, send | a variable that changed gets a new value, no message repeats the last one, what is sent is near a reading; the OSC message fills the memory allocated for it and fits a bundle |
| Firmware framing (`Arduino/.../Serial_protocol.*`, the sketches) | none | `buildMessage` | frames are what the matcher looks for |
| Firmware sensors (`Arduino/.../Drumpad_read.*`) | per pin: timer, last value, statuses | seven read functions, one per kind of pin | a hit is one note with its peak, a bounce does not turn a toggle twice, a pad at rest is silent |
| String splitting (`src/StringSplit.c`) | the array of words and its size | `stringSplit`, `increase` | exactly the words; the array always has a place for the final NULL |
| Program start (`src/oscLiveMain.c`) | parameters, socket, devices | three ways to the parameters, `createSocket`, `connectArduino`, `createMessageBuffer`, `registerReadFD` | all devices of the line or none; what fails ends the program before the loop |
| Scripts (`run.sh`, `check_device.py`) | the configuration, trials | check every device, then start | a device is read with the number of variables it was checked with |
| Utilities, firmware registers, build, tests | - | printing, copying, pins | no state, see section 6 |

How they interact: `run.sh` checks the devices of its configuration one after
the other and runs the program with them as arguments; `main()` connects the
server and the devices before its loop begins. The loop calls back the read
functions of the descriptors that are ready, then the write function, then `pokeBundle()`. A
read callback runs `readFromArduino()` to its end: read, parse, flush, so that
it may call `addToBundle()` several times; the sender runs in the same turn,
after all readers. `Bundle.c` and `Sockets.c` share the bundle buffer, one as
its only writer, the other as its only reader. `max_fd` is shared by the two
registries. All calls are plain calls: interleavings arise between turns of the
loop and with the environment, not inside a call.

Hard behaviours, each listed with its line and its properties under "hazards"
in `PROJECT.json`: messages cut into any number of reads, a line tuned in in
the middle of a message, data that look like markers, noise, short writes, a
failed `send()` in the middle of a bundle, a stalled or reset connection with a
blocking socket, a full ring, an old bundle with no new message, a wall clock
that is set back, unsigned differences, `malloc()` failures whose results are
ignored, `micros()` wrapping, turns of the loop in which `select()` times out
or fails; devices that are not what they are configured as, two programs that
take the same configuration apart in two ways, tables typed by hand, and a start
that fails half-way.

The models are of the production build (`make prod`, which defines `NDEBUG`):
`DEBUG_ASSERT` is empty there, while `ERROR_PRINT` and `DEBUG_ASSERT_CRITICAL`
still end the program.

## 2. Modules

| Module | Models | Uses |
|---|---|---|
| `BoundedFifo` | what the bundle buffer promises: the abstract specification | |
| `CircularBuffer` | `CircularBuffer.c` under `BundleBuffer.c` | refines `BoundedFifo` |
| `MessageChannel` | what bundles, ring and sender promise together: the abstract specification | |
| `BundlePipeline` | `Bundle.c`, `Sockets.c`, the turns of the loop, the clock, the connection | `BoundedFifo` as its ring; refines `MessageChannel` |
| `SerialProtocol` | message format: `buildMessage()`, the pattern of `matchMessage()`, its limit | |
| `PatternMatcher` | `matchPattern()`, one step per byte | `SerialProtocol` |
| `MatchMessage` | `fastMatchMessage()` with its tables; `readOneMessage()` of `check_device.py` | `PatternMatcher` |
| `ArduinoComms` | one device: line, read buffer, parser, hand-over to the message buffer | `SerialProtocol`; `matchMessage()` through `IsFirstOccurrence`, which `PatternMatcher` establishes |
| `MessageBuffer` | one message buffer and the decisions of a flush | |
| `OscMessage` | the layout of a message as `sendMessageToBundle()` builds it | `SerialProtocol` |
| `Select` | registries, sets and the pass over the slots | |
| `StringSplit` | `stringSplit()`, one step per character | |
| `Startup` | `run.sh`'s check of the devices, and `main()` up to its loop | `StringSplit` step by step, `OscMessage`, `SerialProtocol` |
| `DrumpadRead` | the seven read functions of the firmware | |
| `CircularBufferProofs`, `BundlePipelineProofs`, `PatternMatcherProofs`, `ArduinoCommsProofs`, `MessageBufferProofs`, `SelectProofs`, `DrumpadReadProofs`, `StartupProofs` | theorems, section 4 | the module they are named after; `PatternMatcherProofs` also `MatchMessage`, `StartupProofs` also `StringSplit` and `OscMessage` |

Composition follows the code's layers: `CircularBuffer` is shown to implement
`BoundedFifo`, and `BundlePipeline` uses `BoundedFifo` for its ring;
`PatternMatcher` is proved to satisfy `IsFirstOccurrence`, and `ArduinoComms`
uses exactly that operator for `matchMessage()`. The two halves of the program
meet in `addToBundle()`: in `MessageBuffer` its calls are the sequence `out`,
in `BundlePipeline` they are numbered messages of arbitrary sizes, and
`OscMessage` says which sizes there are. `Startup` runs the steps of
`StringSplit` inside its own and ends where `Select` begins: with the devices
the loop is to serve.

### Correspondence

`PROJECT.json` maps every definition to its lines. In short:

* `CircularBuffer`: `head`, `first`, `last` are the fields of
  `struct circularBuffer`; `created` is `bundle_buffer != NULL`; `reply` records
  the last call with its return value and results, so that the refinement
  speaks about what callers see. A call that fails is an action of its own
  (`refuseAdd`, `refusePop`).
* `BundlePipeline`: `local` is `local_bundle` (messages and length), `started`
  whether it has memory, `age` what `gettimeofday()` minus `birth` gives,
  `sending` and `bundle_sent` the sender's globals, `phase` the place in a turn
  of the loop. The functions of `Bundle.c` are operators on a record of that
  state because `addToBundle()` calls `sendBundle()` and `pokeBundle()` before
  it returns: each call is one step. `send(n)` is one `send()` that took `n`
  bytes. A turn in which `select()` times out or fails changes nothing here and
  is left to `Select`. `lost` and `refused` are history. Seen as a
  `MessageChannel`, the messages in ring and open bundle are `waiting`, those of
  a bundle not yet written to its end are `sending`, and `delivered` are those of
  the bundles whose last byte the socket has.
* `PatternMatcher`: `matches` is the array as a set; the order of the array is
  the order of the starts, and at most one match completes at a byte, so that
  the array's order has no influence. `Extended` and `Begun` are the two halves
  of the loop's body.
* `MatchMessage`: the forty rows of `getPattern()` and `getLookup()` are kept as
  the numbers of bytes between the first two and the last two of a row, which is
  all in which they differ; a typing mistake in a row is a wrong number.
  `readOneMessage` says after how many skipped bytes the script accepts what the
  line brings.
* `ArduinoComms`: `buffer` is `fd_info.buffer` up to `buff_full`; `FreeSpace`
  is the `memmove()` of line 194 as it is written. `input` fixes what the line
  will bring, `arrived` how much of it was read; `n = 0` is included. A device
  that is gone ends the program (`readError`). `parseFails` and `flushFails` are
  the calls that find no memory. The device may send another number of variables
  than `VarN`, which it is configured with.
* `MessageBuffer`: `takeValues` and `lookAhead` are the two halves of the loop
  over the readings. `Differs` is the comparison as the preprocessor leaves it.
  Memory from `malloc()` has arbitrary content: `Init` leaves `buff` and
  `last_sent` open.
* `Select`: a slot has its descriptor, whether it is enabled and whether its
  buffer pointer is set; `memory` counts the blocks allocated for it. `pos` runs
  over the read slots and then the write slots. `registerFD` takes the set of
  slots where the first or the second `malloc()` fails. `pc` is "send" while the
  write callback waits in a blocking `send()` (`src/Sockets.c:113`): it returns when
  the socket has room again (`sendReturns`) or with an error (`sendFails`), and
  until then nothing else of the program takes a step. Which descriptors are ready
  is up to the environment, one independent of the other.
* `OscMessage`: the length that is allocated is one formula of the code, where the
  parts are written is another; the module has both. `RoundToFour` is the macro, which
  has no parentheses around its whole; none of its uses needs them.
* `DrumpadRead`: one pin with one of the seven functions, called once per turn of
  `loop()` with a reading and a step of the clock of any size up to a bound.
* `StringSplit`: the loop's variables under their names; `result` is the words
  found, `size` the capacity of the array.
* `Startup`: `via` is who gives the parameters (the script, the command line, or
  the question on the terminal), `stage` where the start is. The script takes an
  entry apart with `cut` (`devname`, `inputs`), `main()` with `strtok()`
  (`Tokens`), and both are modelled, because fields that are empty come out
  differently. The words of a command line are split by the shell (`Words`), those
  of an answer by the steps of `StringSplit`. A path is a sequence of letters; a
  count is one character, whose number `Count` gives, so that `Configurable` can
  ask for two digits (`ShortCount`) without spelling them. `Device` is what the
  device at a path sends and how fast; the script's check succeeds only if
  that is what it was told, and even then it may fail, since it may tune in too
  late.

Definitions whose comment says "Fault" are not part of the specifications: they
are plausible mistakes, each replacing one definition in a mutant that must
break the property it is listed with in `PROJECT.json`.

## 3. Runs

| Run | Shows |
|---|---|
| `ring` | call by call and reply by reply the ring is the drop-oldest queue (`ImplementsFifo`); no unwritten slot is handed out |
| `pipeline` | framing, order, accounting for every message, what is given up, sizes, and that messages leave; and that all of it is one channel (`ImplementsChannel`) |
| `matcher` | the first occurrence, the bound of `matches[]` and that `check_device.py` accepts the same messages |
| `arduino` | the reader and parser: room, also with a device of another number of variables; no displaced byte, every complete message once and in order |
| `arduino_noise` | finding: much noise makes the parser lose a legal message |
| `messages` | the policy of a flush: news only, values of this batch only, a new value for each variable that passed the threshold, and nothing that is not near a reading |
| `messages_threshold`, `messages_lookahead` | findings about that policy |
| `select` | registration under failing `malloc()`, and turns with timeouts and errors and with a `send()` that waits; no device starves as long as the server reads on |
| `drumpad` | silence at rest, notes apart, notes whole |
| `startup` | the words of every small string and the room for the final NULL; the loop begins with all devices or not at all; what the script checked is what the program reads; messages of the devices it lets in fit read buffer and bundles |

### Bounds, and why they are enough

* `ring`: four slots, three usable, elements that fit, fit exactly or are too
  big, three contents. Both indexes wrap, in every relative position; the ring
  is filled, overrun and emptied. The theorems cover all sizes.
* `pipeline`: bundles of 4 units with a header of 1, messages of 1, 3 and 4
  units: several small messages fill a bundle, one large one does, one is too
  large. Two bundles fit the ring and four messages come (`MaxMsg`), so that one
  bundle can be half sent, two wait in the ring, and a fourth makes it overflow.
  `age` runs from -1 (clock set back) to one past the limit, where it stays.
  `ULongRange` is 16 and not 2^64: a negative difference is above the limit
  either way.
* `matcher`: all strings over the protocol's three bytes up to length 5, longer
  strings made of a cut frame and a whole one with data bytes that are markers,
  the patterns for up to three variables, computed or from the tables, and
  two patterns that overlap themselves more than any message. `MaxMsgLen` is that
  of three variables. The theorems cover all patterns, strings and rows.
* `arduino`: one variable (frames of 6 bytes), a buffer of 16 bytes that holds
  two frames and a part, a message buffer of two readings, three frames tuned
  in at any byte with data from the markers, or up to 12 bytes of noise, or a
  device of no variable or of two (`Misfits`). Reads
  of every size, so that every split of the stream occurs, and `malloc()`
  failures in any call. In the program the buffer has 256 bytes and frames at
  most 44: as in the model, more than two frames fit.
* `messages`: two variables and up to three readings per flush, one more than
  the variables, because the code compares the reading's index with the number
  of variables. Values 0, 1 and 3 with a threshold of 2 give differences of
  either sign below, at and above it.
* `select`: two slots per registry, three descriptors for the read registry so
  that it is full while one waits, and a socket between them in number. The
  program has 20 slots; the passes treat all alike.
* `drumpad`: readings below, at and above the threshold, notes of 3 and 5 units,
  turns of 1 or 2, a clock that wraps after 12. History ages saturate at the
  period.
* `startup`: strings of one letter and one space up to length 9: five words, so
  the array of two places doubles twice. Lists of up to four entries out of
  twelve, among which are empty fields, a missing count and two entries in one
  word, with blanks before and behind; three slots in the
  registry, so that the fourth device finds it full; three trials per device. The devices send 2, 21 and 127 variables: one
  that is read, one that `matchMessage()` refuses, and one whose messages the
  read buffer does not hold. 250000 baud is a speed that the device has and the
  program does not know.

`CHECK_DEADLOCK FALSE` stands where the program really stops: a call that
returned (`matcher`), a start that ended in the loop, in an exit or in a signal
(`startup`), a device that has sent everything or is gone
(`arduino`), a bound on the messages reached, or the process killed
(`pipeline`).

### Fairness

* `pipeline`: weak fairness of the steps of the loop, as one thread that is
  scheduled takes its next step; not for the callers, who may never produce
  another message. Weak fairness of `selectFDSet` only while the socket is not
  stalled: with a stalled socket and silent devices `select()` may sleep. Strong
  fairness of a successful `send()`: an error is retried in every turn and does
  not strike every time. Weak fairness of `Tick` (time passes) and `Drain` (the
  server reads on). From some point on the wall clock is not set back: an
  operator who sets it back before every look at the bundle keeps it young
  for ever, and the code has no defence.
* `select`: weak fairness of the steps, strong fairness of an answer of
  `select()`, since signals do not interrupt it for ever. A `send()` that waits
  returns once the socket has room for what is left (`sendReturns`), but that it
  gets room is not assumed: `NobodyStarves` has it as its condition (`[]<>~Stalled`,
  no `send()` waits for ever). Without it the property fails: a server that stops
  reading keeps all devices from being read, since the socket is blocking.

No other run states fairness: `matchPattern()` and `stringSplit()` are loops over
a finite string, and what they have to do is said by safety properties.

### Findings

1. `arduino_noise`: `parseBuffer()` frees space with
   `memmove(buffer, buffer + d, d)` (`src/ArduinoComms.c:194`). Only `d` bytes
   move, so what is kept is scrambled. A legal message behind the noise is lost,
   against the comment in line 156. With little noise (`LittleNoise`) the branch
   never displaces a byte and every message is passed on: the run `arduino` checks
   it, section 4 proves it.
2. `messages_threshold`: `ABS` (`src/MessageBuffer.c:44`) has no parentheses
   around its conditional, so every fall, however small, passes the threshold.
3. `messages_lookahead`: the look-ahead stops after `var_n` readings instead of
   `n_vals` (`src/MessageBuffer.c:188`), so a flush can end without the last
   reading.

With the parentheses in `ABS` and `n_vals` in the look-ahead, the properties of
findings 2 and 3 hold on the same instance.

Observations that contradict no stated promise and are therefore no findings:

* `last_sent` is never initialised (`src/MessageBuffer.c:93`), yet it is compared
  with and sent: with 1 in that memory, a reading of 3 and a threshold of 2, the
  message that another variable causes says 1, which no sensor read. The policy
  itself bounds the harm: `SentValuesAreNear` says that no value is further from
  the readings than the threshold.
* The same policy leaves values out: with 3 told last and readings 3, 1 and 0, 1
  is sent and 0 is not. `EveryChangeReported` is about variables, not about each
  value.
* A server that stops reading stalls the blocking `send()` and with it all serial
  lines (see the fairness of `select`). The comment in `src/Sockets.c:118` knows of
  a deadlock in case of an error only.
* A second `send()` on a reset connection raises `SIGPIPE`, and the program dies
  (`sendKills`).
* `read()` returning 0 is no error in the production build; the loop then spins.
* Turns that time out or fail skip `pokeBundle()`. It does not matter while the
  socket is writable, which makes nearly every turn a successful one.
* If `startBundle()` finds no memory, `addToBundle()` writes to address 4
  (`addToNoBundle`).
* After `sendMessageToBundle()` found no memory, the rest of the flush is
  compared with values that were not sent; the next flush is sound again.
* A drum pad reports a ghost note in the first `TIME_WAIT` after power-up
  (`TIMER(x)` starts at 0) and once per period of `micros()`, 71 minutes, if it
  was hit one period before. The properties of `drumpad` say so in their
  hypotheses.
* While its signal stays high, the status of a long pad alternates between
  raising and up (`SignalAfter`).
* From a device that sends another number of variables than configured the
  scrambling of finding 1 can put together a message that was never sent. The
  check in `run.sh` is what keeps such devices out; a program started by hand has
  none.
* `run.sh` and `main()` accept devices of 21 variables and more, for which
  `matchMessage()` always answers -1: they stay silent without a word.
* `createMessageBuffer()` asks for memory with assertions that the production
  build does not have: without memory the program is killed
  (`createMessageBufferKills`).
* A device that is listed twice is opened twice, and the two descriptors share
  what the line brings: `select()` reports both, the first `read()` takes the bytes,
  and the second may wait for more. `CallbacksDoNotBlock` is about descriptors that
  are ready independently of each other.
* `include/Serial_protocol.h:24` speaks of 1 to 12 variables where `MAX_VARS` is 20;
  the comment at the macro itself says why.
* The regular expression of `run.sh` lets blanks into paths and lets entries
  follow one another without a blank; the words are then others than the entries,
  and `ServedAsSent` holds all the same, since the check and `main()` see the
  same words.
* `check_device.py` waits for ever for a device that sends nothing.
* `%256[^\n]` stores up to 257 bytes where 256 are allocated
  (`src/oscLiveMain.c:66`).

## 4. Proofs

Each proof module extends the module it is about. The assumptions on constants
are named in that module, TLC evaluates them in the runs, and all of them hold of
the program's numbers.

`CircularBufferProofs`, from `BufferSizeAssumption` (at least two slots),
`SizeAssumption` and `NullAssumption`:

* `IInv` is `TypeOK` and `LiveSlotsWritten` together with one more fact: in a
  ring that does not exist yet `first = last`, so that no slot is live. Without
  it, `initBundleBuffer()`, which sets both indexes to 0, could empty a queue
  that the abstract specification leaves alone.
* `AdvanceWraps` replaces `(i + 1) % BufferSize` by a case distinction, which is
  the only form the solver handles; `CountInRing` and `ElementsSeq` say that
  the live slots are a sequence shorter than the ring; `AddWithRoom` and
  `TakeOldest` that writing at `last` appends and moving `first` takes the
  head. Adding to a full ring is `TakeOldest` followed by `AddWithRoom`, as in
  the code.
* `TypeCorrect`, `OnlyWrittenSlotsLive` and `Refinement`
  (`Spec => ImplementsFifo`) follow, the last with one step per action.

`BundlePipelineProofs`, from `SizesAssumption` (the header is shorter than a
bundle, messages are not empty), `TimeAssumption` and `BoundAssumption`:

* `TypeOK`, `BundlesFit` and `WireIsFramed` are not inductive alone. `IInv` says
  of every bundle, in the ring, open or being sent, that it is `Filled` (a
  message, and a size between header and limit) or `NoBundle`, and of every
  byte on the socket that it belongs to a filled bundle. Without it a ring could
  hold a bundle of size 0, after which the sender would take the next one with
  nothing written, and the framing could not be told from the last byte.
* The functions of `Bundle.c` are shown once, as functions of their state, to
  stay in that set (`sendBundleFits`, `pokeBundleFits`, `AddMessageFits`,
  `RingTakes`); the steps that call them cite these lemmas.
* `sendFrames` is the step of the framing: the bytes that one `send()` adds
  continue where `bundle_sent` stood. `getTopFits` is the other one: a bundle
  gives way to the next only when its last byte is on the socket, so that
  `bundle_sent = 0` begins a bundle behind a whole one.
* Order and places: `InOrder`, `LostAreOldest` and `ExactlyOnePlace` follow from
  one invariant, `OrderInv`. It says of all places in the order in which a message
  passes them (given up or refused, written, being written, ring, open bundle)
  that the numbers of the messages increase through them, and that every number
  below `next` is accounted for. Increasing numbers are what makes places
  disjoint, so that a message is in at most one; the accounting says at least one.
  `AlwaysOrdered` carries it through the functions of `Bundle.c`, which may close
  a bundle, drop the oldest of the ring and begin a new one in a single call.
* `PipelineIsChannel` proves the refinement `Spec => ImplementsChannel`. The
  mapping flattens the bundles to messages, and a call of `addToBundle()` can be
  one message more in the channel, with any number of its oldest given up.
  `Waits` says what the ring and the open bundle are as one sequence, `Gives` that
  a function of `Bundle.c` keeps that sequence but for messages given up at its
  head; both compose along the calls that `addToBundle()` makes (`GivesTwice`).
  Flattening is recursive in the library; the lemmas `FlattenAppend`,
  `FlattenHead` and `FlattenConcat` say what it does with a bundle at either end,
  and are all that the steps use. There is one lemma per step of the code.

`PatternMatcherProofs`, from `PatternsAssumption`, `StringsAssumption` and
`MaxMsgLenAssumption`:

* The invariant (`LoopInv` in `IInv`) is that in the loop `matches` is exactly the set of proper
  prefixes of the pattern that end before byte `i`, and that no occurrence ended
  before. `FindsFirst` alone says nothing until the call returns, so it needs
  this description of the loop.
* `RoundExtends` says that one pass of the body carries the description from `i`
  to `i + 1`; `CompleteIsOccurrence` that a match of full length is the first
  occurrence.
* `FindsFirstAlways` and `MatchesFit` follow. The second counts: the matches
  under way have different lengths, each shorter than the pattern.

* `TypeCorrect` is that the indexes of the C loop stay inside string and pattern.
* For `MatchMessage`: `RowLengths` reads the forty numbers of the tables;
  `TablesAreRight` says that row by row they give the pattern that `matchMessage()`
  computes; with `FindsFirstAlways`, `FastFindsTheSameAlways` follows. Of these tables there
  is only the proof, no run: only a test program uses them.
  `CheckAgreesAlways` needs `OccurrenceBytes`: an occurrence of the pattern is
  start, start, separators, end, end, which is what the script compares byte by
  byte.

`ArduinoCommsProofs`, from `VarNAssumption`, `BuffSizeAssumption` (a message fits
the buffer) and the two on the message buffer and on the devices, which may send
any bytes: `RoomAtEnd` strengthens `RoomForMessage` to the time between the end
of the parser and the flush. `FreedSpace` counts what the `memmove()` leaves:
whatever bytes they are, there are few enough. `TypeCorrect` and `NeverDeaf` hold
for misfit devices too.

`NothingDisplaced` (`BufferIsSuffix`) and `NoneOverlooked` (`ReadingsComplete`)
rest on one more invariant, `InStep`:

* The buffer is the end of what was read (`Suffix`), and it begins with the first
  byte of the line or with that of a whole frame, number `h`. Exactly the frames
  before it have been passed on or found the message buffer full, and when the
  parser is done, frame `h` has not arrived (`PassedOn`).
* The step of the parser needs that the first message in such a buffer is frame
  `h`. `EndsOnce` is about the protocol: data bytes may be any bytes, but two end
  bytes in a row stand only at the end of a frame, since any two of its data bytes
  have a separator between them. So no message begins in one frame and ends in the
  next (`MessagesAreFrames`).
* When no message is left, the buffer holds at most the bytes before the first whole
  frame and a message less one byte. By `LittleNoise` room for a message
  remains, and `parseEnd` moves nothing (`NoneIsLeft`).
* `LittleNoise` is what the proof needs, and the sizes of the run alone did not
  show all of it: the rest of a cut frame counts like noise, noise must not contain a
  message, and the device must not be one that `matchMessage()` refuses.

`MessageBufferProofs`, from `VarNAssumption`, `ValueAssumption`,
`ThresholdAssumption` and `CapacityAssumption`:

* A flush takes two steps per reading, and its properties speak about its
  end or about the step before. `IInv` adds what holds between them: `InBatch`
  (the look-ahead is only entered with a reading), `LastOfAll` (`last_sent` is the
  last of `out`), `Prepared` (`tmp` differs from `last_sent` exactly in the
  variables of `changed`, each beyond the threshold) and `Noticed`, which is
  `EveryChangeReported` for the readings seen so far.
* `Tracking` says that once a reading was seen each value of `tmp` is near one:
  what is not taken from a reading did not differ from it by more than the
  threshold (`NearOrDiffers`). It makes `SentValuesAreNear` hold for any content of
  `last_sent` and after messages that could not be sent.
* `Prepared` is what makes `EveryMessageIsNews` hold at the moment a message
  leaves. It needs `DiffersFromOthers`: also the macro without its parentheses
  finds no difference between a value and itself.
* `OnlyThisBatch`, `MessagesAreNews`, `ChangesAreReported` and `ValuesAreNear` follow, for every
  threshold and every number of readings, more than variables included.

`SelectProofs`, from `MaxFdsAssumption` and `FdsAssumption`:

* `IInv` says where a turn stands. `Asked`: before `select()` the sets are the
  registered descriptors and `max_fd` is above all of them, although it was reset
  and rebuilt by two passes. `Pending`: what was reported is ready until its
  callback begins, also while the writer waits in `send()`. `Served`: `fired` has exactly the reported slots before
  `pos`, once and in order. `OncePerRegistry` is needed because the sets know
  descriptors and the pass goes by slots: with a descriptor in two slots the second
  callback would block.
* `NothingLeaks` is over every way the two `malloc()` of each slot can fail in the
  course of one registration. `AsksForAll`, `ServesAll` and `NeverBlocks` (an
  action property: the callback of this step is for a descriptor that is ready
  now) follow.

`DrumpadReadProofs`, from `ReadingAssumption` (among it a threshold above 0, which
a reading of 0 does not reach) and `TimeAssumption` (notes have a length, and the
clock more values than a note and a turn together):

* Everything is about the time before the first wrap of the clock, as the
  properties are. `ClockIsUptime` says that the clock then is the time since
  power-up and that the timer lies behind it, so that the difference of unsigned
  numbers that the code computes is the time that has passed
  (`TurnOfTheClock`); no property holds without it.
* `TimerIsHit`: a timer that is not 0 was set by a reading above the threshold, and
  none can be longer ago than that. With `SoundsInWindow` (a pad reads something
  only for the length of a note after its timer) this is `SilentUnlessHit`. A timer
  of 0 is why the property begins after the first note length.
* `HeldInWindow`: from a hit on, for the length of a note, the value returned is
  the peak, and above the threshold; so it never falls to 0 in between, and the
  button of a toggle stays down, which is what makes one of all that bounces.
  `BeganWithHit`: a note or change after the first note length began with a hit, and
  the timer may have moved on since, when the note was prolonged, but not back.
  `NotesAreApart` and `NotesAreWhole` follow step by step (`PadBegins`,
  `DrumpadSteps`, `AToggleSteps`).

`StartupProofs`, from the assumptions of `StringSplit` and `Startup`, among
them that no device has the empty path (`DeviceAssumption`):

* For `OscMessage`: `RoundsUp` is arithmetic about the macro; `LayoutIsOscAlways`
  says that the formula that allocates and the walk that writes agree for every
  address and number of variables, `MessagesFit` that `addToBundle()` never refuses
  a message of the program.
* For `StringSplit`: `RoomForNull` is one place, and not inductive; `TwoPlaces` is:
  in the loop there is a place for the word that the next character may end and
  one for the NULL, because the array doubles as soon as only one is left.
  `FoundSoFar` says that the words found are the first words of the string, those
  that begin before `w_start`; at the end that is all of them
  (`FindsAllWordsAlways`). Words are defined as the pieces of a string counted
  from the left (`Nth`), and `NthIs`, `NthInOrder` and `PieceFrom` say that this
  counts each piece once and in order.
* For the start: `Scripted` says what the script has made sure of for the entries
  checked so far, `Served` that the devices so far are what `main()` takes out of
  the words so far, `NotBegun` that the split has not started before its stage.
  `ServesAllAlways` is `Served` at the loop. `ServedAsSentAlways` needs more: on a
  word that the script has checked, its `cut` and the `strtok()` of `main()` give
  the same name and the same count. They do not on every word: empty fields
  come out differently, and it is the device behind the name, which the check
  has talked to, that excludes them.
* `DevicesFitAlways` adds that two digits bound the count. Its hypothesis is that
  the read buffer holds a message of 99 variables (202 bytes of 256).

A proof about what a loop or a recursive definition does for every input is by
its smallest counterexample (`WFMin` over the naturals, `Min` of a set of positions)
where one would use induction; definitions that would need a sorted or
filtered sequence (`Pieces`, `Arrived`) are stated by position and by flattening.

Only model-checked: liveness (`EveryMessageLeaves`, `NobodyStarves`), which the
proof system does not do under fairness. Every other property of the passing runs
is a theorem.

## 5. What is planned

The ring came first, as the two halves of the output side share it, then the
bundle pipeline, which is where messages can get lost; then the input side from
the matcher to the policy of the message buffer; then the loop that drives both,
the firmware, and the start; then the proofs. What is left:

1. Compose `ArduinoComms` and `MessageBuffer`: several devices with their own
   `last_sent`, and the calls of `addToBundle()` as the abstract output that
   `BundlePipeline` takes as input.
2. An abstract specification of that composition (of the readings a device sends,
   in order, some are left out: those that change nothing, and those that find the
   message buffer full), and its refinement as a theorem.

## 6. What is not modelled, and why

* The flags that `connectArduino()` writes to the terminal, and the speed codes
  of `termios`: the kernel's business. Which numbers are speeds is modelled.
* What `createSocket()` does on its way (one `inet_pton()`, one `connect()`): the
  start knows only whether the server answered.
* The values in OSC messages as bytes (floats), and the header and timestamp of a
  bundle: sizes and places are kept, contents are not.
* `SCALE()`, which maps readings to bytes: `ArduinoComms` takes any bytes as
  readings. The macros that write pin and prescaler registers: no state of the
  program.
* The limit of 256 characters for the answer to the question for devices: in the
  model lines are short.
* Names of descriptors: `registerFD()` copies them without the terminating zero
  and an error message prints them just before the program ends.
* A device with no variables (`var_n` 0) in `ArduinoComms`: the operator has to
  ask for it. `Startup` has the counts of the script and of `atoi()`, 0 included.
* The copy of a word in `stringSplit()` finds its memory; the code does not ask.
* The dialogue of `run.sh` that makes the configuration, its calls of `make`,
  `copyright_notice.sh`, the Makefile: building. The programs under `src/test`:
  run by hand; read for what they expect.
* `Debug.c`, `MemoryManipulation.c`, `CopyrightNotice.c`: printing, and copying
  that compares what it copied.
