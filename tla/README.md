# Metronome: a TLA+ model

Metronome is the firmware of a Wi-Fi music box (ESP32, FreeRTOS, lwIP). A task
receives datagrams and puts their audio into a ring buffer; the main task takes
frames out of it and plays them. This directory holds TLA+ modules of that
path, TLC configurations that check them on small instances, and theorems
checked by TLAPS. Paths below are relative to the repository root.

## The system

| part | state | operations | interacts with |
|---|---|---|---|
| ring buffer (`src/ringbuf.c`) | memory, two pointers, `fill_cnt`, mutex, two binary semaphores, four flags | `rb_read`, `rb_write`, `rb_done_write`, `rb_unblock_reader`, `rb_abort`, `rb_reset`, counters, `rb_create`, `rb_destroy` | the tasks that call it |
| audio buffer (`src/audio_network_buffer.cpp`) | one ring of 32768 bytes | `read_audio`, `write_audio` | app_main reads, dram_task writes |
| playback loop (`src/main.cpp`) | `read`, the frame | poll, read, write out | audio buffer, audio interface (outside the repository) |
| receiving task (`src/dram_task.cpp`) | the packet being handled | connect, poll, handle one command | datagram client, audio buffer, `esp_restart` |
| datagram client (`src/udp_client.cpp`) | socket object, `m_bIsConnected`, `m_bIsMulticast` | connect, disconnect, reconnect, join, left, receive, available | sockets, lwIP |
| sockets (`src/socket.cpp`, `include/socket.h`) | handle, receive timeout, last error, three mutexes | the calls of BSD sockets, for datagrams and streams | the tasks that share an object, lwIP |
| access point (`src/basic_wifi*.cpp`, `src/if_interface.cpp`) | ESP-IDF's, plus two event handlers | start, stop, set_ipinfo, getters | ESP-IDF |
| addresses (`src/ip_address.cpp`, `include/ip_endpoint.h`) | none | parsing, comparison, broadcast | everything above |
| packet authentication (`src/audio_chunk.cpp`, `src/hash_esp32.cpp`) | none | `is_valid`, digests | nobody calls it |
| boot (`app_main` in `src/main.cpp`) | none | Wi-Fi, mDNS, start of the tasks | all |

What makes each part correct, and what is hard about it:

- *Ring buffer.* Bytes come out once and in order; nobody sleeps while he could
  go on; a call that is interrupted comes back. Readers,
  writers and the tasks that call the control functions interleave at every
  mutex operation, every unprotected flag and every semaphore operation; waits
  may run out; tokens are left over.
- *Allocation of a ring.* One of five allocations may fail, and the clean-up
  then runs on a structure that `malloc` did not clear: stale addresses in it
  release parts of other rings. Nothing else may go wrong.
- *Audio buffer and playback loop.* Frames are played once and whole; the writer
  gets space again. The guard of `read_audio` looks at a counter without the
  mutex, and at the wrong one.
- *Receiving task and datagram client.* The task keeps listening through
  reconnects and restarts, hands on every datagram at most once and in order.
  lwIP may refuse a socket, a bind or a membership; mailboxes overflow; closing
  discards what is queued; empty datagrams are not seen by `available`.
- *Sockets.* Tasks may share an object: calls of one kind exclude each other, but
  all kinds share one error field. Any call of lwIP may fail halfway through one
  of ours. `close` keeps the handle, so a descriptor is
  closed twice, and by then the number may belong to another object. A call that
  waits for a peer must not hold up the others.
- *Boot.* The receiving task and the playback loop are started on their own: the
  ring may be full before anyone reads.
- *Access point.* Calling start twice, or stop first, aborts the program. The
  event loop is a task of its own: events arrive in the middle of calls, between
  the removal of one handler and of the other, and after the object is gone.
- *Addresses.* Parsing has many malformed inputs; comparison operators should
  agree with each other.

## The modules

| module | models | kind |
|---|---|---|
| `ByteStream` | what a ring buffer promises | abstract specification |
| `RingBuf` | `src/ringbuf.c`, all calls on a ring | detailed, implements `ByteStream` |
| `RingBufCreate` | `rb_create`, `rb_destroy` | detailed |
| `AudioPipeline` | playback loop and receiving task over one ring | composition, extends `RingBuf` |
| `UdpClient` | `udp_client` over sockets, lwIP as its environment | detailed |
| `Socket` | socket objects shared by tasks: `socket`, `dgram_socket`, `stream_socket` | detailed |
| `DramTask` | the receiving task | composition, extends `UdpClient` |
| `IpAddress` | IPv4 addresses from texts | operators with a reference definition |
| `AccessPoint` | life cycle of the access point, its event handlers | composition, extends `IpAddress` |
| `RingBufProofs` | types, mutual exclusion, pointers, whole words | proofs |
| `RingBufPromiseProofs` | the refinement of `ByteStream`, the order of bytes, no lost wake-up, no mutual wait | proofs |
| `RingBufCreateProofs` | what a failed `rb_create` can harm and leak | proofs |
| `AudioPipelineProofs` | whole frames, played once; the final stall | proofs |
| `DramTaskProofs` | `UdpClient` and `DramTask` | proofs |
| `SocketProofs` | the safety of shared sockets | proofs |
| `IpAddressProofs` | the parser and the printer, for every input | proofs |
| `AccessPointProofs` | aborts, events, addresses and leases | proofs |
| `MC*` | what TLC needs on top (symmetry, the tasks' calls) | model checking |

Definitions keep the names of the source (`rb_read`, `fill_cnt`,
`m_bIsConnected`, `left_multicast_group`). Definitions marked `fault:` are not
part of the specifications: each is a variant of its neighbour with a plausible
bug, kept to see that the properties notice it.

### RingBuf

One step of a task is the code between two points where another task can change
something it reads next. Inside the critical section the size of a round and the
copy are two steps, `RLock` / `RCopy` and `WLock` / `WCopy`, because the control
calls do not take the mutex. After an empty round the code releases the mutex
and then reads `is_done_write`, the abort flag and (reader)
`unblock_reader_flag`, gives the other side's semaphore and takes its own; each
is a step (`REmpty`, `RDone`, `RAbort`, `RUnblock`, `RGive`, `RWake` or
`RTimeout`; the writer has the same without unblock). `REnd`/`RRet` and `WEnd`
are the code after the loop.

The memory is a function from offsets to bytes and a byte is the pair of a
writer and a position in that writer's data, so a lost, repeated or overtaken
byte is visible. `mem`, `p_r`, `p_w` and `fill_cnt` are the fields of
`struct ringbuf`; `sent` counts the bytes taken from each writer (the position
of its `buf`), and `out` is the history of the bytes handed to readers. The
semaphores are Booleans (binary), the mutex is its owner or `NoTask`.

Abstracted: arguments that are NULL, a wait for the mutex that fails (it waits
with `portMAX_DELAY`), and reads into a NULL buffer. `fill_cnt` is not wrapped
at 32 bits: it stays inside `0..Size` (proved), except with a reset of a busy
ring (`ResetWhileBusy`), which the runs and proofs exclude: `rb_reset` does not
take the mutex, and between the size and the copy of a reader it makes `fill_cnt`
go below 0.

### RingBufCreate

The heap is a set of allocations. `rb_create(k)` is the call in which `k`
allocations succeed and the next one fails, if there is one; the clean-up
`rb_destroy` runs in the same step. Fields that were not assigned (`Unassigned`)
hold NULL, junk or the stale address of anything in use; p_o is among them in
every failed call, since the block is in a local variable until all else has
succeeded. Releasing something that is not allocated, or twice, or the ring
itself through one of its fields, halts the program. `stale` is the history of
what failed calls found in such fields.

A failed call can therefore take parts of another ring away. `DamageIsStale`
says that there is no other way: over cleared memory (`stale = {}`) failures, at
any allocation and however often, are harmless. Addresses are not given out
again once released, so what happens later with the parts of a damaged ring that
others have got meanwhile is not modelled.

### AudioPipeline

Adds the program counter of `app_main` (`at`), its variable `read` and the count
of bytes handed to the interface. `Boot` is the start of the receiving task,
`CreateInterface` the creation of the audio interface, without which `app_main`
ends; chunks arrive from `Boot` on. `StartRead` and `Decline` are the two outcomes
of the guard in `read_audio`; `Reading` and `Writing` are the steps of
`RingBuf`. The chunks are those of the wire format, `data_size` of any small
value, 0 included; that the receiving task at present only ever passes 0 is the
subject of `DramTaskPayload`.

### UdpClient and DramTask

lwIP is the environment: a table of descriptors with an owner, the sets of bound
descriptors and of group members, a mailbox per descriptor. It may refuse
`lwip_socket`, `lwip_bind` and a join at any time. Datagrams are numbered when
they arrive; `received` and `lost` are histories. Each call into lwIP is a step:
`create_socket`, `bind`, `close`, `delete` (the destructor closes again), the
group calls, `receive`. A datagram is its number and its command, or "empty"
when it has no bytes.

`DramTask` adds where `on_task` is, the packet being handled and the history of
calls of `write_audio`. `Restart` is `esp_restart`: sockets, mailboxes and task
state are gone, the network is not. `receive` is tried only when
`available() > 0`. `available` asks lwIP with `FIONREAD`, and with
`CONFIG_LWIP_SO_RCVBUF=y` (`sdkconfig:607`) the answer counts the bytes of all
datagrams that wait: an empty one stays in the mailbox until bytes come behind
it, and is then received and parsed as a packet of zeros, which is an audio packet
without data. `QueuedIsTaken` is about datagrams with bytes in or behind them.
When empty ones have filled the mailbox, nothing with bytes can get in: the task
is deaf for good, also to the commands that would restart or reconnect it
(`DeafForEver`).

A consequence of the model that no property forbids: after a reconnect that lwIP
refuses, the task polls for ever a socket that is not bound. `reconnect` returns
false when not connected, its result is ignored, and the command that could
repair it cannot arrive any more.

The module is written for a set of clients, but the runs have one, as in the
firmware. With two, `ConnectedIsBound` fails: client A closes descriptor 0,
client B gets 0 from `lwip_socket`, A's destructor closes 0 again, B's socket is
gone.

### Socket

A call is three steps: `Enter` (autolock; no handle ends the call), the call of
lwIP (`lwip_call`, `accept`) and `Return` (the error is read once more, the
mutex released). `Call` chooses what a task wants, on any object that lives;
`get` stands for all calls under `m_bLock` that change nothing told apart here,
`connect` among them. `set_options` stores an int in the object before it asks
lwIP and keeps it if lwIP refuses; `set_options_raw` is the overload for a void
pointer, which sets the same option and stores nothing. An object has
`m_iHandle`, `m_recvTimeout`, `m_iLastError` and its mutexes. What
`m_iLastError` holds is not a value but whose call has stored it, forgotten when
that call returns, so that a foreign result is visible. `alive`, `closes`, the
owner of a descriptor and whether a `set_options` has succeeded (`set`) are
histories; objects are numbered as they are made. lwIP is a table of descriptors
with the options that decide whether a call can block, and gives out the lowest
free number; any call may fail, `fcntl` too, whose result the code ignores. A
blocking call may go on at any time, with any result, or never. `delete` is a
destructor, called when no task is in a call of the object; `close` is called by
hand at most once per object, and by the destructor again.

`UdpClient` and `DramTask` keep their own, coarser table: they have one task,
where no two calls overlap, and need mailboxes and groups instead.

### IpAddress and AccessPoint

A text is a sequence of characters, of which the digits, the dot and all others
are told apart. `ip4_address` folds the body of the constructor's loop over it;
`Says` is what a text means, defined by the positions of its dots and the powers
of ten (`TenTo`) under its digits. An empty part is 0 and leading zeros are
allowed, in both. `to_string` prints the bytes in
order; `InterfaceAsWritten` also reads back what it prints of the interface.

`AccessPoint` has the owner, who calls in any order, and the task of the event
loop. One step is the code between two ESP-IDF calls that something can come
between; `setup` is one step, since no event is posted before the Wi-Fi starts.
`desetup` is two, `desetup` and `desetup_ip`: the handlers are removed one after
the other, and the event loop may hand out events in between. ESP-IDF may refuse
any call; where the code does not look (`esp_netif_dhcps_stop`, `esp_wifi_stop`,
the option for the leases) it goes on. What ESP-IDF does is taken from how the
code uses it: a second default event loop is an error, and so is unregistering
without one; the address and the leases may be set only while the DHCP server is
stopped; its own handlers start and stop the server with the access point. Of
the configuration only an empty name matters; gateway and mask are left out.
`begun` records the starts that got beyond the name, and the stops; the
destructor is a stop.

`MethodsInOrder` has one exception, which the two steps of `desetup` make: if a
stop takes the handler for Wi-Fi events while `AP_START` is still queued, and an
address is given to a station before the other handler goes too, `on_ip_event`
runs for an object that was never told `on_start`. Then no other method ever runs.

Seen while modelling, not part of a property: `stop` leaves the event loop, so
a start after a stop always aborts; `stop` without `wifioff` leaves the Wi-Fi
on; `app_main` ignores the results of `start` and `set_ipinfo`;
`calc_broadcast` inverts the address where it should invert the mask.

## The runs

| run | question | bounds |
|---|---|---|
| `RingBufFifo` | Is the ring a byte stream with two writers racing? Do tasks never wait for each other? | ring of 5, reads of 1 and 6, writes of 2, 4 bytes per writer, finite waits |
| `RingBufControl` | Is a chunk computed under the mutex good for the copy, are both sides woken, are short reads whole words, with a third task that ends, unblocks and resets? | ring of 5, reads of 1 and 6, writes of 2 and 6, 6 bytes per epoch, all waits |
| `RingBufLive` | Do waiting tasks go on, do unblock and abort end calls? | ring of 4, write of 6, infinite waits |
| `AudioPipeline` | Is every byte played once and in whole frames, and at last, does the writer come back, what happens in a full ring? | ring of two frames, chunks of 0, 1, 3 and 6, 15 bytes |
| `RingBufCreate` | What can a failed `rb_create` do to rings in use, what can leak? | three calls |
| `UdpClient` | Do calls in any order keep the client and its socket together? | three descriptors, mailbox of 2, four datagrams |
| `Socket` | Do tasks that share sockets get their own results, timeouts and descriptors, and do their calls come back? | two tasks, two objects, two descriptors, two timeouts; set, bind, listen, accept by one task, set and receive by the other |
| `DramTask` | Does the task keep listening, and handle datagrams once, in order and eventually, empty ones among them? | the same |
| `AccessPoint` | What orders of calls abort? Do events find a living object? Do addresses and leases come out as written, and addresses as printed? | three starts or stops, three events, 11 texts |

The bounds are small but reach the interesting cases. A ring of 5 bytes with
reads of up to 6 makes every pointer wrap at different places, leaves rests that
are not a whole word, is full and empty, and needs several rounds per call. Two
writers are enough for chunks to interleave. 15 bytes through 8 wrap the ring of
the pipeline and fill it. Two objects and two descriptors are enough for a
number to change hands. The two tasks of `Socket` make the calls whose interplay
matters: one serves (raw `set_options`, `bind`, `listen`, `accept`), the other
sets timeouts and receives on the same objects. The remaining calls, `get`,
`send` and `get_peername`, change nothing of their own and differ from those in
the mutex only; they are in the module and covered by the proofs, not by the
run. `MaxBytes`, `MaxArrivals`, `MaxRings`, `MaxSockets`, `MaxCalls`,
`MaxEvents` and the single `close` by hand in `Socket` are the only bounds in
guards. A finite wait may time out or not, so it has every safety behaviour of
an infinite one.

Runs that show a disagreement between the code and what is said about it:

| run | property | what happens |
|---|---|---|
| `RingBufDone` | `DoneMeansDrained` | the reader sees an empty ring, the writer writes its last bytes and declares the end, the reader returns `RB_DONE` |
| `AudioPipelineRefusal` | `RefusedOnlyWhenShort` | a ring with more than a frame of data but less than a frame of space refuses the read; with the writer asleep this is final (`StallIsFinal`) |
| `DramTaskPayload` | `AudioHandedOver` | four bytes of a datagram are received, its data never arrive |

### Fairness and deadlock

`RingBuf` assumes that a task that can run does run, and that a task waiting for
the mutex gets it if it is free again and again: FreeRTOS keeps the waiters of a
mutex in a list ordered by priority and wakes one at each release. The semaphore
steps have no strong fairness: their tokens are taken by the waiter only, as
there is one per side in the runs with liveness. Nobody is obliged to call.
`AudioPipeline` adds the steps of boot and of `app_main`, which runs whenever it
can. In `Socket` a task in a call keeps running and gets its mutex in turn, and
lwIP ends every call but those that wait for a peer (`MayBlock`): a `send` or a
`recive` may never end, whatever its timeout, nor may an `accept` on a
descriptor that listens, blocks and has no timeout. `connect` ends, because lwIP
gives up asking. `CallsReturn` says what follows: such an `accept` holds
`m_bLock`, and it is the only thing another call can wait for without end. In
`DramTask` only the task's own steps are fair; the network owes nothing.

Deadlock is checked except where the system may really stop: `RingBufFifo`
(the writers have no more to write), `AudioPipeline` (no more chunks come and
app_main sleeps in `rb_read`), `RingBufCreate` (the program halts), `Socket` (all
objects that may be made are made and destroyed), `DramTask` (the task ends when
its first connect fails, or polls a silent socket), `AccessPoint` (the program is
aborted, or the object destroyed).

## The proofs

Every safety invariant and every safety action property that a passing run checks
is also a theorem, for any sets of tasks and any values of the other constants,
from the named assumptions of the modules (distinct tasks, positive sizes, the
single task of the firmware where the module is about that). What is assumed
beyond that stands in the theorem and is said here. Of the
inductive invariants `CopyInv` is in a run (`RingBufControl`); the others are
defined in the proof modules, next to their proofs.

### RingBuf

All theorems assume that `rb_reset` is called only when no call is running
(`~ ResetWhileBusy`); without it TLC refutes even `TypeOK`.

- `RingIsSafe`, `RingIsTyped`: `TypeOK` and `CopyInv`. `TypeOK` alone is not
  inductive: that `fill_cnt` stays in `0..Size` needs that a chunk computed
  under the mutex still fits when the copy is made. `CopyInv` says so: the mutex
  owner is exactly the task at a copy label, its chunk is at most what it wants
  and at most what the ring has (reader) or has room for (writer), the two
  pointers are `fill_cnt` apart modulo the size, and the bytes in between have
  been written.
- `ShortReadsAreWhole`. A read may end in any round, so the invariant
  `RoundsAligned` is about the sum of all rounds: it is a whole number of words
  as long as bytes are missing and no end is declared.
- `RingIsAStream`: `Spec => ImplementsByteStream`. `RCopy` maps to `Take`,
  `WCopy` to `Put`, `rb_reset` to `Restart`, all else stutters; the lemmas are
  about what a copy does to `Contents` around the end of the memory.
- `BytesStayInOrder`. The property compares each writer's bytes in `out` with
  the numbers 1, 2, ... Inductive is `StreamInv`, which is about the whole
  stream, read or still in the ring: every byte has the number of its writer's
  bytes up to it, and a writer's bytes in the stream are as many as he has sent.
  A copy by a reader moves the border inside the stream and leaves the stream as
  it is.
- `ReaderIsWoken`, `WriterIsWoken`: with a single reader (writer) it is never
  left asleep while it could go on. Inductive are `ReaderWakeInv` and
  `WriterWakeInv` (with `StillWanted`): from the moment a task has found nothing
  to move, through the flags, until it sleeps, either its token is there, or the
  ring has not changed for it, or some task is on its way to give the token. It
  fails with two readers, since one may take the token meant for the other.
- `NobodyWaitsForever`: one reader, any number of writers and a ring of at least
  a word never all sleep on each other. `SomeoneUp` says that while the reader
  sleeps and no token is there, a writer is on its way or the reader's token is
  due; it needs `FullIfEmptyHanded` (a writer moves nothing only if the ring is
  full) and arithmetic: a full ring holds a whole word.

### RingBufCreate and AudioPipeline

- `FailuresHarmByStaleFields`, `NothingElseLeaks`: for any number of calls and
  anything in the memory that `malloc` returns. Together with the types they are
  inductive (`CInv`). What a clean-up releases is its own, or stale
  (`StaleIsReleased`), and it cannot go wrong when all unassigned fields are NULL
  (`ClearedFieldsAreSafe`).
- `EveryByteIsPlayedOnce`, `FramesAreWhole`, `StallsAreFinal`: for any frame that
  fits the ring and any chunks. `RingInv` is kept because each step is one of the
  ring's or leaves it alone. What app_main has read so far is known only inside
  its call of `rb_read`: `CallOfMain` says that moved and missing bytes add up to
  a frame and that the loop is left only when nothing is missing, which holds
  because no flag is ever set (`NoFlags`). That a stall is final needs that the
  writer waits without a time limit (`WritersPatient`).

### UdpClient and DramTask

- `TypesOfUdpClient`: any number of clients.
- `NobodyListensForNothing`, `ConnectedIsTrue`: one client, as in the firmware;
  with two the double close breaks both (see above). `BoundWhileAttached` ties
  the bound descriptor to the step of the client's call; `MailInOrder` says
  where datagrams wait, in which order, and that none of them counts as lost.
- `TaskListens`, `MembershipSurvives`, `AudioInOrder`, `DiscardsAreCommanded`,
  `DeafTasksStayDeaf`: any number of datagrams, descriptors, reconnects and
  restarts. `DInv` adds which call the task may be in for which command
  (`CallOfTask`), that it has a socket object and is connected unless a bind was
  refused (`HasSocket`), and that what was handed over came before what is being
  parsed, and that before everything that waits (`HandedFirst`).

### Socket

- `SocketsAreSafe`, and its parts under their own names: the four invariants of
  the run `Socket`, for any tasks, calls, descriptors and number of objects.
  Inductive is `SInv`: a descriptor is owned by a living object with its number
  (`OwnersLive`), calls are on living objects (`CallsLive`), and a living object
  has been closed at most once (`ClosedOnceAlive`). `TimeoutInForce` is about
  the value a task has set, so the invariants are too: from the success of its
  `set_options` until it returns the task holds `m_bLock`, hence the member
  (`MemberSet`) and then the option of the descriptor too (`OptionsSet`) stay
  what it has set, whoever else wants to set them. A member and an option that
  agree are not promised: a refusal and the raw overload part them.
  `LostByDoubleClose` is its own induction hypothesis: when a close takes a
  descriptor from another object, either it is the second of the closing object,
  or that object had lost the number before, to a third that closed twice.

### IpAddress and AccessPoint

- `TextIsRead`: for every text of any length, the single pass of the constructor
  gives what the text says (`Says`), and an address. `PrintedIsRead`: every
  address is printed within 15 characters and read back as itself. The
  constructor's loop and the sum of a part's digits are recursive underneath.
  The library's induction theorems take an operator and cannot be used here;
  `Induction` takes a set instead and rests on the least element of a set of
  natural numbers (`WFMin`). With it the values of the folds and of `TenTo` are
  shown to exist and to follow their equations. The induction itself has the
  loop invariant `Parsed`: up to a place without early return, the complete
  bytes are the numbers of the complete parts, and the accumulator is the number
  of the part so far; a return is final, because a number only grows with
  further digits.
- `AbortsAreMisuse`, `MethodsRunInOrder`, `DeadMethodsRest`: any number of calls
  and events. Inductive is `APInv`: when the event loop is there
  (`LoopOnceStarted`), that nothing happens before it (`QuietBefore`), that a
  destroyed object has no handlers (`DeadIsDeaf`), that a handler is left alone
  only between the two halves of `desetup`, and then it is the one for addresses
  (`HalfDeaf`), and that the queued events continue where the methods that ran
  have stopped (`EventsInOrder`).
- `TypesOfAccessPoint`, `TrueIsServed`, `InterfaceIsAsWritten`: any texts;
  `AddressSet` says what `set_ipinfo` works on, the rest is `TextIsRead`.
- `LeasesAreUsable`: up to eleven stations (`max_connection =< 11`), since the
  code hands out the eleven addresses from one to eleven above its own.

### Only model-checked

The liveness properties `ReaderWakes`, `WriterWakes`, `UnblockReturns`,
`AbortReturns`, `FramesArePlayed`, `WriterReturns`, `QueuedIsTaken` and
`CallsReturn`: they rest on fairness, and what a task can do next (ENABLED) is out
of reach of the prover. Their safety half, that nobody sleeps on what he is
waiting for, is `ReaderIsWoken`, `WriterIsWoken` and `NobodyWaitsForever`.

## Not modelled

- The rest of boot: its calls of the access point are one order of those
  checked; mDNS is a line of calls whose failure ends it without effect on the
  rest.
- Getters of the access point, IPv6, comparison of addresses, `calc_broadcast`,
  endpoints (which silently replace ports from 9999 on by 8289), packet
  authentication: nothing in the firmware uses their results.
- The count of an aborted call. The model has what the code does: a call that
  has moved bytes before `rb_abort` returns `RB_ABORT` and its count is lost
  (`ringbuf.c:237`), against "Number of bytes read" in the header. No property
  states the count: without aborts it is the return expression itself.
- Of the sockets: the data sent and received and the values of options other
  than the receive timeout; `bind_multicast`, UDP-Lite coverage and the byte
  order of the port in `get_peername`, each one call into lwIP or one line that
  nothing in the firmware uses. `autolock_t` is outside the repository and taken
  to wait until it has the mutex.
- Scheduling priorities: the polling loop of the receiving task has no sleep
  while nothing arrives and may starve lower priorities.
- `rb_read` into NULL: with several rounds the code advances the NULL pointer
  and copies to it in the second; the model does not tell it from a buffer.

## Plan

1. Done: `ByteStream`, `RingBuf` and its proofs; `RingBufCreate`;
   `AudioPipeline` with the start of its tasks; `UdpClient`; `DramTask`; `Socket`
   and its proofs; `IpAddress` and `AccessPoint`.
2. Done: every safety property of the passing runs is a theorem.
3. Next, proofs: whether some hypotheses can be weakened, and
   several clients in `UdpClient` by saying which double close breaks them;
   an abstract client that `UdpClient` implements.
4. Left out for good: pseudo reads and the packet check, which no caller reaches.
