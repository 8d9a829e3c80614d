# wyoostcp in TLA+

wyoostcp is a small x86 kernel (derived from WYOOS) whose point is its own TCP: a
socket that sends 100000 bytes to a second virtual machine, which reads them.
This directory holds a formal model of that TCP, of UDP, of the heap they live on, of
the layers below down to the network card, and of the kernel around them (boot,
interrupts, drivers, scheduler, screen), the TLC configurations that check it, and
TLAPS proofs about the data transfer with its buffer and timers, connections, the
transport and network layers, the heap and the kernel.
Paths below are relative to the repository, whose code is in `src/` and `include/`.

## The system

### How it runs

One processor. Hardware interrupts run their handlers to the end with further
interrupts off; everything the network stack does on its own happens in two of
them, the network card's (`drivers/amd_am79c973.cpp`) and the timer's
(`drivers/timer.cpp`, 100 Hz). The main loop of `kernel.cpp` / `kernel2.cpp` runs
between interrupts and can be interrupted anywhere; it opens one socket and then
calls `Get` for ever, printing what it got on the screen, on which the handlers print
too. There are no locks.

    card interrupt  -> amd_am79c973::Receive -> EtherFrameProvider -> ARP
                                                                   -> IPv4 -> ICMP, UDP, TCP
    timer interrupt -> TimerDriver -> one TransmissionControlProtocolTimerHandler per socket
                                        Expired: SendData, CheckTimers, UpdateRtt
    main loop       -> Connect or Listen, then Get, Get, ...
    all of them     -> MemoryManager::malloc / free, amd_am79c973::Send

### Components

| component | state | operations | what makes it hard |
|---|---|---|---|
| TCP socket (`net/tcp/tcp.cpp`) | state, passive, simultaneous_open, control_sequenceNumber and its `_aux`, acknowledgementNumber, send_unacknowledged/next/window, rcv_window | Connect, Listen, Disconnect, Update, SendData, OnInternetProtocolReceived, Get | 11 states times 9 flag combinations; simultaneous opening; lost, late and foreign segments; counters shared by control and data |
| receive buffer (`tcp_buffer.cpp`) | ring of 2048 bytes, list of chunks, rcv_nxt, curr_seg_start | Add, GetFromCircularBuffer, GetUpdatedWindowSize | segments that overlap and arrive in any order; pointers never set or left dangling; Get is interrupted between two bytes |
| retransmission timers (`tcp_timer.cpp`) | table of 200 timers, backoff_factor, rto, srtt, rttvar, rtt_sample | AddTimer, CheckTimers, UpdateRtt, Expired | removal while iterating, full table, Karn's rule, integer rounding |
| heap (`memorymanagement.cpp`) | doubly linked chunks over the heap | malloc, free | long sequences; two callers at once |
| IPv4, Ethernet, ICMP (`net/`) | handler tables | dispatch, Send, Checksum | answers are made in the receive buffer; table bounds |
| ARP (`net/arp.cpp`) | cache of 128 | request, response, Resolve | Resolve spins, also inside an interrupt handler; cache full or stale |
| socket tables (`net/udp.cpp`, `net/tcp/tcp.cpp`) | sockets, freePort | Connect, Listen, Bind, Disconnect, the search for what arrives | Disconnect removes nothing; the first match wins; Connect is overtaken by its answer |
| network card (`amd_am79c973.cpp`) | two rings of 8 descriptors | Receive, Send, HandleInterrupt | descriptor ownership; Send from two contexts |
| interrupts (`hardwarecommunication/interrupts.cpp`, `interruptstubs.s`) | handler table, the controllers' lines in service | registration, dispatch, EOI | drivers share lines; handlers come between any two instructions |
| scheduler (`multitasking.cpp`) | tasks, currentTask, a frame each | AddTask, Schedule | the boot context is lost by the first Schedule; frames must not be mixed up |
| timer driver (`drivers/timer.cpp`) | timers, numTimers | Timer, Activate, tick | a tick between the two steps of a registration |
| PCI and drivers (`pci.cpp`, `driver.cpp`) | list of drivers | SelectDrivers, AddDriver, ActivateAll | which driver ends up at `drivers[2]` |
| keyboard, mouse, screen (`keyboard.cpp`, `mouse.cpp`, `kernel.cpp`) | packet buffer, mouse's place; x, y, the cells | packets; printf, clearscreen | bytes out of step; int8_t; printing from two contexts over one cursor |
| system calls (`syscalls.cpp`) | - | one call that prints | - |
| ATA, GDT, ports, loader | - | port I/O, bit layouts | - |

What would make each modelled component correct is what its runs check; see
"Runs". The hazards, each at its line, with the properties that guard against it
or the reason why none does, are in `PROJECT.json`.

## Modules

| module | models | |
|---|---|---|
| `TcpStream` | one direction of an ESTABLISHED connection, in bytes | `stream_hostile`, `stream_dup_ack` |
| `TcpStreamLive` | the same with bounded losses and fairness | `stream_live` |
| `TcpStreamProofs` | theorems about it | |
| `TcpSocket` | one socket: every operation as a function from a socket and a segment to its possible outcomes | a library, no state |
| `TcpSocketProofs` | lemmas about the operations of a socket | |
| `TcpConnection` | two hosts and a network, over `TcpSocket` | `conn_pair` |
| `TcpConnectionProofs` | theorems about it | |
| `TcpForeign` | one socket and an arbitrary peer, over `TcpSocket` | `conn_foreign`, `conn_reuse` |
| `TcpForeignProofs` | theorems about it, and about `TcpBuffer` and `TcpTimer` | |
| `TcpPhases` | what an application sees of a socket's life | abstraction of `TcpForeign` |
| `Ports` | ports and remotes, for both providers | |
| `UdpProvider`, `TcpProvider` | the two socket tables; Connect of TCP in steps, over `TcpSocket` | through `Transport` |
| `Transport` | a host that uses one or the other | `transport` |
| `TransportProofs` | theorems about it | |
| `TcpBuffer` | the chunk list at pointer level | `buffer` |
| `Reassembly` | next byte expected, and a set of bytes above it | abstraction of `TcpBuffer` |
| `TcpTimer` | the timer table, the backoff and the estimate | `timer` |
| `MemoryManager` | malloc and free | through `HeapInterrupts` |
| `HeapPromise` | what callers are promised | abstraction of `MemoryManager` |
| `HeapInterrupts` | the main loop's malloc and free in steps, handlers between them | `heap` |
| `HeapProofs` | theorems about all three | |
| `ArpCache` | the cache's operations | a library, no state |
| `Network` | card, Ethernet, ARP, IPv4 and ping, in two contexts | `network` |
| `NetworkProofs` | theorems about both | |
| `Console` | the screen, printf and the mouse's cursor | through `Kernel` |
| `Pci` | what the search of the bus finds | a library, no state |
| `Kernel` | boot, handlers, tasks, timers and controllers, over `Console` and `Pci` | `kernel` |
| `KernelProofs` | theorems about it | |

`TcpStream` takes two parts for granted that have a module of their own: the
chunk list, which it takes for `rcv_nxt` and a set `held` (that is `Reassembly`,
and `TcpBuffer` implements it), and the timer table, which it takes for a set of
timed segments of which some inactive ones wait (`LeftBehind`; `EachHasOne` and
`SweepsHalf` of `TcpTimer` are what justify it, with acknowledgements in any order, as on
the network of `stream_hostile`).

A module's type invariant (`TypeOK`; `ChunksTyped` in `TcpBuffer`, `TimersTyped` in
`TcpTimer`) is a conjunct of one of the invariants its run
checks (`StoredInPlace`, `SentInPlace`, `SharedInOrder`, `InOrder`, `RingInStep`,
`EachHasOne`, `EveryDriverIsHeard`, `OneSenderEach`); that of `TcpStream` is a theorem.

Operators whose comment says "mutant" are plausible mistakes in the operator
after them. No specification uses them; they are there so that every property
can be seen to fail when the code is wrong (`PROJECT.json`, "mutants").

### TcpStream

Variables have the names of the code. Positions are offsets in the byte stream:
the wire number of the byte at offset p is `control_sequenceNumber + p`, and the
acknowledgement has `control_sequenceNumber_aux` taken off again by `Update`;
both are 1 on the caller's side, so they cancel. Offsets do not wrap: the stream
has 100000 bytes, far below 2^32. The ring and `diff` are modulo `RingSize`, as
in the code; `Diff` wraps for negative distances, which is where the hazards are.

| action | code |
|---|---|
| `Expired` | the tick: `SendData`, then both loops of `CheckTimers`; which older timers have run out is free |
| `DataArrives` | the data part of `OnInternetProtocolReceived` (tcp.cpp 411-484) with `Add`, `Update` and the answer |
| `AckArrives` | the same case for an empty in-order segment: `Update(msg)` at the sender |
| `DataLost`, `AckLost` | the network, if `Lossy` |
| `GetBegin`, `GetByte`, `GetEnd` | `GetFromCircularBuffer`, one step per byte, so any handler may run in between |

Segments in flight are a set: IP may reorder them, and a segment that is in
flight twice is one whose second copy is sent again later. Acknowledgements are
a set too; with `Reorder = FALSE` only the oldest arrives.

`snd_buffer` is constant in this program (it repeats one 2048-byte pattern), so
its slots are named by the offset whose byte they hold. A chunk whose `next` is
uninitialised or dangling makes `suspect` true; from then on an arriving segment
may follow it, and the model stops at `wild`. Memory for timers and segments is
taken to suffice.

`TcpStreamLive` is the same next-state relation with a counter that bounds what the
network loses, so that liveness can be asked of a network that loses something.

### TcpSocket, TcpConnection, TcpForeign

A socket is a record; `cseq` and `caux` are `control_sequenceNumber` and its
`_aux`, `una` and `nxt` are `send_unacknowledged` and `send_next`. Each case of
the switch in `OnInternetProtocolReceived` is one operator, and `Received` is the
handler from the first `Update(0)` to the reset block, so a step of either
composition is one whole run of a handler. Abstractions:

* data goes in segments of one unit, and the windows never close (both are the
  business of `TcpStream`); a tick sends again at most one unit;
* the initial sequence number is always 0 in this code, so numbers are absolute;
* `una < 0` is the unsigned number wrapped below 0: a huge one;
* only `Connect` sets `send_available`, so a listening socket sends no data;
* `acknowledgementNumber` is not initialised by the constructor: it is any of
  `UnsetAcks`;
* `StartBuffer` and the chunk's malloc may fail if `MallocFails`;
* bytes that are stored but are not the segment's (see "Findings") are `NoByte` in `got`;
* a segment that finds no socket is ignored. (The code reads `socket->state`
  through a null pointer, tcp.cpp 223, and may not get as far as 233; page 0
  is ordinary memory in this kernel. The RST of 497-504 is never reached, since
  `reset` is only set where a socket was found.)

In `TcpConnection` either host may Connect or Listen at any time, so ordinary and
simultaneous openings and late listeners are all covered; the channels keep
their order, losses are bounded. In `TcpForeign` the peer may send any flags,
numbers and data in any state. That the application disconnects only what is open
(ESTABLISHED or CLOSE_WAIT) is an assumption about it: tcp.cpp 607-613 has no test, and the
only calls in the repository (kernel.cpp and kernel2.cpp, in a handler of a connection that
has just delivered data) are commented out.

### TcpBuffer, TcpTimer, MemoryManager

`TcpBuffer` follows `Add` statement by statement over a small memory of chunks:
`Walked` is the loop, `OneStep` one turn of it, up to where it returns (`Halts`);
`Insert` is the isolated chunk, `Merge` the absorption of a touching one, `Attach` the
chunk at the end, whose `next` nobody sets. Callers only pass segments that start at or
after `rcv_nxt` and end inside the window, as both callers in tcp.cpp do (445-448,
462-467). `free` turns every link to the chunk into `Unset` (`Freed`), the value of a
link that was never set. A link to freed memory is bad for good: when malloc gives the
same memory to a new chunk, the old link leads to a chunk again, but to one in another
place of the list.

`TcpTimer` follows both loops of `CheckTimers` in order (`Check` and `Sweep` are one turn
of either), with the swap that skips the moved timer, and `UpdateRtt` with its
truncating divisions. `Entered` is the timer that `SendData` adds at the start of a tick.
An acknowledgement (`AcknowledgedBelow`) sets `send_unacknowledged` to any number, since
`Update` (tcp.cpp 168) has no test: back when it was overtaken, or past what was sent. So
a segment may be taken for acknowledged and not any more between two ticks, which no timer
notices, or be unacknowledged again when its timer has gone. The history variable `seen`,
the most that a tick has found acknowledged, tells the two apart: below it segments have
arrived and may lack a timer, above it none may.

`MemoryManager` is the list of chunk headers by address; `Search` is first fit,
`Split` and `Merge` change the links as the code does, one `malloc` or `free` a
step.

`HeapInterrupts` takes the main loop's calls apart where a handler can tell: each turn of
the search (`Look`), the chunk found and not yet changed (`found`), the writes of the
split (`carving`), split and not yet marked (`mark`), freed and not yet merged
(`freed`), the writes of the merge (`merging`). Handlers call the `malloc` and `free` of
`MemoryManager` between any two. `Stands` is what the main loop takes for granted of
its pointer; a state in which a handler has returned and it does not hold, or in which one
allocated or freed during the writes, is `disturbed` and has no successor, since what the
main loop reads then is no header. Every conjunct of `Stands` is needed: without any one
of them TLC finds two callers with one block, or a pointer to nothing.

### ArpCache, Network

One host's interrupt handler and main loop above one card. The handler is not
interrupted, but the card goes on while it runs: `Interrupt` is the status read,
`Receives` one turn of the loop of `Receive` with everything the frame sets off
(the ARP handler, a ping sent back in place, a TCP answer that has to be routed
and resolved), `FoundEmpty` the loop's end, `Acknowledge` the write of the status
back to the card. A handler whose `Resolve` finds nothing is `waiting` and stays so:
its loop reads a cache that nobody else can write. The main loop opens one
connection (`Connects`, then `Main...`); since it can be interrupted anywhere, its
`Send` is taken apart into the read of `currentSendBuffer`, the read and the write
that count it (the build does not optimise), the copy, and the descriptor's return
to the card.

The stations are external: they ask for this host's address, change their card,
answer requests unless the answer is lost or the receive ring is full, and send
datagrams once they know the address, since they too have to resolve it. Hosts
behind the gateway speak through it.

### Ports, UdpProvider, TcpProvider, Transport

Address and port of a sender are one value, a remote; the host's own address is one.
`Found` and `Finds` are the loops over the tables, which stop at the first match.

| action | code |
|---|---|
| `Connect`, `Listen`, `Bind`, `Disconnect` | `udp.cpp` 109-163, 186; `Disconnect` looks for the socket only while it is null, so it does nothing |
| `OnInternetProtocolReceived` | `udp.cpp` 70-106: the search, a listening socket taking its sender, the handler's call |
| `TcpListen` | `tcp.cpp` 617-634 |
| `EnterTable`, `SendSyn`, `CountSyn` | `Connect` (574-603) in the three steps a handler can tell apart: the socket enters the table CLOSED, its SYN goes out, the SYN is counted |
| `TcpReceived` | the search (206-221), then `Received` of `TcpSocket` on the socket it found |

The remote of a socket that listens is not initialised (`UnsetRemotes`). The local
port of Connect comes from `freePort`, which goes round at `PortSpace`. A full table
(65535) is not reached. Remotes send openings, acknowledgements and resets without
data: data and FINs are `TcpConnection`'s and `TcpForeign`'s.

### Console, Pci, Kernel

`kernel.cpp` and `kernel2.cpp` have the text of the screen, the handlers and most of
kernelMain in common, with one line more in the second; `map` names either.

| action | code |
|---|---|
| `AddTask` ... `ActivateInterrupts` | kernelMain up to `interrupts.Activate()`, in its order, named by `pc`; the commented-out AddTask is done any number of times |
| `SearchPci` | `SelectDrivers` on any of `Machines`; the port of a driver is what the base address registers give, or garbage |
| `Prints` | printf and clearscreen in the main loop, each access to the screen, x and y a step |
| `StoreTimer`, `CountTimer` | the constructor of `Timer`, in the main loop |
| `Interrupt(l)` | `DoHandleInterrupt` for a hardware line: the handler in the table, the scheduler for the timer's, the EOIs, and the return into the frame that was chosen |
| `TaskComputes`, `TaskCalls` | a task between its system calls, and `int 0x80` |

In `Console` the makefile's lack of an optimisation flag matters: `x++` is a load, an
addition and a store, and `VideoMemory[i] = VideoMemory[i] & ... | c` computes the
index twice, in either order. A handler that prints is one step. What a text says does
not matter, only how long it is. `torn` and `strayed` are history.

A frame on a stack is whose code it belongs to and how far that code was. The
interrupt controllers are external: a line waits while one of higher rank on its chip
is in service. The mouse is external too: its answer to the command of `Activate` is
read there or comes as its first interrupt.

## Runs

| run | size | shows |
|---|---|---|
| `stream_hostile` | ring 4, window 3, mss 2, 5 bytes, 2 timers, losses, all orders; 1.02 million states | `RingIntegrity`, `InOrderDelivery`, `CursorExact`, `NoByteForgotten` even when overtaken acknowledgements make the sender run past its window |
| `stream_live` | 4 bytes, 4 timers, 3 losses, acknowledgements in order; 21 thousand | `SenderWithinWindow`, `WindowOnlyOpens`; with fairness `EndsOrStalls`: what is lost is made good, unless the window closes on an idle connection or the last acknowledgement of a flight is missing |
| `stream_dup_ack` | | finding, below |
| `conn_pair` | 2 units, one loss, 3 segments in flight, window 4; 9.8 thousand | `NoNeedlessReset`, `StoredInPlace`, `AcknowledgedIsStored`, `NobodyAlone`, `Opens`, `Delivers` |
| `conn_foreign` | numbers 0..3, 3 openings and closings; 58 thousand | `AcksWhatItHas`, `SentInPlace`, and `LivesThroughPhases` (implements `TcpPhases`) |
| `conn_reuse` | the same | finding, below |
| `transport` | 3 sockets in either table, 3 ports of which one is listened on, 2 remotes; 205 thousand | UDP: `OneSenderEach`, `OwnDatagrams`; TCP: `OwnSegments`, `NothingUnsentIsAcked`, `RefusedForEver` |
| `heap` | 11 units, header 2, requests 0, 1, 3; 362 thousand | `SharedInOrder` (`Tiled`, `Coalesced`, `LeavesNoTrace`), and `KeepsPromise` (implements `HeapPromise`), with handlers between the steps of malloc and free |
| `buffer` | window 8, numbers up to 9, 5 chunks; 128 thousand | `InOrder` (no chunk is lost, either), and `KeepsTheBytes` (implements `Reassembly`) |
| `timer` | 3 timers, 4 segments, 11 ticks, first timeout 3, acknowledgements of anything at any time; 170 thousand | `EachHasOne`, `SweepsHalf`, `SampleIsReal`, `TimeoutStays` |
| `network` | a station, a gateway and a host behind it, cache 3, rings 2 and 3, 2 frames sent unasked | `LastRequestCounts`, `RingInStep`; `HangsOnlyByLoss`: when a handler may wait for ever; `ConnectsInTheEnd`: what may keep Connect from getting through |
| `kernel` | a screen of 2 by 1, texts of 3, 2 cards on lines 1 and 11, 2 tasks, 1 timer; 284 thousand | `OneCursor`, `PrintsNearTheScreen`, `EveryDriverIsHeard`, `FramesAreOwn`, `NoWildTimer`, `MovesAsPushed`, `EveryTaskRuns` |

Why the bounds are enough. The ring is longer than the window by one and shorter
than the stream, so positions alias, the ring wraps, segments are cut at its end
(2048 is a multiple of neither the segment nor the window either), and with two
timers the table fills up. Three segments in flight are what a crossing SYN,
SYN|ACK and first data need; a fourth and a second loss were run for the safety
properties without a difference (125 thousand states). Three control events let
a socket open, be reset, open again and disconnect. Five chunks are first, three
apart and one between; that a chunk is freed while a link to it is left, and its
memory then goes to a new chunk, does not come about in a window of 6 or 7. Eleven ticks
are two updates of the estimate and a backoff of two. 11 units
of heap hold up to five chunks and let a handler leave a freed chunk in pieces; 17 units
with requests of 1 and 3, and 12 with 0, 1 and 2, were also run (2.4 million states),
and malloc and free in one piece with 18 units and five sizes (100 thousand).

Two frames that the stations send unasked, with the answers to the main loop's
request, fill the receive ring, let the send ring wrap, overrun and fall out of step,
fill the cache, and let a station ask with an old and a new address. (With three
frames the run has no error in 4 million states, where it was stopped.)

In `transport` three sockets are one in front, one behind and one that neither
meets, and with three ports of which Connect may use two `freePort` goes round. In `kernel`
a text of 3 passes the right edge and the last row of the small screen from every
place of the cursor; line 1 is the keyboard's, so a card on it takes the place of an
older handler, and line 11 is on the second controller; a push of 127 overflows the
`int8_t` from the second column. Two tasks and the main loop are the smallest number
with a frame that is neither saved nor restored.

`CHECK_DEADLOCK FALSE` is set where the bounds themselves end the behaviour: all
numbers used (`buffer`), all ticks gone (`timer`), all frames sent (`network`, where
the kernel may also hang, which is what two of its properties are about), all bytes
read or the connection stalled (`stream_live`), all openings counted (`transport`).
`transport` has the symmetry of the remotes, which no definition tells apart, and no
liveness.

Fairness. In `TcpStreamLive`: the timer interrupt keeps coming, the network delivers
what it does not lose, a timer that stays in the table comes to its timeout however
far it has backed off, and the main loop never stops calling `Get`; losses are bounded
by `MaxLosses`. In `Kernel`: boot goes on, and the clock interrupts again and again
(weak, both; nothing else is assumed, tasks may do nothing). In `TcpConnection`
a segment on its way is handled (weak), and a tick that has something new to send
or to forget does so, and a unit that stays unacknowledged is sent again (strong,
since the bound on segments in flight disables the tick again and again, and
since the timeout of one unit comes due only now and then). Nothing is assumed
about losses beyond their number. In `Network` the card sends what it owns, its
interrupts are served, and the main loop gets on (weak, each of them); stations
need do nothing of their own accord.

### Findings

* `stream_dup_ack`: a comment in tcp.cpp (478) says an unacceptable segment must
  be answered with an acknowledgement. A retransmission that ends exactly at the
  next expected byte is taken for an acceptable one (456: `>=`), cut to nothing and
  not answered; if the last acknowledgement is lost the sender repeats for ever.
* `conn_reuse`: a listening socket that is reset goes "back to LISTEN" (tcp.cpp
  230) with its old buffer, and `Update(0)` (228) then puts the old position over
  the acknowledgement number of the next opening.

And some facts the passing runs rest on: `Disconnect` counts a FIN that it does not send,
since it passes `FIN + ACK` as `data_seq_num` (tcp.cpp 610), where tcp.h 104 says that
control_sequenceNumber "counts the number of SYN and FIN sent"; nobody retransmits a SYN or SYN|ACK
(`Opens` holds only without loss); a simultaneous opening that loses a SYN ends in
a reset (`NoNeedlessReset`); an empty segment that starts where the window ends is taken
for one that covers the next byte (tcp.cpp 456), `offset` wraps, and a whole window of what
lies before the segment in memory is stored (462-467): it takes two hosts that both called,
one of which has just sent a whole window, so the program itself, where `kernel.cpp` calls
and `kernel2.cpp` listens, does not meet it (`StoredInPlace` is proved for it); a window that closes on an idle connection stalls
it for ever (`EndsOrStalls`). In `Network`: a handler that waits in `Resolve` hangs the
kernel, and one lost ARP response is enough; a response lost while `Connect` waits is
never asked for again; a frame that comes between the last look at the ring and the
acknowledgement (amd_am79c973.cpp 220, 152) waits for the next interrupt; a handler
that sends while the main loop is between the first read of `currentSendBuffer` and
its update (187, 188) puts two frames into one descriptor, and in one order the next
descriptor is skipped, where the card then stops. In
`HeapInterrupts`: a handler that frees all it took may come anywhere in malloc's search
and up to the first write; one that keeps a block may come during the search, and
between the find and the mark only if it does not take or swallow the chunk that was
found (nothing in memorymanagement.cpp prevents that); a handler that takes a part of a
chunk between lines 69 and 71 leaves the rest unmerged (`inPieces`). In `Kernel`: a mouse interrupt between
the two accesses of kernel.cpp 47 leaves a wrong cell inverted; the cell of a character
may be one row and one cell below the screen; a mouse whose late answer (mouse.cpp 64)
becomes the first byte of a packet is out of step from then on (`MovesAsPushed` speaks of
packets in step); a strong push right wraps the mouse to the left edge; once a task exists, the first tick ends the main loop. In
`Transport`: an answer that overtakes `Connect` (tcp.cpp 596, 597) makes the first byte
count as acknowledged before it is sent; a closed socket refuses its remote for ever.

## Proofs

Eight modules hold proofs; every theorem is about the same specification the runs
check, for every value of the constants that satisfies the assumptions named there.

`TcpStreamProofs` proves, for every ring, window, segment, stream and table size
that satisfies `ParametersAssumption` (the window is smaller than the ring, sizes
are positive), all safety properties of `TcpStream` that the runs check:

* `IInv` is the inductive invariant of the receiver: `TypeOK`, `RingIntegrity`,
  `InOrderDelivery` and `CursorExact` together with `SegmentsWereSent` (what is in
  flight or timed lies below `send_next`), `AcksFollow` (nothing is acknowledged
  before it is received), `ReceivedWasSent`, and `GetLocals` (the locals of a
  running Get). The central facts are that the cursor kept modulo the ring stands
  for `consumed`, that what is unread or held lies within one window above it, and
  that two positions less than a ring apart have different slots (`ModUnique`), so
  `Add` overwrites nothing. It needs no assumption on the network, not even on what
  the sender sends beyond its window: theorems `TypeCorrect`, `RingKept`,
  `DeliveredInOrder`, `CursorIsExact`.
* `GrantInv` orders the right edges: the sender's is not past any on its way, and
  none is past the receiver's. With it: `SenderStaysInWindow`,
  `WindowNeverCloses`, for a network that keeps acknowledgements in order.
* `TimerInv`: a segment has one timer at most and every byte the receiver lacks
  has one, unless AddTimer dropped it (`NothingForgotten`); and that cannot happen
  before `MaxTimers` bytes are sent (`TimersDropLate`).

* `StallLasts`: a window closed on an idle connection is closed for ever (`Stalled` is
  kept by every step).

`KernelProofs` proves of `Kernel`, for every screen, bus, set of lines and number of
tasks and timers:

* `CursorIsOne`: the inverted cells are the mouse's cell alone, until a handler
  comes between a look-up and its store. What is inductive is that and that `swapped`
  is what the cell `at` was found to be; `HandlerSteps` reduces the six kinds of handler
  to what they do to the screen.
* `TimersAreTame`: `stored` is `numTimers`, or one more while the main loop is at
  `count`. It needs `BootAlone` (before interrupts come on nothing runs but boot),
  since `Activate` sets `numTimers` to 0.
* `FramesKept`: `running = currentTask`, and every other task's frame is its own, as
  it was left. `ScheduleKeeps` is the step of the scheduler.
* `ScreenIsRespected`. `NearInv` says, label by label of printf, which of `x` and `y` may
  stand at the edge: a handler leaves the cursor on the screen or as it is, and what the main
  loop has read (`tmp`, `at`) was on the screen when it was read. What a handler prints is a
  function of the characters of its text; `EndLands` follows it from one to the next.
* `DriversAreHeard`. `DriversInv` follows boot: keyboard and mouse, then whatever cards the search
  of the bus finds (`SearchFindsCards`), then the timer; each enters itself in the table over
  older ones only. `TypesInv` has what `TypeOK` says of the rest, and that no line is in service
  between handlers. That no card has the clock's line is an assumption (`KernelAssumption`).
* `CursorFollows`: the packet's second byte is the push that is reported, and
  `Clamp` of a sum that fits an `int8_t` lies on the push's side of where the mouse
  was (`Int8Fits`, `ClampKeepsSide`); a sum that does not fit is negative when it is cut to
  8 bits, and the clamp makes it 0 (`WrapsToTheEdge`).

`TransportProofs` proves of `Transport`, for every number of sockets, ports and remotes:

* `OneSender`: a UDP socket that listens has heard nobody, and one that does not has
  heard its remote at most; so a datagram adds to `heard` only who already is, or
  becomes, the remote.
* `RefusalsLast`: the search returns its first match (`FirstMatches`, from the
  well-foundedness of `<` on the naturals, since `Min` chooses); an active socket that
  is CLOSED stays so, whatever segment comes (`ReceivedKeeps`, case by case through
  the handler of `TcpSocket`); entries are appended only; so who was refused is found
  by the same entry or by one in front.
* `DatagramsReachTheirSocket`: `PortsUsed` says that the sockets took the ports in turn,
  so while there are no more of them than ports two share one only if it is listened on, and
  the search can stop at no other.
* `AcksAreOfWhatWasSent`: `CountsInv` follows the counters of a socket through the three steps
  of Connect and every segment: once Connect is done, or a listening socket opened, a SYN is
  counted in `control_sequenceNumber_aux`, so what is acknowledged is data that was sent; only a
  socket that is ESTABLISHED before that (`early`) has one more.
* `SegmentsReachTheirSocket`: `OwnInv` is that with the ports in turn as above, and (`Alone`) no
  socket stands in front of a connected passive one with the same port and remote, unless
  a remote sent its SYN again (`again`).

`TcpSocketProofs` has the lemmas about the handler on which the next two modules, and
`TransportProofs`, rest: `ReceivedMoves` and its cases say how a segment moves a socket's
state and counters, others what becomes of the buffer and of the number that is acknowledged.
`CHOOSE` of the next missing byte is shown to exist from the well-foundedness of `<`.

`TcpForeignProofs` proves of `TcpForeign`, for every window, amount of data, number of openings
and closings, and whatever the peer sends:

* `AcksAreTrue`, `UnitsKeepTheirPlace`: the inductive `Inv` has, besides the types, `InStep`
  (`acknowledgementNumber` is the buffer's between handlers), `AckFits` (so is what was
  sent last, or one more while closing), `Bounded` and
  `Numbered`: a socket that sends data has counted one SYN and, until the application
  disconnects, no FIN, so `control_sequenceNumber` is 1 whenever a unit goes out.
* `SocketLivesThroughPhases`: the refinement of `TcpPhases`. Every step of the handler,
  by `Turns`, is one of the phases' or none.

And of the parts of a socket below it:

* `EachSegmentHasOne`, `TimeoutNeverVanishes`, `TicksSweepHalf`, `SamplesAreReal` of `TcpTimer`, for
  any table, segments, ticks and order of acknowledgements. `SoundTable` says that no two timers
  have one segment; each turn of either loop keeps it. Since acknowledgements go back, an inactive
  timer's segment need not be acknowledged now; it was when a tick looked (`Lapsed`: it lies below
  `seen`), and whatever lies above has its timer (`Covers`). That half of the finished timers go,
  the ones that waited included, is a count (`Paid`): a finished
  timer that the second loop leaves over was moved into a place by the removal of another. The
  timeout stays since only a sample above 0 changes the estimate, which then is 0 at no time
  again (7 `srtt` + sample is at least 8).
* `BufferIsInOrder` of `TcpBuffer`, for every window, all numbers and any memory. `InOrder` is not
  inductive, since it says nothing of a list with a bad link, which Add may still walk
  without following that one. `BufferInv` is: every link that is not bad leads to a live chunk
  further on that is next to it (`Strung`), also with a bad link elsewhere, and chunks lie apart.
  During Add (`Joining`) they lie apart but for the one that takes the segment in. That the walk ends
  within as many steps as there are chunks (`WalkedHalts`) is proved and not taken for
  granted: each step adds a chunk to those that have been passed.
* `BufferKeepsTheBytes`: the refinement of `Reassembly`. The bytes in the chunks, and in the segment as
  far as it has been taken in, stay the same in each step of the walk; what is next to
  the first chunk at its end is not held, so `rcv_nxt` is the next missing byte.

`TcpConnectionProofs` proves of `TcpConnection`, for every window, number of units, losses
and segments in flight, and whatever a fresh socket's acknowledgementNumber is:

* `NobodyIsAlone`. Inductive is `Sides`: for each host what its socket is (`Proper`), what
  its peer must then be (`Knows`), and which segments can be on their way to it (`Fits`). A
  host that is ESTABLISHED got an answer to its own SYN, so its peer left LISTEN and
  SYN_SENT before, and neither comes back without a reset (`Goes`).
* `UnitsAreStoredInPlace`, `AcknowledgedUnitsAreStored`: `StoredInPlace` and
  `AcknowledgedIsStored` whenever one host at most called, or what each has to send
  is less than a window. The first is the program's case, for any number of units; outside
  both the code stores bytes that nobody sent (see "Findings"), so the properties are false
  there. `Flows` is inductive while the condition holds: every unit on its way has
  the number one above its offset, what is stored are such units, acknowledgements on their
  way are of stored units, and (`Hears`, `Prompts`) no empty segment beyond the first number goes to
  a socket that was called.
* `NoOpeningIsResetNeedlessly`, under two assumptions: `StartBuffer` finds memory, since a
  socket without it has to reset (tcp.cpp 275-279), and `MaxLosses` is not 0, since the
  property speaks of the counter of losses, which with a bound of 0 could not move.
  `Courses` is the invariant: an opening is at one of the stages of one caller
  (`Asking`, `Answering`, `Confirming`, `Talking`, in `Calls`), of two who lost
  nothing (`Meets`), or both run and something was lost. Each stage says which segments
  are in both channels and in which order, which is all the handlers need not to reset.

`NetworkProofs` proves of `Network`, for every number of stations, cache entries,
descriptors of both rings and frames:

* `LastRequestWins`: a search of the cache finds the first entry of an address; a request
  changes that entry or appends one where there was none (`RequestGets`), and responses only
  append behind it.
* `OnlyLossHangs`: a handler waits only if the cache does not know whom it answers. `Met`: who
  knows this host is in the cache, or its own response lies in the receive ring before
  anything it sends. `MetOrLost` is inductive since losses and a full cache stay.
* `RingStaysInStep`: `Ring` is the property with two facts about the main loop: at the
  two accesses of `currentSendBuffer` (`load`, `store`) what it read is still current, and a
  descriptor being filled is not the card's. `Holds`, from which `TypeOK` follows, comes first.

`HeapProofs` proves of `MemoryManager`, for every size of the heap, of a header
and of the requests (`HeapAssumption`: a header fits the heap):

* `HeapStaysInOrder`: `HeapInOrder` is not inductive, since nothing in it keeps a chunk
  from beginning inside another or a link back from leading elsewhere. `HeapInv` is:
  `Chain` (every chunk ends where its successor begins, the links back are those forward
  reversed, no chunk begins inside another), `Parted` (no two free neighbours) and
  `Housed` (each caller's block is in an allocated chunk of its own). The search is a
  recursive function, so that it exists (along the list it is the least address that
  fits) and returns a chunk that fits (a counterexample with the greatest address has a
  successor that is one too) is proved and not taken for granted. `SplitKeepsChain`,
  `MergeKeepsChain` and `MarkKeepsChain` are the three changes of the list; `MergePairs`
  says that a merge brings free neighbours together only behind the chunk it made,
  which is why `free` looks to both sides and no further.
* `PromiseIsKept`: the refinement of `HeapPromise`, from `Housed` by `HousedApart`.

And of `HeapInterrupts`, for the same values:

* `SharedPromise` and `SharedTiling`: while nothing is disturbed, `HeapPromise` is
  implemented by both contexts together and the list tiles the heap. The invariant
  `Sound` is `Chain` and `Housed`, which need no `Parted` and so hold between the steps
  too, and `InHand`: the chunk in work is free while its links are written, and
  `Stands` when no handler runs. `HandlerKeeps` rests on `MallocKeeps` and `FreeKeeps`,
  `CarveKeeps` and `MergeBothKeeps` on the same lemmas about the list as those.
* `SharedListInOrder`: all of `SharedInOrder`, also that free chunks are neighbours nowhere but
  where a call is at work, and that a handler which frees what it took leaves the list as it
  was. Neither follows from the chunks, which split and merge, but both do from the boundaries
  between two free ones: malloc makes none that was none before, and free takes away
  both of the chunk it frees (`Took`, `Gave`). `PartedSoFar` says where, in each step of the main
  loop, there may be one; `OnlyOwn` compares the list with the one the handler found: what is
  allocated differs in its own blocks alone, and two lists without free neighbours that have the
  same chunks allocated are the same (`SameChain`).

Several definitions are recursive functions (the loops over timers, chunks and characters, the
search of the bus, the search of the heap). The library's induction theorems cannot be used with these
provers, so each is handled by the set of numbers up to which the function exists and has what
is wanted of it: it holds 0 and with n the next one, so it holds all (`SetInduction` and `Iterates` in
`KernelProofs`, `LoopRuns` in `TcpForeignProofs`, from the well-foundedness of `<`).

Model-checked only: liveness (`EndsOrStalls`, `Opens`, `Delivers`, `ConnectsInTheEnd`,
`EveryTaskRuns`), which rests on fairness and ENABLED. Outside the theorems' conditions named above,
`StoredInPlace`, `AcknowledgedIsStored` and `NoNeedlessReset` are checked at the bounds of `conn_pair`
only. `DuplicatesAreAcknowledged` and `OpensAfresh` are false. That `TcpStream` may take the buffer and the
timers as it does is argued from the theorems about both, not itself a theorem.

## Not modelled

ATA, GDT, ports and the loader (port I/O and bit layouts without shared state); the
exceptions' stubs and the layout of the saved frame; of the layers below TCP the
handler tables and their bounds (255 of 256 entries are cleared, ipv4.cpp 46), transmit
and error interrupts, `BroadcastMACAddress`, `PrintCache` and `RequestEchoReply` (which no
code calls); checksums and header layout; `Send` of UDP, which changes no state of the
provider; scan codes and mouse buttons; the copy of received bytes into the
application's buffer. Of TCP: what happens after the null pointer of a segment without
socket, a malloc without memory in `Send` (tcp.cpp 534), a tick between a socket's
allocation and its first state (57), widths (sequence numbers never get near 2^32 here,
`backoff_factor` could), the handler's callback `HandleTransmissionControlProtocolMessage`,
which nothing in the code calls. `Bind` of TCP only stores that handler. Of the heap: what is
read after an interrupt has disturbed the main loop's call (`HeapInterrupts`).

## Plan

1. Data transfer (`TcpStream`), first because everything else serves it - done,
   with its safety proved.
2. Connections (`TcpSocket`, `TcpConnection`, `TcpForeign`) - done, with the socket table
   and `Connect` in its steps in `TcpProvider`. Left: data and FINs over several sockets.
3. The parts `TcpStream` takes for granted (`TcpBuffer`, `TcpTimer`) and the heap -
   done, the heap also with handlers' calls between the main loop's steps
   (`HeapInterrupts`).
4. The network layer - done for ARP, dispatch, routing, ping, the card's rings and UDP's
   socket table. Left: the handler tables.
5. The kernel - done (`Console`, `Pci`, `Kernel`).
6. Proofs - done for every invariant and action property that a run checks. Left: liveness,
   and the composition of `TcpStream` with `TcpBuffer` and `TcpTimer` as one specification.
