# A TLA+ model of kos-tool

kos-tool loads a program into a console (Dreamcast, GameCube, Wii, PlayStation 2,
PSP, Xbox), starts it, and then serves the program's system calls from the host's
file system.  It is two programs: the host tool (`host/src`) and the client, a
loader that stays resident on the console (`client`).  They talk over UDP or over a
byte stream (serial line, USB Gecko, PSP USB).  The repository has no automated
tests; the protocols are exercised by hand with the programs of `client/examples`.
This directory models those protocols, and the drivers under them, checks them with TLC
on small instances, and proves the invariants of all its components but one with TLAPS
for all instances.

Contents: 1 the system, 2 the modules, 3 the runs, 4 bounds and fairness, 5 the
proofs, 6 what the code does against its comments, 7 further observations, 8 what is
not modelled, 9 the plan.

## 1. The system

`docs/architecture.md` names three boundaries: `transport_ops_t` on the host
(network, serial, usb), `client_transport_ops_t` on the client (network, serial) and
`target_ops_t` (one per console).  Along them the parts are:

| part | state it keeps | operations | talks to |
|---|---|---|---|
| network syscall exchange, `network_syscalls.c` | request number, saved request, deadline, `syscall_retval` | one per system call, `kos_syscall_wait_for_retval`, `progexit` | host console loop, by UDP |
| duplicate-request cache, `dedup.c` | one captured call: number, packets, time | replay, staleness test, capture | console loop, `network.c` |
| host console loop, `console.c` | open directories, GDB socket, the call being served | one handler per call, for each transport | the host's files |
| bulk transfer, `network.c`, `upload.c`, `download.c` | map of received chunks, retry counters | `send_data`, `recv_data`, `send_and_wait` | client commands |
| client commands, `commands.c` | `bin_info` (address, size, map), `running` | `cmd_*` | guest memory |
| serial exchange, `serial_syscalls.c`, `serial_transport.c` | compression memory; on the host `ser_link_dead` and the directory table | one per system call; command loop | byte stream |
| DHCP client, `dhcp.c`, `entry.c` | offer, ACK/NAK flags, lease countdown, renewal threshold | `dhcp_poll`, `dhcp_tick`, `dhcp_go`, `dhcp_renew`, `handle_dhcp_reply` | the adapter's receive loop |
| polled adapters, `nvnet.c`, `rtl8139.c`, `lan_adapter.c`, `bba.c`, `enc28j60.c`, `w5500.c` | receive ring, read position, receiver on or off, `escape_loop`, `timeout_loop` | `loop`, `rx`, `tx`, `init`, `start`, `stop` | all of the network client |
| PlayStation 2 SIF broker, `sif_broker.c`, `ee_sif.c` | session, operations in flight, deferred frees, the one receive buffer | one per broker call, `ps2_sif_broker_isr` | the guest, the IOP |
| PlayStation 2 network link, `iop_smap.c`, `smap_irx.c` | two rings in IOP memory, staged releases and submissions, sequence numbers | `poll`, `send`, flushes; RPC handler and pump thread on the IOP | the Ethernet chip |
| PSP USB, `usb_dev.c`, `transport/usb.c` | endpoint 0 phase, bulk descriptors, byte rings, the rest of a packet | `usb_dev_poll`, ring operations; open, read, write | `serial.c`, `serial_transport.c` |
| Wii sockets, `ios_net.c`, `net/adapter.c` | one request buffer, stack and socket handles, link watch, settle pause | `wii_ios_net_*` over `ipc_sync`; `wii_adapter_loop`, `wii_poll_link_change` | IOS, the network client |
| sessions, `main.c`, `firmware_update.c`, `discover.c` | transport handle, negotiated version and capabilities | search, connect, update and reconnect, upload, execute, console, reset | client commands |
| file formats, image tools, target support, display | (none shared) | conversions, start-up | |

PROJECT.json lists every part with its files, whether it is modelled, and why not.

What makes the code hard:

* One thread on the client, but nested receive loops.  `bb->loop(0)` handles whatever
  arrives until somebody sets the global `escape_loop`: a system call's RETVAL, an
  accepted DHCP reply, or a time-out.  Commands of an earlier exchange are served in
  the loop of a later one.
* UDP without a session: requests, replies and bulk packets may be lost, repeated or
  overtake each other, each leg has its own time-outs and retries, and several answers
  are recognised by their name only.
* A host inside a bulk leg does not listen for requests.
* On the byte stream nothing delimits messages; each case of each call must be read
  exactly as it was written, and a line that is unplugged makes reads fail in the middle.
* A program runs inside the receive function that handled its EXECUTE: while it runs the
  same ring is polled from within, and when it ends the ring is a new one.
* On the PlayStation 2 two processors share memory that one of them caches, and an
  interrupt and a polling loop wait for the same reply.
* On the PSP nothing runs unless the loader polls, and a program does not.
* On the Wii every request to IOS goes through one buffer, is recognised by its address,
  and may be abandoned while IOS still holds it.
* The tool may be interrupted at any point and started again, and a loader that is
  replaced may come back elsewhere or not at all.
* Leases run on a countdown that stands still in nested loops and is set from the
  clock only when a program returns.

What makes each part correct: a call is carried out at most once and returns its own
result or fails, and it does return; the program's exit is noticed.  An upload whose
windows were all acknowledged is in memory, a file that is written out is the memory it was read
from, and both come to an end.  The two ends of a byte stream stay in step and a dead
line ends the session.  A
program is started only from a complete image, its calls reach the tool that started it,
and an update that is reported has taken place.  Frames are handled once, in order, and
none is left in a ring; memory of the IOP is neither lost nor freed twice; every
operation on a shared link completes, with its own reply.  The client uses only an address it was granted, does not
forget a lease, does not flood the network, and gets an address when one can be had.

## 2. The modules

| module | models | against |
|---|---|---|
| `Rpc` | what a guest is promised of system calls (abstract) | |
| `NetSyscall` | system calls over UDP with retransmission and the cache | `network_syscalls.c`, `commands.c`, `console.c`, `dedup.c`, `network.c` |
| `NetSyscallProofs`, `NetUploadProofs`, `NetDownloadProofs`, `DhcpProofs`, `SifBrokerProofs`, `SmapRingProofs`, `SessionProofs` | theorems about the modules they are named after (section 5) | |
| `DeviceProofs` | theorems about `NicRing`, `IosNet` and `UsbPipe` | |
| `Channel` | a datagram channel, ordered or not, of bounded capacity (external) | |
| `NetUpload`, `MCNetUpload` | `network_send_data` for a list of sections | `network.c`, `upload.c`, `commands.c` |
| `NetDownload`, `MCNetDownload` | `network_recv_data` for a list of transfers | `network.c`, `download.c`, `console.c`, `commands.c` |
| `SerialConsole`, `MCSerialConsole` | all system calls over a byte stream | `serial_syscalls.c`, `cdfs_syscalls.c`, `serial_transport.c`, `console.c` |
| `Dhcp` | getting and keeping an address | `dhcp.c`, `entry.c`, `net.c`, receive loops of `w5500.c`, `bba.c` |
| `Session` | invocations of the tool against one console, from search to exit code | `main.c`, `discover.c`, `network.c`, `firmware_update.c`, `upload.c`, `commands.c`, `net.c` |
| `NicRing` | the receive rings of six adapters with programs nested in them | the adapters' files, `commands.c` |
| `SifBroker` | the broker's calls, its interrupt, the polling SIF stack | `sif_broker.c`, `ee_sif.c` |
| `SmapRing` | the rings between EE and IOP, boot of the IOP module | `iop_smap.c`, `smap_irx.c`, `iop_bootstrap.c`, `smap.c` |
| `IosNet` | IOS requests, bring-up of the socket, the adapter's loop and its cable watch | `ios_net.c`, `net/adapter.c`, `main.c` |
| `UsbPipe` | enumeration, the byte pipe, and the serial protocol's turns over it | `usb_dev.c`, `usb.c`, `serial.c`, `serial_transport.c` |

Definitions keep the code's names where they can; PROJECT.json maps each one to its
lines.  Definitions with a lower-case suffix (`Scan_noRestart`) are wrong variants of
the definition they precede, each a slip the code could have made; none is part of a
specification, they are there to show that the properties notice them.

**NetSyscall.**  The guest issues calls one at a time (`Syscall`), the host's loop
takes requests (`HostRecv` and its cases: replay, drop as stale, serve), runs a bulk
leg of one chunk where the call needs one, and answers.  A call that only fetches is
`simple`, one that pushes into guest memory `push` (read), one that pulls from it
`pull` (write).  Both networks are sets of datagrams; a datagram is left in the set
when it is delivered if `NetDups`.  The client's clock is reduced to its place between
the two deadlines the code compares (`fresh`, `bumped`, `overrun`, `expired`), the
cache's age to units of the retry interval.  The result of the k-th execution is k, so
that a wrong result can be told from the right one.

**NetUpload, NetDownload.**  Data is abstracted to chunks (upload) or units with the
number of the transfer that read them (download); addresses keep their modulus where
the code relies on unsigned wrap.  Sections are sent in windows as for the W5500, or in
one if `Win` is large.  Every case of the recovery after DONEBIN is an action:
answered, unanswered with a reload, unanswered and given up.  The download has the
streaming loop, the map, the re-request passes and their two limits; its caller is
`download()` if `Checked` and `net_syscall_write` otherwise.

**SerialConsole.**  Either side is a list of instructions (write tokens, read a word,
read an echo, read a block, operate) built per call from the code's branches: with or
without compression, empty buffers, refused sizes, full directory table.  A token is a
byte, a word or a block body, so that reading a value as something else than it was
written is visible.  `LinkDies` cuts the stream anywhere; what arrived can still be
read, later reads fail, and the handler runs to its end as the code does.

**Dhcp.**  `pc` is the place of the single thread: `main`, the nested loops `offer`,
`ack` and `renew`, and the straight-line parts of `dhcp_poll` (`check`) and `dhcp_go`
(`attempt`, `done`).  `Receive` is possible in all four loops and also after
`escape_loop` is set, because the drivers empty their ring before they look at it.
`timeout_loop` keeps its sign only.  The clock is the number of seconds to
`lease_expiry_rtc`.  The server offers any address, acknowledges or refuses requests,
and remembers what it acknowledged last (`binding`).

**Session.**  One record for the tool (`host`), one for the console (`con`), an ordered
channel each way.  `host.at` is the leg under way: `FIND` (discovery), `VERS` and `CAPS`
(handshake), `SBIN` (the probe of a legacy loader), `LBIN` and `DBIN` (a transfer),
`EXEC`, then `console`; `settle` and `updated` are the two ways out of an update.  The
phases call one another as in the code (`Open`, `Connected`, `AutoUpdate`, `Command`,
`Loaded`).  A transfer is its first and last command and a system call one exchange, as
`NetUpload` and `NetSyscall` have the rest.  Each opening of the link has new sockets;
`calm` remembers whether anything was lost since the invocation began.

**NicRing.**  `stack` holds the receive functions under way: the main loop's, and that of
a system call made by the program the first one is running.  Each driver's order of
copying a frame, handling it, giving its place back and clearing the interrupt is kept,
because that is where they differ; a ring is positions of one frame each.

**SifBroker.**  `g` is the guest inside a broker function, `Isr` the interrupt, which may
come between any two of its steps unless a poll scope masks it.  The IOP answers requests
in any order.  History variables record which request completed which operation.

**SmapRing.**  `mem` is what the IOP has written and `vis` what the EE can see of it;
`WriteBack` moves words over in order, a flush all of them.  The pump thread is split
where the RPC thread may come in between.  Frames are numbered.

**UsbPipe.**  The loader and the tool are lists of operations on the pipe, as in
`SerialConsole`; the driver is `usb_dev_poll` split into its services (global events,
endpoint 0, bulk out, bulk in).  Bytes are numbered in the order they are sent.

**IosNet.**  `at` is the request being made or a place of the loop, `ipc` how far
`ipc_sync` is with it.  Every request of the bring-up is a step of its own and may be
refused.  IOS is external: it takes a request, and later writes the result into the same
buffer and posts its address, whatever the loader has put there since.  `odd` remembers
that a call was abandoned, `own` that every answer taken was that of its request.

## 3. The runs

All runs pass (state counts are distinct states):

| run | instance | shows |
|---|---|---|
| `syscall_safe` | 3 calls of all kinds, numbers that wrap, duplication, reordering; 497k | `SyscallInv` (at most once, in order, own result, and what makes it inductive), `ReplayAnswers` (a repeat within the window can be answered), `KeepsPromise` (refinement of `Rpc`) |
| `syscall_returns` | 1 call, 2 losses, 2 tries per command; 252k | `EveryCallReturns`: no wait of a lossy adapter hangs, even while the host is in a bulk leg |
| `upload` | 2 sections of 2 and 3 chunks, windows of 2, consoles with room for 1 or 2 chunks, 3 losses; 198k | `UploadInv` (a reported success is in memory but for the windows left in a failed recovery, and what makes it inductive), `UploadEnds` |
| `download` | 2 transfers of 3 units from disjoint memory, reordering, 2 losses; 172k | `DownloadInv` (what is written out is complete), `WrittenIsFresh`, `TransfersEnd` even if the client is gone |
| `serial_calls` | all pairs of calls, with and without compression, a line that may die; 492k | `SerialInv` (both ends in frame, own answers, data intact, directory handles agree), `CallsReturn`, `ConsoleEnds` |
| `dhcp` | 2 addresses, leases of 4 s, 1 loss, 1 late answer, 2 refusals, 1 program, 1 cable pull; 944k | `LeaseInv` (a running lease is tracked), `Agreed`, `RenewPaced`, `Recovers` |
| `session` | 2 invocations of 6 kinds, 2 losses, 1 late answer, 1 interruption, loaders old and dcload; 794k | `SessionInv` (what runs is whole; who serves is who the console talks to), `UndisturbedWorks` (an undisturbed invocation does its job, updates included), `ToolEnds` |
| `nic` | six adapters, rings of 4, 5 frames, programs that return, restart the loader or drive the chip; 635k | `NicInv` (the receiver is on and the driver reads where the chip writes), `Orderly` (each frame once, in order), `NoneStranded` |
| `broker` | 3 clients, 2 packets, 2 heap blocks, 4 calls, 1 failed transfer, 1 unasked command, 1 crash; 291k | `BrokerInv` (heap accounts, image kept, no callback into a guest that is gone), `OwnCompletion`, `ReadsOwn` (until a read gives up before its data came), `Completes`, `CallsReturn` |
| `smap` | rings of 3 and 2 slots, batches of 2, 4 frames, 1 failed remote call; 238k | `RingsInv` (slots and frames accounted for, bound only to a registered server), `ReadsInOrder`, `TxRingKept` (no frame sent twice, no busy slot written), `SlotsFreed`, `FramesRead` |
| `wii` | both interfaces, 1 refused request, 1 abandoned one, 2 changes of the cable, 2 datagrams; 208k | `IosInv` (own answers, until a call with a time-out is abandoned; nothing of IOS left open), `LoopTurns` (the loop, once reached, is never stuck in recvfrom, on Wi-Fi as well), `SocketReturns` (a failed bring-up is repeated) |
| `usb` | rings of 4 bytes, packets of 2, words of 2, 2 enumerations with 1 disturbance each, 2 exchanges; 491k | `PipeInv` (answers fit requests, sizes agree), `InOrder`, `Enumerates`, `TalksEnd` |

Every property has at least one wrong variant of a definition that makes it fail; an
invariant that is a conjunction has one for most of its parts.

Deadlock is not checked: every session may end, a guest need not make a call, and a
loader that has handed over to its successor stops.

## 4. Bounds and fairness

Bounds are constants with names starting in `Max` (and `Cap`, `Room`, `Xids`).

* `NetSyscall`: three calls are the least for which a delayed request is older than
  the cached one; numbers start at the last one of a space of 12 (`FirstSeq` 11), so they
  wrap between the first two.  `DedupMax` 3 is less than a push leg with a retry, so the capture
  overflows.  `MaxRetries` 1 and `Window` 1 let a retransmission arrive inside and
  outside the window.  Retries of the bulk leg and losses are few because each action
  that consumes one looks the same again.
* `NetUpload`: two sections, one of more than a window, are the least for an answer
  to belong to an earlier window and to an earlier section.  `Cap` 5 holds a window
  with its commands and overflows with the resends.  `Room`: a command is sent again,
  after 250 ms of silence, only while the channel has that many free places.  With none
  a client that never reads and a ring that is for ever full would be a behaviour in
  which each recovery PARTBIN is lost, and `UploadEnds` would fail for a reason the
  code cannot help.
* `NetDownload`: two transfers, each with a short last chunk.
* `SerialConsole`: two calls, so that what the first leaves in the stream meets the
  second; blocks of two units and data of up to four, so that data is split; one
  directory slot, so that the table is full.
* `Dhcp`: `MaxLate` counts time-outs that fire although the answer is under way or
  was received in the same round.  Two attempts and two NAKs make both limits reachable.
  A transaction number is fresh if no packet under way has it, which is what the tick
  counter gives the code.  A server that grants no lease time at all is left out.
* `Session`: two invocations are the least in which one meets what another left behind;
  two attempts per command (three for VERSION) and two losses make every leg succeed, be
  repeated and fail; one reopening makes the reconnection budget run out.  Ephemeral ports
  are not reused.  `Short` excludes, in the run, programs that end while the tool is still
  repeating their EXECUTE.
* `NicRing`: five frames fill a ring of four and wrap it; EXECUTE, a reply and three
  others.  `Drives` leaves the Xbox out: its driver does not set up a running adapter
  again and restricts programs to the loader's calls.
* `SifBroker`: three clients on two packet slots exhaust them; two blocks allow a second
  image.  `SyncAlone`: the guest polls only while none of its operations is in flight,
  without which a poll takes another operation's reply.
* `SmapRing`: rings are the least that wrap within the frames of the run, and fill.
* `IosNet`: one refusal meets every request; two changes of the cable are a replug; two
  datagrams are an EXECUTE and the RETVAL of a program's call.  `FollowOdd` FALSE ends a
  behaviour after an abandoned call, since from there on answers belong to other requests
  (section 6).  Sockets are as reliable as IOS makes them.
* `UsbPipe`: a word is larger than what is left of a packet and the ring holds two
  packets, as in the code's proportions; ring counters wrap.

Fairness: both programs poll for ever and their clocks run, so each program's steps
and its time-outs are weakly fair.  The network is fair to a datagram in
`NetSyscall` per kind of command (`Arrives`): a bulk command that is sent again and
again and lost only finitely often gets through.  Nothing is assumed of the client in
`NetDownload`, of the guest's wish to make calls, or of the line in `SerialConsole`.
In `Dhcp` the server and the network deal with every packet that is not lost.  Losses,
refusals and the like are bounded and never fair.  In `Session` the tool, the console's
receive loop and a starting loader are weakly fair; the program and the user are not.  In
`NicRing` only the driver is fair: nothing is asked of the program, which may never make
a call, nor of the network.  In `SifBroker` the guest goes on inside a call, the IOP
answers, and an unmasked interrupt comes.  In `SmapRing` the two IOP threads, the EE's
loop and its polling are fair, the chip is not: it may stop sending for ever.  In `UsbPipe` the
loader, the tool and the bus are weakly fair, the bus towards the host strongly, since a
reset may withdraw a packet again and again, but only finitely often.  In `IosNet` the
loader, IOS and the clock are weakly fair and the look at the cable strongly, since it is due
every 100 ms and the loop always comes back to it; the program, the network and the cable
are not.

## 5. The proofs

Each `...Proofs` module proves the safety properties of its module for every value of
the constants: any number of calls, frames, sections or guests, any limits, losses
and failures.  The only assumptions are those the modules state of their constants
(`...Assumption`: types, and bounds the code relies on, such as fewer than 2^31 requests
in a session) and the hypotheses named below.  Every invariant was checked with TLC on
the module's run before it was proved.

| module | theorems | hypothesis |
|---|---|---|
| `NetSyscallProofs` | `TypeCorrect`, `SyscallCorrect` (`SyscallInv`), `AtMostOnce`, `OwnResult`, `ReplaysAnswer` (`ReplayAnswers`), `SyscallImplementsRpc` (`KeepsPromise`) | |
| `NetUploadProofs` | `UploadCorrect` (`UploadInv`), `AcknowledgedUpload` (`AckedIsComplete`) | `Ordered` |
| `NetDownloadProofs` | `DownloadTypes`; `DownloadCorrect` (`DownloadInv`) | `Compatible`, `Checked` for the second |
| | `DownloadIsFresh` (`WrittenIsFresh`) | `AllApart` |
| `DhcpProofs` | `Agreement` (`Agreed`) | |
| | `LeaseKept` (`LeaseInv`), `RenewalsPaced` (`RenewPaced`) | `[]XidsLast` |
| | `XidsSuffice` (`[]XidsLast`) | `Xids` infinite |
| `SifBrokerProofs` | `CompletedByOwn` (`OwnCompletion`), `ReadsGiveOwn` (`ReadsOwn`), `CallsTheLiving` | |
| | `BooksKept` (`BrokerInv`) | `SyncAlone` |
| `SmapRingProofs` | `AccountsKept` (`RingsInv`), `FramesInOrder` (`ReadsInOrder`), `SentOnceSlotsOwned` (`TxRingKept`) | |
| `SessionProofs` | `SessionsKept` (`SessionInv`) | `~Short` |
| | `UndisturbedKept` (`UndisturbedWorks`) | `~Short`, `Patient` |
| `DeviceProofs` | `RingsInStep` (`NicInv`), `FramesInOrder` (`Orderly`) | `Untouched` |
| | `WiiKept` (`IosInv`), `PipeSettled` (`PipeInv`) | |

`DeviceProofs` speaks of three specifications that share no state; that is why those of
`IosNet` and `UsbPipe` are called `IosSpec` and `PipeSpec`.

**The hypotheses.**  None of them is there for the prover; without it the statement is
false, or the code does not promise it.

* `Ordered`: an answer to DONEBIN is matched by name only (section 7), so the upload
  needs a network that keeps the order, as a LAN segment does.
* `Checked`: the caller looks at `recv_data`'s result, as `download()` does and
  `net_syscall_write` does not (section 6).
* `Compatible`: two transfers read disjoint memory or the same memory.  `AllApart`:
  disjoint memory.  A packet is recognised by its address, so that a late one from the
  same buffer is taken for the present transfer's (section 6).
* `XidsLast`: a transaction number that no packet under way carries can be had.  The
  model says which numbers there are, `XidsSuffice` that infinitely many are enough.
* `Untouched`: programs of the Xbox leave its adapter to the loader, since its driver does
  not set up a running one (section 7); the run makes the same choice.
* `SyncAlone`: the guest polls only with none of its operations in flight.  Otherwise a poll takes
  another operation's reply (section 6), and the accounts of the heap are wrong.  The
  other theorems about the broker do without: even then no asynchronous operation is
  completed by a foreign reply, unless one of the same client was dropped, and no read
  takes foreign data from the buffer of the reads, unless a read has given up before.
  They say nothing of calls that poll, which do take foreign replies.
* `~Short`: a program does not end while its EXECUTE is still being repeated or on its
  way; one that does is started again on memory it has used (section 6).
* `Patient`: a tool that waits for an updated loader makes more than one attempt to reach
  it, or not every question of an attempt can be answered too late.  `reconnect_after_update`
  tries until `RECONNECT_TIMEOUT_USEC`, 30 s, and an attempt takes a third of that; the run,
  which has one attempt, allows fewer late answers than questions.  With one attempt, all of
  whose answers are late, the tool gives up on a loader that is in place: with `MaxReopens` 1
  and `MaxLate` 2 TLC refutes `UndisturbedWorks`.

**The arguments.**

* `NetSyscall`.  At-most-once and own-result are not
  inductive.  `SyscallInv` adds: calls are numbered consecutively and a request under
  way carries its call's number (`NumberingOK`, `RequestsOK`); the number in the cache
  is that of the last call carried out and a call being served is later than all before
  it (`ConsoleOK`); a RETVAL under way or cached carries the number of the call it
  answers (`RetvalsOK`); and a wait that ended before its deadline was ended by an
  accepted RETVAL (`WaitOK`).  The lemmas `SeqOfInjective` and `SeqOfOrder` are the heart:
  within a session numbers identify calls, and the cache's signed difference orders
  them, across the wrap and the skipped zero.  The refinement goes step by step: every
  step is a step of `Rpc` or leaves its variables alone.
* `NetUpload`.  The invariant relates the host's place in its loop to what is under way in
  both channels.  Until a window's LOADBIN is answered nothing follows it (`LoadOK`);
  afterwards the console has loaded this window, no other LOADBIN is ahead of it, and an
  answer to DONEBIN names a chunk of this window or says that all of it is in memory
  (`SentOK`).  Windows whose turn is over are in memory, unless they were left after DONEBIN
  had gone unanswered in their recovery, whose chunks `skipped` collects (`PastOK`), and no
  later LOADBIN exists (`LoadbinsOK`).  So a reported success lacks chunks of such windows at
  the most (`AckedIsComplete`); that it may lack them is the first line about uploads in
  section 6.  What the map marks is in memory (`MapOK`).  The sums over addresses that wrap at
  2^32 are lemmas of their own.
* `NetDownload`.  A unit that is marked in the map holds what the console had in that
  place: every SENDBIN under way carries the data of its own address (`DatagramsOK`) and the
  filter admits only addresses of the present transfer (`AcceptStep`).  A transfer that reports
  success has no unmarked chunk, and the chunks cover the size (`ChunksOfType`).
* `Dhcp`.  Client and server speak in turns while no answer is late: at most one packet is
  on its way, it is on the topic the client waits for, and it ends the wait
  (`AgreedInv`); so the address the client takes is the one the server last wrote down.
  `LeaseInv` is inductive as it stands: besides what is promised (`KeepsTracking`) it says
  that the countdown and the clock agree, that the length of a lease being renewed is saved,
  that an ACK under way grants one (`TrackingOK`), and how far the limits are
  (`CountersOK`).
* `NicRing`.  `Control` says where the nested receive functions are and that the
  receiver is on whenever a loop waits; `Good` ties the driver's read position to the
  chip's for each driver's own order of steps, including that of the outer function
  after a program has ended inside it, and says that the frames in the ring are newer than
  those handled, in order.  For the ENC28J60
  `Good` is claimed until a program returns (`InScope`), as in the run: from then on its driver
  may apply an old position to a new ring (section 6).
* `SifBroker`.  `Settled` says that a request's number is nowhere else: not in two
  slots, not both in a request and a reply, and a reply that carries it belongs to the
  operation that has it.  `Tidy` adds who owns a block of IOP memory at each place of the
  guest's thread, of the interrupt and of the packets under way, and what of it is left
  while a session is being closed; it claims nothing after a crash abandoned
  operations.
* `SmapRing`.  `InStep`: between the read index the IOP knows of and its write index lie
  the frames of those numbers, staged releases are the last frames read, and what the
  EE sees of the memory is a state it went through (`RxOK`, `RelOK`).  For the transmit
  ring, the slot's two sequence numbers agree or differ by one, and that tells a submission
  that was taken from one that was not, so a repeated one is rejected (`TxOK`).
  `CalmOK` has what holds until the first remote call fails: no frame is lost.
* `Session`.  `InTouch`.  The sockets an invocation opens, and each new attempt to reconnect,
  begin a session; what is on its way to the console is one session after the other,
  each with its commands in the order LOADBIN, DONEBIN, EXECUTE and with one image
  (`WayOK`).  The console's memory holds what the next DONEBIN or EXECUTE is about, whole
  in front of an EXECUTE (`MemOK`), and a program it runs is that of the session it sends its
  calls to, unless a later one has loaded over it (`RunOK`).  `Standing` says what the console has
  done for the tool's own session by the rank of the command it has answered: every rank
  before the one the tool is at, so that when the tool reaches the console loop the console
  runs its program and knows its port (`AnswersOK`).  The steps of the tool reduce to three lemmas:
  it goes on in its session (`Advances`), ends it (`Closes`) or opens one (`Opens`).
  `Smoothly` is the second invariant, about an invocation that nothing disturbs.  Until it
  hands the console over, what it asks is on its way or the answer is (`Asking`), and nothing
  that ends the console's loop is (`Harmless`, `Serving`).  An update goes through three
  phases while the tool is already asking again (`Changing`): the EXECUTE of the new loader is
  still under way, the console is starting it, or it is in place; in the first, the old loader
  may yet answer, but not in time (`Unheard`), and in each the tool has an answer to come or
  attempts left, which is where `Patient` is needed.
* `IosNet`.  As long as no call was abandoned, the one request under way is the one that is
  waited for: in the register, taken by IOS, or answered (`Single`).  What is open in IOS is
  determined by the loader's place and the two descriptors, up to the answer to an open or a
  close that IOS has given and the loader has not seen (`Owes`, `Accounts`); `Layered` says which
  descriptors are open at which place.  Nothing is assumed of the number of requests, and only
  a finite set of them is in flight, which is why an unused number exists (`UnusedNumber`).
* `UsbPipe`.  The two hard conjuncts are about an enumeration that overtakes the driver.  An
  answer in the FIFO, or being prepared, is that to the host's present question, or the
  question has not been taken yet (`RequestOK`), and a configuration descriptor there has the
  size of the latched speed (`SpeedOK`).  The two ends agree at the end since from the
  descriptor on no reset or change of speed is waiting to be served, or the budget of such
  services is spent (`Calm`, `AnswerOK`, `SizeOK`), and while a configuration waits to be
  applied the host is at the first question of its next enumeration at the most (`EventsOK`).
  `BytesOK` and `ToolOK` give the bounds of the rings and buffers; the rings' counters run
  modulo a multiple of the ring's size, so that their difference is the number of bytes held.

**Not proved.**  All liveness properties: fairness and ENABLED are outside the prover, so
`EveryCallReturns`, `UploadEnds`, `TransfersEnd`, `Recovers`, `NoneStranded`, `Completes`,
`SlotsFreed` and their like are checked on the instances of section 3 only.  Two invariants
are checked by TLC only.  `SerialInv` of `SerialConsole` needs an invariant over the pairs of
places of two programs, for each kind of call, and is left to the plan.  `InOrder` of
`UsbPipe` depends on the lengths of
whole exchanges: the loader's rings drop what does not fit, and that this never happens
follows from sums over both ends' lists of operations and from the turns they take, not from
a relation of neighbouring states.

## 6. What the code does against its comments

The following statements are definitions of their modules that TLC refutes; the runs
leave them out.  Constants not named are those of the module's run.

| statement | instance | what happens |
|---|---|---|
| `NetSyscall!ExitReported`; progexit: "the host terminates on the first copy received" | `FairSpec`, all `Ops`, `MaxCalls` 1, `MaxTries` 2, `MaxLoss` 1, `ExitCopies` 2, `NetDups` FALSE, `Window` 0, the rest as in `syscall_returns` | a host in the bulk leg of a call the client gave up on drops every copy (`network.c:319`) and then waits for ever |
| `NetUpload!SuccessIsComplete`; "let caller retry" (`network.c:856`) | as the run | DONEBIN goes unanswered during recovery; the loop is left and 0 returned, and the caller is told of success with chunks missing |
| `NetDownload!WrittenIsFresh`; the filter against "a stray duplicate from a prior read()" (`network.c:1019`) | `AddrSame`, `SizeSame` of `MCNetDownload`, `MaxLoss` 0, `Checked` FALSE | addresses are compared; a late SENDBIN of an earlier write() from the same buffer passes and is stored |
| `NetDownload!WrittenIsComplete`; "Report failure so the caller doesn't write it out as a good file" (`network.c:1131`) | `Checked` FALSE | `net_syscall_write` does not look at the result |
| `Dhcp!RenewReturns`; "Lost/late renew ACK ... retry RENEW" (`entry.c:335`) | `MaxLate`, `MaxRefusals`, `MaxRuns`, `MaxLinks` 0 | `timeout_loop` is 0 during a renewal, so a lost ACK leaves the client in the nested loop for ever |
| `Session!UpdateHonest`; "Falling through to success would make a failed flash read as a good one" (`firmware_update.c:1162`) | as the run | the one EXECUTE is lost; the old loader answers the handshake, whose version is not compared, and the update is reported |
| `Session!KeepsAddress`; "always preserves the IP the device is CURRENTLY reachable at" (`firmware_update.c:1444`) | as the run | both capability queries are lost: the image is sent with the address it was built with |
| `Session!SessionInv` with short programs | `Short` TRUE | the ACK of EXECUTE is lost, the program ends within the 5 s of repeats, and the next one starts it again on memory it has used |
| `NicRing!KnownGood`; "back to our known-good configuration" (`commands.c:192`) | `Drivers` {"enc"}, `Drives` {} | `enc28j60_rx` handles a frame before it moves on; after an EXECUTE it applies the old ring's position to the chip `cmd_execute` has just set up (`enc28j60.c:793`) |
| `SifBroker!RepliesReachPoller`; "so the ISR can't steal a reply mid-poll" (`sif_broker.c:20`) | `Clients` {1, 2}, `MaxFaults`, `MaxCrashes` 0 | `pending_free_drain`, which every entry point calls first, polls outside a poll scope |
| `SifBroker!AddressesReal`; a session after a crash starts fresh (`sif_broker.h`) | `Clients` {1, 2}, `MaxFaults`, `MaxNotes` 0 | the reply to a call of the guest that crashed ends the new guest's allocation, whose argument word is handed out as an address |
| `SmapRing!FramesRead` with long frames; "leave the slot occupied so the caller can retry with a bigger buffer" (`iop_smap.c:612`) | `Kinds` {"ok", "long"}, `MaxRx` 1, `MaxTx` 0, `MaxFaults` 0 | no caller has a bigger buffer: a frame of 1515 to 1518 bytes blocks the ring |
| `IosNet!RecvWaits`; "ipc_sync must then wait indefinitely for IOS's reply (a datagram)" (`ios_net.c:116`) | `Ifaces` {"wired"}, `MaxErrors` 0, `FollowOdd` TRUE, `MaxPackets` 1 | after an abandoned call recvfrom takes that call's late reply, and every answer after it is one behind |
| `IosNet!HeldOff`; "Making IOS network calls during that window corrupts the shared IOS request buffer, so we hold them off" (`net/adapter.c:29`) | as above | the first thing done in that window is the whole bring-up |
| `UsbPipe!FlushedFirst`; "Flush first" (`serial_transport.c:343`) | `Talks` {"update"}, `MaxAttempts` 1, `MaxTroubles`, `MaxStalls` 0, `MayFail` FALSE | flushing only hands the packet to the controller; the hand-over turns the endpoint off before it has left |
| `UsbPipe!Reenumerates`; the error state is there to "report" (`usb_dev.c:1447`) | `Talks` {"upload"}, `MaxTroubles`, `MaxStalls` 0 | one failed bulk packet sets the error that `usb_ep0_poll` (1389) takes for its own: control reads no longer end |

## 7. Further observations

Met while modelling, without a property of their own.

The network exchanges:

* On a raw adapter "just bb->loop(0) and wait forever" for a RETVAL ends with any DHCP
  OFFER or NAK on the LAN (`net.c:138`), and the call returns what the previous one did.
  `NetSyscall` has the Wi-Fi adapter's wait, which looks at its own deadline.
* A replay of a read()'s PARTBINs (`network.c:259`) that arrives late rewrites memory the
  guest may have changed since.
* An oversize LOADBIN makes the loader itself call write() and progexit()
  (`commands.c:232`), which wait for a console host that is not there.
* `perform_update` does not wait for the ACK of EXECUTE; and if the ACK of a program's
  EXECUTE is lost, the repeats are ignored without an answer while it runs: the tool reports
  failure and nobody serves the program.
* LOADBIN is served while a program waits in a system call: a second invocation overwrites
  the program, and its EXECUTE is ignored.
* VERSION from anybody, a search with `-t dhcp` included, changes `tool_version` and the
  port of the system calls of a session being served (`commands.c:480`): calls then come
  from a port the host's socket does not take, or without retransmission.
* `firmware_update.c:1303`: "unknown won't reach perform_update" does not hold for `-U`; an
  unknown console gets the SH4 trampoline.  A reconnection that fails leaves two sockets
  open each time; on a silent serial line `init` blocks in a read and the 30 s are not
  kept; after an update with a new DHCP lease the command goes on with the closed link.
* `network_syscalls.c:261` compares with the local deadline although bulk packets push
  the global one; a RETVAL accepted after it is discarded and the call repeated (the
  cache answers), or returned as -1.  The model has this (`overrun`).
* `dedup.h:39-43`: the window "must outlast the client's full retry budget", is said to
  be 4 s, is 3 s, and the budget is 7 x 600 ms.
* `network.c:210`: an answer to DONEBIN is matched by name only.  On a network that
  reorders, a late one closes the next window; the upload properties hold for
  `Ordered` channels.

The byte stream:

* When the serial line dies inside a request, `ser_syscall_write` writes its
  uninitialised buffer to the file and `ser_syscall_unlink` and the like act on a name
  that did not arrive (`console.c:1518`); `DataIntact` speaks of requests that did.
* `console.c:1900`: for a CDFS read of 0 sectors the host sends a word the client does
  not read.  `console.c:1349`, `2018`: a block larger than the rest wraps the unsigned
  remainder.  `console.c:1859`: a closed directory number reaches `readdir(NULL)`.
  `serial_transport.c:204`: block checksums are not compared.  `serial.c:549`: the
  0xdeadbeef exchange after a speed change is not compared either.  `serial.c:543`: the
  port is reopened at the new speed while the client may still be sending at the old one.
* `usb_dev.c:1470`: a packet that does not fit into the ring is cut off without a trace;
  only the protocol's turn-taking prevents it.  A host killed in the middle leaves bytes in
  the ring for the next one.  `usb_write` gives up after its retries and no caller looks.
* `usb_dev.c:1152`: a second SET_CONFIGURATION without a reset sets NAK on the OUT endpoint
  while `bulk_out_armed` stays true, and nothing clears it; `usb_open` avoids the request.
* `usb_topup` asks for less than two packets while it holds a rest, which two full packets
  would overflow; the comment on `usb_ep0_reconfigure` names a value the code does not
  store.

The DHCP client:

* `Agreed` needs answers in time.  With one late OFFER the client can have its ACK and
  then take the late OFFER's address in the same burst (or after a repeated attempt); a
  second server's OFFER, or another station's broadcast, does the same, since neither the
  transaction nor the hardware address of an OFFER or NAK is looked at.  Two servers that
  answer one after the other can also keep `dhcp_go` restarting.
* A NAK whose wait timed out in the same round stays in `dhcp_nak_received`; together
  with a later ACK it can reach the NAK limit, and the client then throws the lease away
  with `dhcp_lease_time` still set.  The next `dhcp_poll` "renews" address 0 and, having
  no time-out, stays there.
* `entry.c:327` keeps a refused address until "the 87.5% mark", which is right only if
  the renewal was asked for at half time and not after a program used up the lease.
* `rtl8139.c:778` clears the link flag when the main loop is entered again, which a DHCP
  reply in the main loop causes: no renewal until the cable is pulled.
* An infinite lease (0xffffffff) wraps `lease_expiry_rtc`, and a program's return then
  sets the countdown to 0.

The drivers:

* `bba.c:520`: a frame that arrives between the last look at the ring and the clearing of
  the interrupt waits for the next frame; `NoneStranded` leaves this adapter out, as it
  depends on what the chip latches.  `nvnet.c:386`: `nvnet_init` leaves a running adapter
  alone.
* `sif_broker.c:180`: a module load that completes between the reading of
  `pending_free_count` and its reset leaves its image allocated.  No code closes a session
  "implicitly at guest exit" (`sif_broker.h`).  close() and open() drop calls in flight whose
  replies are still moved into the guest's buffers.  A synchronous call while another
  operation is in flight takes that operation's reply (`ee_sif.c:714`).
* `iop_smap.c:505`: a submission that never reaches the IOP leaves `g_ee_tx_seq` ahead, and
  every later frame of the slot is rejected silently; `FramesAccount` is stated up to the
  first failed call.  Failed releases shrink the receive ring for good.  The pump sends busy
  slots in slot order, so frames around the wrap change places.  The EE may send 1518
  bytes, the pump drops what is longer than 1514.
* `ios_net.c:358`: all requests but recvfrom and sendto are abandoned after 5 s.  A
  configuration query that fails at a replug leaves the interface unknown, and the cable is
  not watched any more.  The settle time is counted from before the bring-up, which may
  outlast it.  The first look at the cable after a cold start takes the new socket down and
  builds it again.  A bring-up that failed is repeated only because -1, the answer of a
  closed stack, counts as a link.  `ios_net.h:31` says of the lease query "never from the
  data-path loop", where it is made once a second.

The GDB relay:

* A detachment the stub refuses leaves `gdb_detach_pending` set, and the next OK hangs up on
  gdb (`console.c:1994`).
* What the stub still has to say to a gdb that is gone goes to the next one.
* gdbpacket waits for a person.  On the Wii's Wi-Fi the client gives the call up after seven
  tries of 600 ms, and what the host then reads from gdb is answered to nobody; only gdb's
  own repetition helps.
* `console.c:2018`: over a byte stream 1024 bytes are read of a longer packet, and all of its
  length is sent to gdb.

## 8. What is not modelled

Formats of packets and files, the screen, start-up code and build tools: sequential
code that ordinary tests reach.  The contents of compressed blocks (minilzo is
vendored).  NIC registers, transmission, link negotiation and DMA below the rings.
Corruption of bytes on the serial line, and speed changes, which need the time of a byte
and the depth of a FIFO.  The file operations behind the system calls: wrappers of the
host's.  The GDB relay: one connection passed through one system call (section 7).
Resetting and patching the IOP and DEV9 set-up: register sequences known from hardware
only.

The map covers about a sixth of the repository's lines.  Most of the rest is of these kinds
(image tools, file formats, start-up and register code, tables, vendored code, headers),
for which a model would be a transliteration.

Of the modelled parts: pacing delays, progress output, and the acknowledgement of RETVAL,
which nobody waits for.  `Dhcp` has one server and no other stations.  `Session` has one
tool at a time, no clock setting and no download.  `UsbPipe` leaves out downloads,
initialisation errors and requests a host's operating system does not make; it assumes
that the controller refuses data on endpoint 0 after a SETUP until it is told otherwise, and
that a bus reset voids queued transfers.

## 9. The plan

1. (done) `NetSyscall` with `Rpc`, its invariant and its proofs; `NetUpload`;
   `NetDownload`; `SerialConsole`; `Dhcp`.
2. (done) `Session`, the rings of the adapters (`NicRing`), the PlayStation 2's SIF and
   network link (`SifBroker`, `SmapRing`), the PSP's USB pipe (`UsbPipe`), the Wii's sockets
   (`IosNet`).
3. (done) Proofs of the invariants of `NetSyscall`, `NetUpload`, `NetDownload`, `Dhcp`,
   `NicRing`, `SifBroker`, `SmapRing`, `Session`, `IosNet` and, but for `InOrder`, `UsbPipe`.
4. Proofs: `InOrder`, with a relation of the two lists of operations that holds between any
   two steps; `SerialInv`.
5. Left for later: the speed change of the serial line; descriptors and directories of
   the network console composed with `Rpc`; the GDB relay.
