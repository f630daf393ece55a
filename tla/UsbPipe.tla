------------------------------ MODULE UsbPipe ------------------------------
(***************************************************************************)
(* The byte pipe between kos-tool and the PSP loader: the polled USB       *)
(* device driver of the loader (client/psp/usb/usb_dev.c), the libusb      *)
(* backend of the host (host/src/transport/usb.c), and on top of them the  *)
(* serial protocol of both sides (host/src/transport/serial.c and          *)
(* client/common/serial), reduced to who sends how many bytes when.        *)
(*                                                                         *)
(* Nothing in the driver runs by itself: interrupts are off, and the       *)
(* controller is looked at only from usb_dev_poll, which the loader calls  *)
(* while it waits for a byte, for room, or for a command.  While a program *)
(* runs nobody polls.  The controller, the bus and the operating system of *)
(* the host (which enumerates the device) are the environment.             *)
(*                                                                         *)
(* Bytes are numbered in the order in which they are sent: a byte that is  *)
(* lost, repeated or overtaken shows in its number.                        *)
(*                                                                         *)
(* Wrong variants of a definition are named after it; the runs of this     *)
(* project never use them except to see a property fail.                   *)
(***************************************************************************)
EXTENDS Integers, Sequences, FiniteSets

CONSTANTS
    Ring,           \* RING_SZ, bytes in each software ring
    Wrap,           \* the free-running ring counters are modulo this
    MaxPkt,         \* KOSLOAD_USB_MAXPKT
    Word,           \* bytes of an unsigned int on the wire
    Block,          \* bytes of a data block
    MaxService,     \* USB_GEV_MAX_SERVICE
    StallRetries,   \* USB_WRITE_STALL_RETRIES
    Talks,          \* the exchanges the host may start
    MaxTalks,       \* bound on the exchanges
    MaxAttempts,    \* bound on the enumerations
    MaxTroubles,    \* bound on the resets and early time-outs of one enumeration
    MaxStalls,      \* bound on the bulk OUT transfers of one exchange that time out
    MayFail         \* whether a bulk OUT packet may fail, once

ASSUME PipeAssumption ==
    /\ Ring \in Nat \ {0} /\ MaxPkt \in 1..Ring
    /\ Wrap \in Nat /\ Wrap % Ring = 0 /\ Wrap > Ring
    /\ Word \in Nat \ {0} /\ Block \in Nat \ {0} /\ MaxService \in Nat
    /\ Talks \subseteq {"upload", "run", "update"}
    /\ {MaxTalks, MaxAttempts, MaxTroubles, StallRetries} \subseteq Nat
    /\ MaxStalls \in 0..StallRetries /\ MayFail \in BOOLEAN

VARIABLES
    pipe,      \* the loader's rings: rx and tx, each [buf, head, tail]
    driver,    \* the driver: configured, armed, busy, phase, reply, speed, used, error, size
    gev,       \* the global events latched in the controller, with the speed it reports
    ep0,       \* the controller's endpoint 0
    bulk,      \* the controller's two bulk endpoints
    dev,       \* where the loader is: [talk, op, left, at]
    os,        \* the host's operating system: [at, ask, got, size, attempt, troubles]
    host,      \* kos-tool: [talk, op, left, buf, urb, got, probed, talks, tries, stalls]
    seen       \* the bytes sent and read at each end

pipeVars == <<pipe, driver, gev, ep0, bulk, dev, os, host, seen>>

Lesser(a, b) == IF a < b THEN a ELSE b

(***************************************************************************)
(* What is said on the pipe                                                *)
(***************************************************************************)

Ready   == [do |-> "ready", n |-> 0]      \* serial_io_data_ready until it is true
Get(n)  == [do |-> "get", n |-> n]        \* serial_io_getchar, n times
Put(n)  == [do |-> "put", n |-> n]        \* serial_io_putchar, n times
Flush   == [do |-> "flush", n |-> 0]      \* serial_io_flush
Guest   == [do |-> "guest", n |-> 0]      \* the program runs, and does not poll
Handoff == [do |-> "handoff", n |-> 0]    \* psp_fw_update_prepare and the jump

Write(n) == [do |-> "write", n |-> n]     \* serial_ops->write of n bytes
Read(n)  == [do |-> "read", n |-> n]      \* blread, or serial_getc when n is 1
Probe(n) == [do |-> "probe", n |-> n]     \* ser_try_recv_uint

Times(k, op) == [i \in 1..k |-> op]

(* The loader's side.  A download is left out: its blocks go the way of    *)
(* those of write().                                                       *)
GetUint == <<Get(Word), Put(Word)>>
LoopHead == <<Ready, Get(1), Put(1)>>
LoadBlock == <<Get(1)>> \o GetUint \o <<Get(Block), Get(1), Put(1)>>
SendBlock == <<Put(1), Put(Word), Put(Block), Put(1), Get(1)>>
WriteCall == <<Put(1), Put(Word), Put(Word)>> \o SendBlock \o GetUint
ProgExit == <<Put(1), Put(Word), Flush>>
ExecuteHead == GetUint \o GetUint \o <<Flush>>

ClientCommand(talk) ==
    CASE talk = "none"     -> <<>>
      [] talk = "upload"   -> GetUint \o GetUint \o LoadBlock
      [] talk = "run"      -> ExecuteHead \o <<Guest>> \o WriteCall \o <<Guest>> \o ProgExit
      [] talk = "update"   -> ExecuteHead \o <<Handoff>>

ClientOps(talk) == LoopHead \o ClientCommand(talk)

(* The host's side. *)
SendUint == Times(Word, Write(1)) \o Times(Word, Read(1))
RecvUint == Times(Word, Read(1))
Command == <<Write(1), Read(1)>>
LzoSend == <<Write(1)>> \o SendUint \o <<Write(Block), Write(1), Read(1)>>
LzoRecv == <<Read(1)>> \o RecvUint \o <<Read(Block), Read(1), Write(1)>>
SyscallWrite == <<Read(1)>> \o RecvUint \o RecvUint \o LzoRecv \o SendUint
SyscallExit == <<Read(1), Probe(Word)>>

HostOps(talk) ==
    Command \o
    CASE talk = "upload"   -> SendUint \o SendUint \o LzoSend
      [] talk = "run"      -> SendUint \o SendUint \o SyscallWrite \o SyscallExit
      [] talk = "update"   -> SendUint \o SendUint

(***************************************************************************)
(* The software rings                                                      *)
(***************************************************************************)

Used(r) == (r.head - r.tail) % Wrap

Push(r, b) == [r EXCEPT !.buf[r.head % Ring] = b, !.head = (@ + 1) % Wrap]

Oldest(r) == r.buf[r.tail % Ring]

Pop(r) == [r EXCEPT !.tail = (@ + 1) % Wrap]

EmptyRing == [buf |-> [i \in 0..Ring - 1 |-> 0], head |-> 0, tail |-> 0]

Held(r, n) == [i \in 1..n |-> r.buf[(r.tail + i - 1) % Ring]]

PushAll(r, s) ==
    LET k == Lesser(Len(s), Ring - Used(r))
    IN  [buf  |-> [i \in 0..Ring - 1 |->
                      LET j == (i - r.head) % Ring IN IF j < k THEN s[j + 1] ELSE r.buf[i]],
         head |-> (r.head + k) % Wrap,
         tail |-> r.tail]

(***************************************************************************)
(* Endpoint 0 and the global events                                        *)
(***************************************************************************)

NoAnswer == [to |-> "none", size |-> 0]

(* The requests of an enumeration: control reads are answered with data,   *)
(* SET_ADDRESS with a status stage only, strings are not supported.        *)
SetupRequests == <<"device", "address", "qualifier", "string", "conf">>

Reads == {"device", "qualifier", "conf"}

Optional == {"qualifier", "string"}

(* usb_refresh_cfg_desc: the endpoint sizes of the configuration           *)
(* descriptor are those of the latched speed.                              *)
Answer_staleSize(req) == [to |-> req, size |-> IF req = "conf" THEN 2 ELSE 0]
Answer(req) == [to |-> req, size |-> IF req = "conf" THEN driver.speed ELSE 0]

Ep0Quiet ==
    [setup |-> "none", token |-> FALSE, fifo |-> NoAnswer, sent |-> FALSE, out |-> "free",
     inNak |-> TRUE, outNak |-> FALSE, inOn |-> FALSE, stall |-> FALSE]

(* usb_ep0_restart with usb_ep0_reconfigure: the queued transfers are void *)
(* on this side as well, and the SETUP mailbox is emptied.  The rings are  *)
(* kept.                                                                   *)
Restarted(d) ==
    [d EXCEPT !.configured = FALSE, !.armed = FALSE, !.busy = FALSE, !.phase = "setup",
              !.reply = NoAnswer]

(* usb_apply_configuration *)
Applied_keepsBudget(d, value) ==
    IF value THEN [d EXCEPT !.configured = TRUE, !.size = d.speed]
    ELSE [d EXCEPT !.configured = FALSE, !.armed = FALSE, !.busy = FALSE]
Applied(d, value) ==
    IF value THEN [d EXCEPT !.configured = TRUE, !.used = 0, !.size = d.speed]
    ELSE [d EXCEPT !.configured = FALSE, !.armed = FALSE, !.busy = FALSE]

(* ep_config_data: the OUT endpoint refuses packets until a descriptor is  *)
(* released to it (EP_OUT_CONFIG is the NAK bit).                          *)
BulkConfigured == [bulk EXCEPT !.on = TRUE, !.out = "free", !.outBuf = <<>>]

(* usb_global_events: a configuration is applied first; resets and speed   *)
(* changes are served while the budget lasts, and stay latched afterwards. *)
GlobalEvents ==
    LET events == gev.latched
        conf   == IF "config" \in events THEN Applied(driver, TRUE) ELSE driver
        served == events \cap {"reset", "enum"} # {} /\ conf.used < MaxService
        reset  == served /\ "reset" \in events
        sped   == IF served /\ "enum" \in events THEN gev.speed
                  ELSE IF reset THEN 1 ELSE driver.speed
        again  == reset \/ sped # driver.speed
        counted == [conf EXCEPT !.used = IF served THEN @ + 1 ELSE @, !.speed = sped]
    IN  /\ dev.at = "gev"
        /\ dev' = [dev EXCEPT !.at = "ep0"]
        /\ gev' = [gev EXCEPT !.latched =
                      @ \ ({"config", "intf"} \cup IF served THEN {"reset", "enum"} ELSE {})]
        /\ driver' = IF again THEN Restarted(counted) ELSE counted
        /\ ep0' = IF again THEN Ep0Quiet ELSE ep0
        /\ bulk' = IF again THEN [bulk EXCEPT !.on = FALSE]
                   ELSE IF "config" \in events THEN BulkConfigured ELSE bulk
        /\ UNCHANGED <<pipe, os, host, seen>>

(* ep0_send: the status stage is posted, the answer waits for an IN token. *)
SendAnswer(e, req) ==
    /\ driver' = [driver EXCEPT !.phase = "token", !.reply = Answer(req)]
    /\ ep0' = [e EXCEPT !.out = "posted", !.inNak = FALSE, !.inOn = TRUE]

(* handle_setup *)
HandleSetup(e, req) ==
    \/ /\ req \in Reads
       /\ SendAnswer(e, req)
    \/ /\ req = "address"                                    \* ep0_send_status
       /\ driver' = [driver EXCEPT !.phase = "setup"]
       /\ ep0' = [e EXCEPT !.inNak = FALSE]
    \/ /\ req = "string"                                     \* ep0_stall
       /\ driver' = [driver EXCEPT !.phase = "setup"]
       /\ ep0' = [e EXCEPT !.stall = TRUE]

(* ep0_take_setup: a SETUP supersedes the transfer in progress.  What was  *)
(* queued for it is taken back and the IN FIFO is flushed.                 *)
TakeSetup_noFlush ==
    /\ ep0.setup # "none"
    /\ HandleSetup([ep0 EXCEPT !.setup = "none", !.out = "free"], ep0.setup)
TakeSetup ==
    /\ ep0.setup # "none"
    /\ HandleSetup([ep0 EXCEPT !.setup = "none", !.fifo = NoAnswer,
                               !.out = IF driver.phase = "setup" THEN @ ELSE "free"],
                   ep0.setup)

(* usb_ep0_poll, phase by phase.  The controller is read once; an event is *)
(* acknowledged alone, so that another one that came with it stays.        *)
WaitSetup == driver.phase = "setup" /\ TakeSetup

WaitToken ==
    /\ driver.phase = "token"
    /\ \/ TakeSetup
       \/ /\ ep0.setup = "none" /\ ep0.token
          /\ ep0' = [ep0 EXCEPT !.fifo = driver.reply, !.token = FALSE, !.sent = FALSE]
          /\ driver' = [driver EXCEPT !.phase = "data"]

(* After the answer has gone the status stage is released, unless the      *)
(* diagnostics hold an error.                                              *)
WaitData ==
    /\ driver.phase = "data"
    /\ \/ TakeSetup
       \/ /\ ep0.setup = "none" /\ ep0.sent
          /\ ep0' = [ep0 EXCEPT !.sent = FALSE, !.token = FALSE,
                                !.outNak = IF driver.error THEN @ ELSE FALSE]
          /\ driver' = [driver EXCEPT !.phase = IF driver.error THEN @ ELSE "status"]

WaitStatus ==
    /\ driver.phase = "status"
    /\ \/ /\ ep0.out = "done"
          /\ ep0' = [ep0 EXCEPT !.out = "free"]
          /\ driver' = [driver EXCEPT !.phase = "setup"]
       \/ ep0.out # "done" /\ TakeSetup

Ep0Work == WaitSetup \/ WaitToken \/ WaitData \/ WaitStatus

(* No event of the phase has come. *)
Ep0Idle ==
    /\ ep0.setup = "none"
    /\ ~(driver.phase = "token" /\ ep0.token)
    /\ ~(driver.phase = "data" /\ ep0.sent)
    /\ ~(driver.phase = "status" /\ ep0.out = "done")

Ep0Poll ==
    /\ dev.at = "ep0"
    /\ dev' = [dev EXCEPT !.at = "rx"]
    /\ \/ Ep0Work
       \/ Ep0Idle /\ UNCHANGED <<driver, ep0>>
    /\ UNCHANGED <<pipe, gev, bulk, os, host, seen>>

(***************************************************************************)
(* The bulk data path                                                      *)
(***************************************************************************)

(* usb_hw_rx: arm the descriptor, or take the packet it has received.      *)
(* Bytes for which the ring has no room are dropped.                       *)
HwRx ==
    \/ /\ ~driver.configured
       /\ UNCHANGED <<pipe, driver, bulk>>
    \/ /\ driver.configured /\ ~driver.armed                       \* ep_submit_out
       /\ driver' = [driver EXCEPT !.armed = TRUE]
       /\ bulk' = [bulk EXCEPT !.out = "armed", !.outBuf = <<>>]
       /\ UNCHANGED pipe
    \/ /\ driver.configured /\ driver.armed /\ bulk.out = "failed"  \* diag_fail
       /\ driver' = [driver EXCEPT !.armed = FALSE, !.error = TRUE]
       /\ bulk' = [bulk EXCEPT !.out = "free", !.outBuf = <<>>]
       /\ UNCHANGED pipe
    \/ /\ driver.configured /\ driver.armed /\ bulk.out = "done"
       /\ pipe' = [pipe EXCEPT !.rx = PushAll(@, bulk.outBuf)]
       /\ driver' = [driver EXCEPT !.armed = FALSE]
       /\ bulk' = [bulk EXCEPT !.out = "free", !.outBuf = <<>>]
    \/ /\ driver.configured /\ driver.armed /\ bulk.out \notin {"failed", "done"}
       /\ UNCHANGED <<pipe, driver, bulk>>

(* usb_hw_tx, on the transmit ring as it stands: reclaim a finished        *)
(* transfer, then start the next one unless one is still under way.        *)
HwTx_overBusy(tx) ==
    LET n == Lesser(MaxPkt, Used(tx))
        go == driver.configured /\ n > 0
    IN  /\ pipe' = [pipe EXCEPT !.tx = IF go THEN [tx EXCEPT !.tail = (@ + n) % Wrap] ELSE tx]
        /\ driver' = [driver EXCEPT !.busy = @ \/ go]
        /\ bulk' = IF go THEN [bulk EXCEPT !.in = "armed", !.inBuf = Held(tx, n)] ELSE bulk
HwTx(tx) ==
    LET done == driver.busy /\ bulk.in = "done"
        busy == driver.busy /\ ~done
        n    == Lesser(MaxPkt, Used(tx))
        go   == driver.configured /\ ~busy /\ n > 0
    IN  /\ pipe' = [pipe EXCEPT !.tx = IF go THEN [tx EXCEPT !.tail = (@ + n) % Wrap] ELSE tx]
        /\ driver' = [driver EXCEPT !.busy = IF driver.configured THEN busy \/ go ELSE @]
        /\ bulk' = IF go THEN [bulk EXCEPT !.in = "armed", !.inBuf = Held(tx, n)]
                   ELSE IF done /\ driver.configured THEN [bulk EXCEPT !.in = "free", !.inBuf = <<>>]
                   ELSE bulk

PollRx ==
    /\ dev.at = "rx"
    /\ dev' = [dev EXCEPT !.at = "tx"]
    /\ HwRx
    /\ UNCHANGED <<gev, ep0, os, host, seen>>

(***************************************************************************)
(* The loader                                                              *)
(***************************************************************************)

Op == ClientOps(dev.talk)[dev.op]

(* The next operation, or the next command. *)
Advance(d) ==
    LET last == d.op = Len(ClientOps(d.talk))
        talk == IF last THEN "none" ELSE d.talk
        op   == IF last THEN 1 ELSE d.op + 1
    IN  [talk |-> talk, op |-> op, left |-> ClientOps(talk)[op].n, at |-> "go"]

OneLess(d) == IF d.left > 1 THEN [d EXCEPT !.left = @ - 1, !.at = "go"] ELSE Advance(d)

(* The last part of usb_dev_poll.  usb_dev_rx_ready looks at the ring      *)
(* after it; rx_byte and tx_byte look before they poll again.              *)
PollTx ==
    /\ dev.at = "tx"
    /\ HwTx(pipe.tx)
    /\ dev' = IF Op.do # "ready" THEN [dev EXCEPT !.at = "go"]
              ELSE IF Used(pipe.rx) > 0 THEN Advance(dev)
              ELSE [dev EXCEPT !.at = "gev"]
    /\ UNCHANGED <<gev, ep0, os, host, seen>>

(* usb_dev_poll is entered to wait for a command, for a byte or for room.  *)
StartPoll ==
    /\ dev.at = "go"
    /\ \/ Op.do = "ready"
       \/ Op.do = "get" /\ Used(pipe.rx) = 0
       \/ Op.do = "put" /\ Used(pipe.tx) >= Ring
    /\ dev' = [dev EXCEPT !.at = "gev"]
    /\ UNCHANGED <<pipe, driver, gev, ep0, bulk, os, host, seen>>

(* usb_dev_rx_byte.  The command byte decides what follows. *)
RxByte ==
    /\ dev.at = "go" /\ Op.do = "get" /\ Used(pipe.rx) > 0
    /\ pipe' = [pipe EXCEPT !.rx = Pop(@)]
    /\ seen' = [seen EXCEPT !.devGot = @ + 1, !.devLast = Oldest(pipe.rx)]
    /\ dev' = OneLess(IF dev.op = 2 THEN [dev EXCEPT !.talk = host.talk] ELSE dev)
    /\ UNCHANGED <<driver, gev, ep0, bulk, os, host>>

(* usb_dev_tx_byte *)
TxByte_noWait ==
    /\ dev.at = "go" /\ Op.do = "put"
    /\ LET tx == Push(pipe.tx, seen.devSent + 1)
       IN  IF Used(tx) >= MaxPkt THEN HwTx(tx)
           ELSE pipe' = [pipe EXCEPT !.tx = tx] /\ UNCHANGED <<driver, bulk>>
    /\ seen' = [seen EXCEPT !.devSent = @ + 1]
    /\ dev' = OneLess(dev)
    /\ UNCHANGED <<gev, ep0, os, host>>
TxByte ==
    /\ dev.at = "go" /\ Op.do = "put" /\ Used(pipe.tx) < Ring
    /\ LET tx == Push(pipe.tx, seen.devSent + 1)
       IN  IF Used(tx) >= MaxPkt THEN HwTx(tx)
           ELSE pipe' = [pipe EXCEPT !.tx = tx] /\ UNCHANGED <<driver, bulk>>
    /\ seen' = [seen EXCEPT !.devSent = @ + 1]
    /\ dev' = OneLess(dev)
    /\ UNCHANGED <<gev, ep0, os, host>>

(* usb_dev_tx_flush starts a transfer; it does not wait for one to end. *)
TxFlush ==
    /\ dev.at = "go" /\ Op.do = "flush"
    /\ HwTx(pipe.tx)
    /\ dev' = Advance(dev)
    /\ UNCHANGED <<gev, ep0, os, host, seen>>

(* psp_execute: the program computes; it does not poll the controller.     *)
RunGuest ==
    /\ dev.at = "go" /\ Op.do = "guest"
    /\ dev' = Advance(dev)
    /\ UNCHANGED <<pipe, driver, gev, ep0, bulk, os, host, seen>>

(* psp_fw_update_prepare: usb_dev_prepare_handoff takes the configuration  *)
(* away and disables both bulk endpoints; the jump that follows is one-way.*)
PrepareHandoff ==
    /\ dev.at = "go" /\ Op.do = "handoff"
    /\ driver' = Applied(driver, FALSE)
    /\ bulk' = [bulk EXCEPT !.on = FALSE]
    /\ dev' = [dev EXCEPT !.at = "gone"]
    /\ UNCHANGED <<pipe, gev, ep0, os, host, seen>>

PspLoader ==
    \/ GlobalEvents \/ Ep0Poll \/ PollRx \/ PollTx
    \/ StartPoll \/ RxByte \/ TxByte \/ TxFlush \/ RunGuest \/ PrepareHandoff

(***************************************************************************)
(* The host's operating system enumerates the device                       *)
(***************************************************************************)

Asking == os.at \in {"speed", "ask", "data", "ack", "status", "config"}

(* Bounds what may go wrong at once: not after a failed bulk packet. *)
Trouble == os.troubles < MaxTroubles /\ ~seen.lost

(* The device is plugged in, or the host tries once more: the bus is reset *)
(* and everything the controller has queued is void, a packet of the last  *)
(* exchange too if the loader has not taken it yet.                        *)
BusReset ==
    /\ dev.at # "gone"
    /\ \/ /\ os.at \in {"off", "done"} /\ host.talk = "none" /\ os.attempt < MaxAttempts
          /\ os' = [os EXCEPT !.at = "speed", !.attempt = @ + 1, !.size = 0]
       \/ /\ Asking /\ Trouble
          /\ os' = [os EXCEPT !.at = "speed", !.troubles = @ + 1, !.size = 0]
    /\ gev' = [gev EXCEPT !.latched = @ \cup {"reset"}]
    /\ ep0' = [ep0 EXCEPT !.fifo = NoAnswer, !.inNak = TRUE, !.outNak = TRUE]
    /\ bulk' = [on |-> FALSE, out |-> "free", outBuf |-> <<>>, in |-> "free", inBuf |-> <<>>]
    /\ seen' = [seen EXCEPT !.lost = @ \/ bulk.out = "done" \/ bulk.in = "armed"]
    /\ UNCHANGED <<pipe, driver, dev, host>>

(* The reset ends and the speed is known. *)
SpeedKnown ==
    /\ os.at = "speed"
    /\ \E s \in {1, 2} :
          gev' = [latched |-> gev.latched \cup {"enum"}, speed |-> s]
    /\ os' = [os EXCEPT !.at = "ask", !.ask = 1]
    /\ UNCHANGED <<pipe, driver, ep0, bulk, dev, host, seen>>

Asked == SetupRequests[os.ask]

NextRequest(o) ==
    IF o.ask = Len(SetupRequests) THEN [o EXCEPT !.at = "config", !.ask = 1, !.got = "none"]
    ELSE [o EXCEPT !.at = "ask", !.ask = @ + 1, !.got = "none"]

(* A SETUP: the controller refuses IN and OUT until the driver has seen it.*)
Setup ==
    /\ os.at = "ask" /\ ep0.setup = "none"
    /\ ep0' = [ep0 EXCEPT !.setup = Asked, !.inNak = TRUE, !.outNak = TRUE, !.stall = FALSE]
    /\ os' = [os EXCEPT !.at = IF Asked \in Reads THEN "data" ELSE "ack"]
    /\ UNCHANGED <<pipe, driver, gev, bulk, dev, host, seen>>

CanIn == os.at = "data" /\ ep0.inOn /\ ~ep0.inNak

InToken ==
    /\ CanIn /\ ep0.fifo = NoAnswer /\ ~ep0.token
    /\ ep0' = [ep0 EXCEPT !.token = TRUE]
    /\ UNCHANGED <<pipe, driver, gev, bulk, dev, os, host, seen>>

InData ==
    /\ CanIn /\ ep0.fifo # NoAnswer
    /\ ep0' = [ep0 EXCEPT !.fifo = NoAnswer, !.sent = TRUE]
    /\ os' = [os EXCEPT !.at = "status", !.got = ep0.fifo.to,
                        !.size = IF Asked = "conf" THEN ep0.fifo.size ELSE @]
    /\ UNCHANGED <<pipe, driver, gev, bulk, dev, host, seen>>

CanStatusOut == os.at = "status" /\ ep0.out = "posted" /\ ~ep0.outNak

StatusOut ==
    /\ CanStatusOut
    /\ ep0' = [ep0 EXCEPT !.out = "done"]
    /\ os' = NextRequest(os)
    /\ UNCHANGED <<pipe, driver, gev, bulk, dev, host, seen>>

CanStatusIn == os.at = "ack" /\ (~ep0.inNak \/ ep0.stall)

(* The status stage of a request without data, or a stall. *)
StatusIn ==
    /\ CanStatusIn
    /\ os' = NextRequest(os)
    /\ UNCHANGED <<pipe, driver, gev, ep0, bulk, dev, host, seen>>

(* The host gives a transfer up, and tries it again or leaves it out. *)
GiveUp(o) ==
    \/ os' = [o EXCEPT !.at = "ask", !.got = "none"]
    \/ Asked \in Optional /\ os' = NextRequest(o)

AbandonTransfer ==
    /\ os.at \in {"data", "ack", "status"} /\ Trouble
    /\ GiveUp([os EXCEPT !.troubles = @ + 1])
    /\ UNCHANGED <<pipe, driver, gev, ep0, bulk, dev, host, seen>>

(* Nothing more will happen to this transfer: it times out. *)
ControlTimeout ==
    /\ os.at \in {"data", "ack", "status"}
    /\ gev.latched = {} /\ Ep0Idle
    /\ ~(CanIn /\ (ep0.fifo # NoAnswer \/ ~ep0.token)) /\ ~CanStatusOut /\ ~CanStatusIn
    /\ GiveUp(os)
    /\ UNCHANGED <<pipe, driver, gev, ep0, bulk, dev, host, seen>>

(* The controller answers SET_CONFIGURATION by itself and raises an event. *)
SetConfig ==
    /\ os.at = "config"
    /\ \E e \in {{"config"}, {"config", "intf"}} :
          gev' = [gev EXCEPT !.latched = @ \cup e]
    /\ os' = [os EXCEPT !.at = "done", !.troubles = 0]
    /\ UNCHANGED <<pipe, driver, ep0, bulk, dev, host, seen>>

Enumerate ==
    \/ SpeedKnown \/ Setup \/ InToken \/ InData \/ StatusOut \/ StatusIn
    \/ ControlTimeout \/ SetConfig

(***************************************************************************)
(* kos-tool                                                                *)
(***************************************************************************)

HostOp == HostOps(host.talk)[host.op]

Doing(what) == host.talk # "none" /\ HostOp.do = what

HostNext(h) ==
    IF h.op = Len(HostOps(h.talk))
    THEN [h EXCEPT !.talk = "none", !.op = 1, !.left = 0, !.tries = 0, !.stalls = 0,
                   !.probed = FALSE]
    ELSE [h EXCEPT !.op = @ + 1, !.left = HostOps(h.talk)[h.op + 1].n, !.tries = 0,
                   !.probed = FALSE]

StartTalk ==
    /\ os.at = "done" /\ host.talk = "none" /\ host.talks < MaxTalks
    /\ dev.at # "gone" /\ ~seen.lost
    /\ \E t \in Talks :
          host' = [host EXCEPT !.talk = t, !.op = 1, !.left = HostOps(t)[1].n, !.talks = @ + 1]
    /\ UNCHANGED <<pipe, driver, gev, ep0, bulk, dev, os, seen>>

(* The stream is broken: the user ends kos-tool. *)
QuitTalk ==
    /\ seen.lost /\ host.talk # "none"
    /\ host' = [host EXCEPT !.talk = "none", !.op = 1, !.left = 0, !.buf = <<>>, !.got = <<>>,
                            !.urb = "none", !.tries = 0, !.stalls = 0, !.probed = FALSE]
    /\ UNCHANGED <<pipe, driver, gev, ep0, bulk, dev, os, seen>>

(* usb_write: what is left of the buffer is one bulk OUT transfer; the     *)
(* controller takes a packet of it when a descriptor is armed.             *)
CanOut == Doing("write") /\ bulk.on /\ bulk.out = "armed"

OutPacket(result) ==
    LET k == Lesser(MaxPkt, host.left)
        h == [host EXCEPT !.left = @ - k, !.tries = 0]
    IN  /\ CanOut
        /\ bulk' = [bulk EXCEPT !.out = result,
                                !.outBuf = [i \in 1..k |-> seen.hostSent + i]]
        /\ host' = IF h.left = 0 THEN HostNext(h) ELSE h

BusOut ==
    /\ OutPacket("done")
    /\ seen' = [seen EXCEPT !.hostSent = @ + Lesser(MaxPkt, host.left)]
    /\ UNCHANGED <<pipe, driver, gev, ep0, dev, os>>

(* The packet is acknowledged on the bus, but its descriptor fails. *)
BusOutFails ==
    /\ MayFail /\ ~seen.lost
    /\ OutPacket("failed")
    /\ seen' = [seen EXCEPT !.hostSent = @ + Lesser(MaxPkt, host.left), !.lost = TRUE]
    /\ UNCHANGED <<pipe, driver, gev, ep0, dev, os>>

(* A bulk OUT transfer that makes no progress is tried again, a few times; *)
(* after that usb_write fails, and its callers go on all the same.         *)
WriteTimeout ==
    /\ Doing("write") /\ host.stalls < MaxStalls
    /\ LET h == [host EXCEPT !.stalls = @ + 1, !.tries = @ + 1]
       IN  host' = IF h.tries <= StallRetries THEN h ELSE HostNext(h)
    /\ UNCHANGED <<pipe, driver, gev, ep0, bulk, dev, os, seen>>

(* usb_read: the rest of the last transfer, and never more than that. *)
Taken(k) ==
    /\ seen' = [seen EXCEPT !.hostGot = @ + k, !.hostLast = host.buf[k]]
    /\ LET h == [host EXCEPT !.left = @ - k, !.buf = SubSeq(@, k + 1, Len(@))]
       IN  host' = IF h.left = 0 THEN HostNext(h) ELSE h

UsbRead ==
    /\ Doing("read") /\ host.buf # <<>>
    /\ Taken(Lesser(host.left, Len(host.buf)))
    /\ UNCHANGED <<pipe, driver, gev, ep0, bulk, dev, os>>

(* usb_fill: a bulk IN transfer into the empty buffer. *)
UsbFill ==
    /\ Doing("read") /\ host.buf = <<>> /\ host.urb = "none"
    /\ host' = [host EXCEPT !.urb = "in"]
    /\ UNCHANGED <<pipe, driver, gev, ep0, bulk, dev, os, seen>>

Room == 2 * MaxPkt - Len(host.buf)

(* usb_bytes_available: usb_topup appends one more transfer to what is     *)
(* buffered, when a whole packet fits.                                     *)
BytesAvailable_fills ==
    /\ Doing("probe") /\ ~host.probed /\ host.urb = "none"
    /\ host' = IF host.buf = <<>> THEN [host EXCEPT !.urb = "in"]
               ELSE [host EXCEPT !.probed = TRUE]
    /\ UNCHANGED <<pipe, driver, gev, ep0, bulk, dev, os, seen>>
BytesAvailable ==
    /\ Doing("probe") /\ ~host.probed /\ host.urb = "none"
    /\ host' = IF Room >= MaxPkt THEN [host EXCEPT !.urb = "in"]
               ELSE [host EXCEPT !.probed = TRUE]
    /\ UNCHANGED <<pipe, driver, gev, ep0, bulk, dev, os, seen>>

(* ser_try_recv_uint: read the word when it is all there, or look again.   *)
(* Its deadline is taken to be longer than the loader needs to send.       *)
TryRecvUint ==
    /\ Doing("probe") /\ host.probed
    /\ IF Len(host.buf) >= HostOp.n
       THEN Taken(HostOp.n)
       ELSE host' = [host EXCEPT !.probed = FALSE] /\ UNCHANGED seen
    /\ UNCHANGED <<pipe, driver, gev, ep0, bulk, dev, os>>

(* The end of a bulk IN transfer. *)
Received(h, got) ==
    [h EXCEPT !.buf = @ \o got, !.got = <<>>, !.urb = "none", !.probed = Doing("probe")]

(* A packet from the device: a short one, or the last that fits, ends the  *)
(* transfer.                                                               *)
BusIn ==
    /\ host.urb = "in" /\ bulk.on /\ bulk.in = "armed"
    /\ LET free == Room - Len(host.got)
           got  == host.got \o SubSeq(bulk.inBuf, 1, Lesser(Len(bulk.inBuf), free))
       IN  host' = IF Len(bulk.inBuf) < MaxPkt \/ free <= MaxPkt
                   THEN Received(host, got) ELSE [host EXCEPT !.got = got]
    /\ bulk' = [bulk EXCEPT !.in = "done"]
    /\ UNCHANGED <<pipe, driver, gev, ep0, dev, os, seen>>

(* The transfer times out; what it has received so far counts.  An idle    *)
(* pipe is not an error: usb_read starts another transfer.                 *)
ReadTimeout ==
    /\ host.urb = "in"
    /\ host' = Received(host, host.got)
    /\ UNCHANGED <<pipe, driver, gev, ep0, bulk, dev, os, seen>>

(* The loader has gone, and the transfer ends with an error instead:       *)
(* usb_read returns -1, and serial_getc goes on without the byte.          *)
ReadFails ==
    /\ host.urb = "in" /\ dev.at = "gone" /\ ~bulk.on
    /\ host' = HostNext([host EXCEPT !.urb = "none", !.got = <<>>])
    /\ UNCHANGED <<pipe, driver, gev, ep0, bulk, dev, os, seen>>

Tool == UsbRead \/ UsbFill \/ BytesAvailable \/ TryRecvUint \/ ReadTimeout

(***************************************************************************)
(* The specification                                                       *)
(***************************************************************************)

(* After usb_dev_init, with nothing plugged in. *)
PipeInit ==
    /\ pipe = [rx |-> EmptyRing, tx |-> EmptyRing]
    /\ driver = [configured |-> FALSE, armed |-> FALSE, busy |-> FALSE, phase |-> "setup",
              reply |-> NoAnswer, speed |-> 0, used |-> 0, error |-> FALSE, size |-> 0]
    /\ gev = [latched |-> {}, speed |-> 1]
    /\ ep0 = Ep0Quiet
    /\ bulk = [on |-> FALSE, out |-> "free", outBuf |-> <<>>, in |-> "free", inBuf |-> <<>>]
    /\ dev = [talk |-> "none", op |-> 1, left |-> 0, at |-> "go"]
    /\ os = [at |-> "off", ask |-> 1, got |-> "none", size |-> 0, attempt |-> 0,
             troubles |-> 0]
    /\ host = [talk |-> "none", op |-> 1, left |-> 0, buf |-> <<>>, urb |-> "none",
               got |-> <<>>, probed |-> FALSE, talks |-> 0, tries |-> 0, stalls |-> 0]
    /\ seen = [hostSent |-> 0, devGot |-> 0, devLast |-> 0, devSent |-> 0, hostGot |-> 0,
               hostLast |-> 0, lost |-> FALSE]

PipeNext ==
    \/ PspLoader
    \/ BusReset \/ Enumerate \/ AbandonTransfer
    \/ StartTalk \/ QuitTalk \/ BusOut \/ BusOutFails \/ WriteTimeout \/ BusIn \/ ReadFails \/ Tool

(* The loader runs; the host's system and kos-tool go on with what they    *)
(* have begun; the bus carries a packet that both sides keep ready for it  *)
(* in the end, although a transfer of kos-tool may time out first.         *)
Fairness ==
    /\ WF_pipeVars(PspLoader) /\ WF_pipeVars(Enumerate)
    /\ WF_pipeVars(BusOut) /\ SF_pipeVars(BusIn) /\ WF_pipeVars(Tool)

PipeSpec == PipeInit /\ [][PipeNext]_pipeVars /\ Fairness

(***************************************************************************)
(* Properties                                                              *)
(***************************************************************************)

Bytes == 0..(seen.hostSent + seen.devSent)

RingFits(r) ==
    /\ r.buf \in [0..Ring - 1 -> Bytes] /\ r.head \in 0..Wrap - 1 /\ r.tail \in 0..Wrap - 1
    /\ Used(r) <= Ring

(* The type invariant; the rings of usb_dev.c never hold more than RING_SZ *)
(* bytes, nor the buffer of usb.c more than two packets.                   *)
PipeTypeOK ==
    /\ RingFits(pipe.rx) /\ RingFits(pipe.tx)
    /\ driver.phase \in {"setup", "token", "data", "status"}
    /\ driver.used \in 0..MaxService /\ driver.speed \in 0..2
    /\ {driver.configured, driver.armed, driver.busy, driver.error} \subseteq BOOLEAN
    /\ gev.latched \subseteq {"reset", "enum", "config", "intf"} /\ gev.speed \in 1..2
    /\ bulk.out \in {"free", "armed", "done", "failed"} /\ bulk.in \in {"free", "armed", "done"}
    /\ dev.at \in {"go", "gev", "ep0", "rx", "tx", "gone"}
    /\ os.ask \in 1..Len(SetupRequests) /\ os.troubles \in 0..MaxTroubles
    /\ Len(host.buf) + Len(host.got) <= 2 * MaxPkt

(* ep0_take_setup: whatever was queued for a control transfer that the     *)
(* host has abandoned, the data it reads is the answer to its own request. *)
AnswerFits == os.at = "status" => os.got = Asked

(* usb_refresh_cfg_desc and usb_apply_configuration: the endpoint sizes    *)
(* the host has read are those the driver has programmed, although the     *)
(* speed of a reset is only known later.                                   *)
SizesAgree ==
    os.at = "done" /\ driver.configured /\ gev.latched = {} => os.size = driver.size

(* The rings and buffers stay within their bounds, and the host and the    *)
(* driver agree on what a control transfer is about and on the sizes it    *)
(* has settled.                                                            *)
PipeInv == PipeTypeOK /\ AnswerFits /\ SizesAgree

(* The byte pipe: each end reads the bytes of the other in order, and none *)
(* is lost or repeated - in rings that drop what does not fit and are      *)
(* filled without any flow control - unless a packet has failed or was     *)
(* under way at a bus reset.                                               *)
InOrder ==
    ~seen.lost => seen.devLast = seen.devGot /\ seen.hostLast = seen.hostGot

(* USB_GEV_MAX_SERVICE: an enumeration that begins ends with the pipe open *)
(* - the endpoints programmed since the reset, and a descriptor released   *)
(* for the host's next packet - whatever resets, speed changes and         *)
(* abandoned transfers it and those before it had, unless the diagnostics  *)
(* hold an error or the loader has gone.                                   *)
Enumerates ==
    Asking ~> (bulk.on /\ bulk.out = "armed") \/ driver.error \/ dev.at = "gone"

(* Every exchange ends, the exit of a program with its code, although a    *)
(* word may be spread over two packets (usb_topup) and a transfer may time *)
(* out; the hand-over to a new loader is left out.                         *)
TalksEnd ==
    (host.talk \in Talks \ {"update"}) ~> (host.talk = "none" \/ seen.lost \/ dev.at = "gone")

(* serial_transport_loop flushes before fw_update_prepare because that may *)
(* take down the pipe the flush uses: when the loader hands over, what it  *)
(* has sent, the echo the host is waiting for, has left.  Refuted by TLC   *)
(* (README, section 6).                                                    *)
FlushedFirst == dev.at = "gone" => bulk.in # "armed" /\ Used(pipe.tx) = 0

(* An enumeration ends with the device configured, after a failed bulk     *)
(* packet as well: the error is only meant to be reported.  Refuted by TLC *)
(* (README, section 6).                                                    *)
Reenumerates == Asking ~> driver.configured

=============================================================================
