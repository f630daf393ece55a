------------------------------- MODULE NicRing -------------------------------
(***************************************************************************)
(* The polled network adapters and the programs that run inside them.      *)
(* bb->loop() polls a receive ring and calls process_pkt(); an EXECUTE     *)
(* frame runs the uploaded program right there (cmd_execute), and every    *)
(* system call of that program polls the same ring again from within.      *)
(* When the program ends, cmd_execute sets the adapter up anew and returns *)
(* into the receive function it was called from; on the Dreamcast the      *)
(* loader starts again from its entry point instead.                       *)
(*                                                                         *)
(* One behaviour is one adapter's: "nvnet" (xbox/net/nvnet.c), "rtl" and   *)
(* "lan" (dreamcast/net), "bba" and "enc" (gamecube/net), and "w5500"      *)
(* (common/drivers/w5500.c).  The ring is positions of one frame each; the *)
(* chip, the network and the program are external.                         *)
(***************************************************************************)
EXTENDS Integers, Sequences, FiniteSets, SequencesExt

CONSTANTS
    Drivers,    \* the adapters of this instance, of AllDrivers
    Drives,     \* those whose programs may also use the chip directly
    Slots,      \* positions of the receive ring
    MaxFrames   \* bound: frames that arrive

AllDrivers == {"nvnet", "rtl", "lan", "bba", "enc", "w5500"}

\* A command, EXECUTE, the reply to a system call, a frame the chip marks bad.
Kinds == {"cmd", "exec", "reply", "bad"}

ASSUME NicAssumption ==
    /\ Drivers \subseteq AllDrivers /\ Drives \subseteq Drivers
    /\ Slots \in Nat \ {0, 1, 2} /\ MaxFrames \in Nat

VARIABLES
    drv,      \* the adapter
    chip,     \* ring memory, write and read positions, unread frames, receiver
              \* on, receive interrupt, receive overflow
    cur,      \* the driver's own read position: cur_rx, rtl.cur_rx, next_pkt_ptr
    stack,    \* the receive functions under way, the main loop's first:
              \* [at, frame, next: pkt_next of enc28j60_rx, since: the first
              \* frame that can have arrived since its loop began, over: intr
              \* of rtl_bb_loop has the overflow bit]
    running,  \* running
    escape,   \* escape_loop
    started,  \* bb_started of the LAN adapter
    next,     \* history: number of the next frame to arrive
    handled,  \* history: frames process_pkt has acted on, in order
    exits     \* history: programs that have returned into cmd_execute

vars == <<drv, chip, cur, stack, running, escape, started, next, handled, exits>>

Pos == 0 .. Slots - 1
After(p) == (p + 1) % Slots
Blank == [id |-> 0, kind |-> "bad"]
Activation(where) == [at |-> where, frame |-> Blank, next |-> 0, since |-> next,
                      over |-> FALSE]
Depth == Len(stack)
Top == stack[Depth]
At(where) == Top.at = where
Goto(where) == stack' = [stack EXCEPT ![Depth].at = where]

Restarts == {"rtl", "lan", "w5500"}    \* Dreamcast: a program's end restarts the loader
Returns == {"nvnet", "bba", "enc", "w5500"}
OwnCursor == {"nvnet", "rtl", "enc"}   \* they keep the read position themselves

Blanks == [p \in Pos |-> Blank]
Empty(m) == [mem |-> m, wr |-> 0, rd |-> 0, cnt |-> 0, on |-> TRUE, irq |-> FALSE,
             over |-> FALSE]

Init ==
    /\ drv \in Drivers
    /\ chip = Empty(Blanks)
    /\ cur = 0 /\ next = 1 /\ stack = <<Activation("loop")>>
    /\ running = FALSE /\ escape = FALSE /\ started = 2
    /\ handled = << >> /\ exits = 0

(***************************************************************************)
(* The adapters' init functions, with bb->start.                           *)
(***************************************************************************)
Clean(m) == chip' = Empty(m) /\ cur' = 0

\* A running adapter is left alone, with its rings and both cursors.
NvnetInit == drv = "nvnet" /\ UNCHANGED <<chip, cur>>
RtlInit   == drv = "rtl" /\ Clean(Blanks)
BbaInit   == drv = "bba" /\ Clean(Blanks)
W5500Init == drv = "w5500" /\ Clean(Blanks)
\* The buffer memory survives the reset.
EncInit   == drv = "enc" /\ Clean(chip.mem)
LanInit   == drv = "lan" /\ Clean(Blanks)

-----------------------------------------------------------------------------
(***************************************************************************)
(* Receiving.  A receive function takes the frame at its read position and *)
(* hands it to process_pkt, or passes over one the chip marks bad, until   *)
(* there is none.                                                          *)
(***************************************************************************)

Unread == {(chip.rd + i) % Slots : i \in 0 .. chip.cnt - 1}
Same == UNCHANGED <<drv, running, escape, started, next, handled, exits>>

\* Everything before p is given back to the chip.
Freed(c, p) == [c EXCEPT !.rd = p, !.cnt = (c.wr - p) % Slots]

\* The frame f, at position p, goes to process_pkt; to be advanced over before
\* that (Early) or afterwards (Late).
Dispatch(f, p) == stack' = [stack EXCEPT ![Depth].at = "handle", ![Depth].frame = f,
                                         ![Depth].next = After(p)]

\* The ring starts again, empty: rtl_rx_reset, enc_rearm_runtime.
RxReset ==
    /\ chip' = [chip EXCEPT !.wr = 0, !.rd = 0, !.cnt = 0, !.irq = FALSE, !.over = FALSE]
    /\ cur' = 0

\* nvnet_rx: the descriptor under cur_rx goes back, the cursor moves, and only
\* then is the copy dispatched.
NvnetRx ==
    /\ drv = "nvnet" /\ At("rx")
    /\ \/ /\ cur \in Unread
          /\ chip' = Freed(chip, After(cur)) /\ cur' = After(cur)
          /\ IF chip.mem[cur].kind = "bad" THEN UNCHANGED stack ELSE Dispatch(chip.mem[cur], cur)
       \/ cur \notin Unread /\ Goto("loop") /\ UNCHANGED <<chip, cur>>
    /\ Same

\* bba_rx: RRP moves on first, too.  The interrupt is cleared at the end, after
\* the last look at RRP and RWP.
BbaRx ==
    /\ drv = "bba" /\ At("rx") /\ UNCHANGED cur
    /\ \/ /\ chip.cnt > 0
          /\ chip' = Freed(chip, After(chip.rd))
          /\ LET f == chip.mem[chip.rd]
             IN  IF f.kind = "bad" THEN UNCHANGED stack ELSE Dispatch(f, chip.rd)
       \/ chip.cnt = 0 /\ Goto("loop") /\ chip' = [chip EXCEPT !.irq = FALSE]
    /\ Same

\* w5500_rx: one frame, and back to the loop.
W5500Rx ==
    /\ drv = "w5500" /\ At("rx") /\ UNCHANGED cur
    /\ \/ /\ chip.cnt > 0
          /\ chip' = Freed(chip, After(chip.rd))
          /\ LET f == chip.mem[chip.rd]
             IN  IF f.kind = "bad" THEN Goto("loop") ELSE Dispatch(f, chip.rd)
       \/ chip.cnt = 0 /\ Goto("loop") /\ UNCHANGED chip
    /\ Same

(***************************************************************************)
(* Wrong variants of a definition are named after it; the runs of this     *)
(* project never use them except to see a property fail.                   *)
(***************************************************************************)
LanRx_clears ==
    /\ drv = "lan" /\ At("rx") /\ UNCHANGED cur
    /\ \/ /\ chip.cnt > 0
          /\ LET f == chip.mem[chip.rd]
                 c == Freed(chip, After(chip.rd))
             IN  \/ f.kind = "bad" /\ Goto("loop") /\ chip' = [c EXCEPT !.irq = FALSE]
                 \/ f.kind # "bad" /\ Dispatch(f, chip.rd) /\ chip' = c
       \/ chip.cnt = 0 /\ Goto("loop") /\ chip' = [chip EXCEPT !.irq = FALSE]
    /\ Same

\* la_bb_rx reads a FIFO; a bad frame ends it.  The loop then clears the packet
\* bit, which "hardware will re-set ... if there's another packet".
LanRx ==
    /\ drv = "lan" /\ At("rx") /\ UNCHANGED cur
    /\ \/ /\ chip.cnt > 0
          /\ LET f == chip.mem[chip.rd]
                 c == Freed(chip, After(chip.rd))
             IN  \/ f.kind = "bad" /\ Goto("loop") /\ chip' = [c EXCEPT !.irq = c.cnt > 0]
                 \/ f.kind # "bad" /\ Dispatch(f, chip.rd) /\ chip' = c
       \/ chip.cnt = 0 /\ Goto("loop") /\ chip' = [chip EXCEPT !.irq = FALSE]
    /\ Same

\* rtl_bb_rx up to process_pkt: rtl.cur_rx stays.  A bad frame starts the ring
\* again, and so does rtl_bb_loop after an overflow.
RtlRx ==
    /\ drv = "rtl" /\ At("rx")
    /\ \/ /\ chip.cnt > 0
          /\ LET f == chip.mem[cur]
             IN  \/ f.kind = "bad" /\ RxReset /\ Goto("loop")
                 \/ f.kind # "bad" /\ Dispatch(f, cur) /\ UNCHANGED <<chip, cur>>
       \/ /\ chip.cnt = 0 /\ Goto("loop")
          /\ IF Top.over THEN RxReset ELSE UNCHANGED <<chip, cur>>
    /\ Same

RtlAdvance_keeps ==
    /\ drv = "rtl" /\ At("advance") /\ Goto("rx")
    /\ chip' = [Freed(chip, After(cur)) EXCEPT !.irq = FALSE, !.over = FALSE]
    /\ UNCHANGED cur /\ Same

\* ... and after it: added to wherever rtl.cur_rx is by now.  The interrupt is
\* acknowledged, the overflow with it.
RtlAdvance ==
    /\ drv = "rtl" /\ At("advance") /\ Goto("rx")
    /\ cur' = After(cur)
    /\ chip' = [Freed(chip, After(cur)) EXCEPT !.irq = FALSE, !.over = FALSE]
    /\ Same

\* PKTDEC: one frame less, wherever it was.
EncFreed(p) == [chip EXCEPT !.rd = p, !.cnt = IF @ > 0 THEN @ - 1 ELSE 0]

\* enc28j60_rx up to process_pkt.  Where no frame was ever written, the status
\* vector fails its test and the ring is rearmed, or it leads anywhere.
EncRx ==
    /\ drv = "enc" /\ At("rx")
    /\ \/ /\ chip.cnt > 0 /\ chip.mem[cur].id = 0
          /\ \/ RxReset /\ Goto("loop")
             \/ \E p \in Pos : chip' = EncFreed(p) /\ cur' = p /\ UNCHANGED stack
       \/ /\ chip.cnt > 0 /\ chip.mem[cur].id # 0
          /\ IF chip.mem[cur].kind = "bad"
             THEN chip' = EncFreed(After(cur)) /\ cur' = After(cur) /\ UNCHANGED stack
             ELSE Dispatch(chip.mem[cur], cur) /\ UNCHANGED <<chip, cur>>
       \/ chip.cnt = 0 /\ Goto("loop") /\ UNCHANGED <<chip, cur>>
    /\ Same

\* ... and after it: to the position read before.
EncAdvance ==
    /\ drv = "enc" /\ At("advance") /\ Goto("rx")
    /\ cur' = Top.next /\ chip' = EncFreed(Top.next)
    /\ Same

(***************************************************************************)
(* The loops: nvnet, ENC28J60 and W5500 poll the ring, the others look at  *)
(* an interrupt bit first.  Polls that find nothing are left out.          *)
(***************************************************************************)
RtlLooks == drv = "rtl" /\ chip.irq
LanLooks == drv = "lan" /\ chip.irq
BbaLooks == drv = "bba" /\ chip.irq
NvnetLooks == drv = "nvnet" /\ cur \in Unread
EncLooks == drv = "enc" /\ chip.cnt > 0
W5500Looks == drv = "w5500" /\ chip.cnt > 0

LoopPolls ==
    /\ At("loop") /\ ~escape
    /\ RtlLooks \/ LanLooks \/ BbaLooks \/ NvnetLooks \/ EncLooks \/ W5500Looks
    /\ stack' = [stack EXCEPT ![Depth].at = "rx", ![Depth].over = drv = "rtl" /\ chip.over]
    /\ UNCHANGED <<chip, cur>> /\ Same

-----------------------------------------------------------------------------
(***************************************************************************)
(* process_pkt and the program.                                            *)
(***************************************************************************)

\* bb->stop and bb->start: the receiver, and bb_started of the LAN adapter.
Stopped(c) == [c EXCEPT !.on = drv \in {"nvnet", "w5500"}]
StopState == IF drv = "lan" /\ started = 2 THEN 3 ELSE started

Start_forgets == UNCHANGED <<chip, started>>

Start ==
    /\ chip' = [chip EXCEPT !.on = IF drv = "lan" THEN started \in {2, 3} ELSE TRUE]
    /\ started' = IF started = 3 THEN 2 ELSE started

\* process_pkt returns.
Handled == CASE drv \in {"rtl", "enc"} -> "advance"
             [] drv = "w5500"          -> "loop"
             [] OTHER                  -> "rx"

Execute_nested ==
    /\ At("handle") /\ Top.frame.kind = "exec"
    /\ handled' = Append(handled, Top.frame.id)
    /\ chip' = Stopped(chip) /\ started' = StopState
    /\ running' = TRUE /\ Goto("guest")
    /\ UNCHANGED <<drv, cur, escape, next, exits>>

\* cmd_execute, up to t->execute.
Execute ==
    /\ At("handle") /\ Top.frame.kind = "exec" /\ ~running
    /\ handled' = Append(handled, Top.frame.id)
    /\ chip' = Stopped(chip) /\ started' = StopState
    /\ running' = TRUE /\ Goto("guest")
    /\ UNCHANGED <<drv, cur, escape, next, exits>>

ExecuteIgnored ==
    /\ At("handle") /\ Top.frame.kind = "exec" /\ running
    /\ Goto(Handled)
    /\ UNCHANGED <<drv, chip, cur, running, escape, started, next, handled, exits>>

\* Anything else; the reply to a system call ends the loop that waits for it.
HandleOther ==
    /\ At("handle") /\ Top.frame.kind # "exec"
    /\ handled' = Append(handled, Top.frame.id)
    /\ escape' = (escape \/ (Top.frame.kind = "reply" /\ running))
    /\ Goto(Handled)
    /\ UNCHANGED <<drv, chip, cur, running, started, next, exits>>

\* A system call: build_send_packet starts the receiver and waits in a loop of
\* its own.
GuestCalls ==
    /\ At("guest") /\ Start
    /\ stack' = Append(stack, Activation("loop"))
    /\ UNCHANGED <<drv, cur, running, escape, next, handled, exits>>

\* Back from the inner loop: answered, or (nvnet) the deadline has passed.
CallReturns ==
    /\ Depth = 2 /\ At("loop")
    /\ escape \/ (drv = "nvnet" /\ cur \notin Unread)
    /\ escape' = FALSE
    /\ stack' = Front(stack)
    /\ UNCHANGED <<drv, chip, cur, running, started, next, handled, exits>>

\* The program uses the chip with a driver of its own, and no system calls.
GuestDrives ==
    /\ At("guest") /\ drv \in Drives
    /\ \E p \in Pos : chip' = [chip EXCEPT !.wr = p, !.rd = p, !.cnt = 0, !.on = FALSE]
    /\ Goto("own")
    /\ UNCHANGED <<drv, cur, running, escape, started, next, handled, exits>>

\* The end of the program, back in cmd_execute: stop, init, start.
GuestReturns ==
    /\ (At("guest") \/ At("own")) /\ drv \in Returns
    /\ NvnetInit \/ BbaInit \/ EncInit \/ W5500Init
    /\ running' = FALSE /\ exits' = exits + 1
    /\ Goto(Handled)
    /\ UNCHANGED <<drv, escape, started, next, handled>>

LoaderRestarts_keepsChip ==
    /\ (At("guest") \/ At("own")) /\ drv \in Restarts
    /\ chip' = [chip EXCEPT !.on = TRUE] /\ cur' = 0
    /\ stack' = <<Activation("loop")>>
    /\ running' = FALSE /\ escape' = FALSE /\ started' = 2
    /\ UNCHANGED <<drv, next, handled, exits>>

\* The Dreamcast's go never comes back: the loader's entry point clears its
\* variables and sets the adapter up.
LoaderRestarts ==
    /\ (At("guest") \/ At("own")) /\ drv \in Restarts
    /\ RtlInit \/ LanInit \/ W5500Init
    /\ stack' = <<Activation("loop")>>
    /\ running' = FALSE /\ escape' = FALSE /\ started' = 2
    /\ UNCHANGED <<drv, next, handled, exits>>

-----------------------------------------------------------------------------
(***************************************************************************)
(* The network.  One position of the ring always stays free; a frame that  *)
(* finds no room is lost.                                                  *)
(***************************************************************************)
Arrive ==
    /\ chip.on /\ next <= MaxFrames /\ next' = next + 1
    /\ \E k \in Kinds :
          chip' = IF chip.cnt < Slots - 1
                  THEN [chip EXCEPT !.mem[chip.wr] = [id |-> next, kind |-> k],
                                    !.wr = After(@), !.cnt = @ + 1, !.irq = TRUE]
                  ELSE [chip EXCEPT !.irq = TRUE, !.over = TRUE]
    /\ UNCHANGED <<drv, cur, stack, running, escape, started, handled, exits>>

Driver == LoopPolls \/ NvnetRx \/ BbaRx \/ W5500Rx \/ LanRx \/ RtlRx \/ RtlAdvance \/ EncRx
          \/ EncAdvance \/ Execute \/ ExecuteIgnored \/ HandleOther \/ CallReturns
Next == Driver \/ GuestCalls \/ GuestDrives \/ GuestReturns \/ LoaderRestarts \/ Arrive

\* The driver runs on; nothing is assumed of the program or the network.
Spec == Init /\ [][Next]_vars /\ WF_vars(Driver)

-----------------------------------------------------------------------------
(***************************************************************************)
(* Known difference: after a program has returned, enc28j60_rx carries on  *)
(* with the position it had before (see KnownGood); what is said of frames *)
(* below holds for it up to then.                                          *)
(***************************************************************************)
InScope == drv = "enc" => exits = 0

(* The shapes of the state; the loop nests once at the most.               *)
Frames == [id : Nat, kind : Kinds]
Places == {"loop", "rx", "handle", "guest", "own", "advance"}
Activations == [at : Places, frame : Frames, next : Pos, since : Nat, over : BOOLEAN]
Chips == [mem : [Pos -> Frames], wr : Pos, rd : Pos, cnt : 0 .. Slots - 1,
          on : BOOLEAN, irq : BOOLEAN, over : BOOLEAN]

TypeOK ==
    /\ drv \in Drivers /\ cur \in Pos
    /\ chip \in Chips
    /\ stack \in Seq(Activations) /\ Depth \in 1 .. 2
    /\ started \in {2, 3} /\ running \in BOOLEAN /\ escape \in BOOLEAN
    /\ next \in Nat \ {0} /\ handled \in Seq(Nat) /\ exits \in Nat

(* Whenever the loader waits for a frame its receiver is on, although each *)
(* EXECUTE and each exit turns it off; and la_bb_rx is never "called out   *)
(* of sequence", where it would hang.                                      *)
Listening == (At("loop") \/ At("rx")) => (chip.on /\ started = 2)

Ascending == \A i \in 1 .. Len(handled) - 1 : handled[i] < handled[i + 1]

(* Frames are acted on in the order of their arrival and never twice, also *)
(* when an inner loop of a system call reads on in the ring of the outer   *)
(* one: in particular one EXECUTE never starts two programs.               *)
Orderly == InScope => Ascending

(* No frame that comes while a loop waits stays in the ring: the reply to  *)
(* a system call is always seen.  The BBA is left out: bba_rx clears the   *)
(* interrupt after its last look at the ring, and a frame that comes in    *)
(* between waits for the next one to arrive.                               *)
NoneStranded ==
    []<>(\/ \A p \in Unread : chip.mem[p].id < Top.since
         \/ At("guest") \/ At("own") \/ drv = "bba" \/ ~InScope)

(* cmd_execute, after a program: "Do a full re-init so receive buffers and *)
(* registers are back to our known-good configuration."  Whenever the loop *)
(* waits, the driver reads where the chip has its oldest unread frame.     *)
(* Refuted by TLC for the ENC28J60 (README, section 6).                    *)
KnownGood ==
    At("loop") => /\ drv \in OwnCursor => cur = chip.rd
                  /\ (chip.rd + chip.cnt) % Slots = chip.wr

(* KnownGood for the adapters other than the ENC28J60 after a return.      *)
InStep == InScope => KnownGood

(* One program runs at a time: in the outermost receive function, under    *)
(* the one that serves its system call.                                    *)
NestingOK ==
    /\ Depth = 1 => (running <=> At("guest") \/ At("own"))
    /\ Depth = 2 => running /\ stack[1].at = "guest" /\ ~At("guest") /\ ~At("own")
    /\ At("own") => drv \in Drives

(* The receiver is on wherever a frame may be taken, and stays on for the  *)
(* adapter that is not set up again.                                       *)
PowerOK ==
    /\ ~At("guest") /\ ~At("own") => chip.on /\ started = 2
    /\ started = 3 => drv = "lan"
    /\ drv = "nvnet" => chip.on

\* Adapters whose frame is passed over only after process_pkt has had it.
Late == {"rtl", "enc"}

\* The frame i positions behind the chip's read position.
Waiting(i) == chip.mem[(chip.rd + i) % Slots]

(* The driver's position is the chip's; in process_pkt of a Late adapter   *)
(* it is still that of the frame in hand.                                  *)
CursorOK ==
    /\ chip.wr = (chip.rd + chip.cnt) % Slots
    /\ drv \in OwnCursor /\ ~At("own") => cur = chip.rd
    /\ drv \in Late /\ (At("handle") \/ At("advance")) =>
         chip.cnt > 0 /\ Top.next = After(cur)
    /\ drv \in Late /\ At("handle") => Top.frame = Waiting(0)

\* The oldest frame in the ring has been in process_pkt: on its way to be
\* passed over, or the EXECUTE of the program that is running.
Seen(i) == /\ i = 0 /\ drv \in Late
           /\ At("advance") \/ (running /\ Waiting(0).kind = "exec")

Offsets == 0 .. chip.cnt - 1

(* The ring holds frames in the order of their arrival, all of them newer  *)
(* than those that have been acted on and than the one in hand.            *)
NewerOK ==
    /\ \A i \in Offsets : Waiting(i).id \in 1 .. next - 1
    /\ \A i, j \in Offsets : i < j => Waiting(i).id < Waiting(j).id
    /\ \A k \in 1 .. Len(handled) : handled[k] < next
    /\ \A k \in 1 .. Len(handled), i \in Offsets :
         handled[k] < Waiting(i).id \/ (Seen(i) /\ handled[k] = Waiting(i).id)
    /\ drv \notin Late /\ At("handle") =>
         /\ Top.frame.id < next
         /\ \A k \in 1 .. Len(handled) : handled[k] < Top.frame.id
         /\ \A i \in Offsets : Top.frame.id < Waiting(i).id

RingOK == /\ At("advance") => drv \in Late
          /\ InScope => CursorOK /\ NewerOK

(* Whenever the loader waits, its receiver is on and it reads where the    *)
(* chip writes, at the one level of nesting the code allows for, and what  *)
(* it reads is newer than what it has acted on.                            *)
NicInv == TypeOK /\ Listening /\ InStep /\ NestingOK /\ PowerOK /\ RingOK

=============================================================================
