------------------------------ MODULE SmapRing ------------------------------
(***************************************************************************)
(* The PlayStation 2 network link.  smap.irx on the IOP                    *)
(* (client/playstation2/iop/smap_irx.c) owns the Ethernet chip and shares  *)
(* two rings of frames with the loader on the EE (iop_smap.c, called from  *)
(* the receive loop of net/smap.c):                                        *)
(*   - the IOP's pump thread fills receive slots and moves rx_head; the EE *)
(*     copies them out, stages what it consumed and gives the slots back   *)
(*     in batches by remote call, which moves rx_tail_iop_view;            *)
(*   - the EE writes frames into free transmit slots, stages them, and     *)
(*     hands them over in batches by remote call; the pump puts them into  *)
(*     the chip's FIFO and frees the slots.                                *)
(* The EE reads the IOP's words in IOP RAM, which the IOP's cached writes  *)
(* reach in order but only for certain at the next FlushDcache.  Remote    *)
(* calls may fail on the way out or on the way back.  The RPC thread has   *)
(* the higher priority and may come between any two steps of the pump.     *)
(* The chip and the network are external.                                  *)
(***************************************************************************)
EXTENDS Integers, Sequences, FiniteSets, SequencesExt

CONSTANTS
    RxSlots,     \* PS2_SMAP_RX_SLOTS
    TxSlots,     \* PS2_SMAP_TX_SLOTS
    Watermark,   \* PS2_SMAP_RELEASE_FLUSH_WATERMARK
    Batch,       \* PS2_SMAP_SUBMIT_BATCH_MAX
    Fifo,        \* frames that fit into the chip's transmit FIFO
    StallLimit,  \* SMAP_TX_STALL_LIMIT
    Kinds,       \* kinds of frames the chip may receive, of AllKinds
    MaxRx,       \* bound: frames received without error
    MaxTx,       \* bound: frames sent
    MaxFrames,   \* bound: both together
    MaxFaults    \* bound: remote calls that fail

(***************************************************************************)
(* "ok" fits everywhere; "error" has a bad checksum or length; "long" is   *)
(* longer than RX_PKT_BUF_SIZE and no longer than SMAP_RXMAXSIZE.          *)
(***************************************************************************)
AllKinds == {"ok", "error", "long"}

ASSUME SmapAssumption ==
    /\ RxSlots \in Nat \ {0, 1} /\ TxSlots \in Nat \ {0}
    /\ Watermark \in Nat \ {0} /\ Batch \in Nat \ {0} /\ Fifo \in Nat \ {0}
    /\ StallLimit \in Nat \ {0} /\ Kinds \subseteq AllKinds
    /\ MaxRx \in Nat /\ MaxTx \in Nat /\ MaxFrames \in Nat /\ MaxFaults \in Nat

VARIABLES
    irx,      \* how far smap.irx has come up
    ready,    \* the word at PS2_SMAP_READY_IOP_PHYS is the magic
    ee,       \* where the EE is: [at, i: entry of a fallback, frame, then]
    rxTail,   \* g_rx_tail
    rel,      \* g_pending_releases: slots and sequence numbers
    sub,      \* g_pending_submits: slots, sequence numbers and frames
    nextSlot, \* g_tx_next_slot
    eeSeq,    \* g_ee_tx_seq
    rpc,      \* the remote call under way
    mem,      \* the IOP's words: head, tail (rx_tail_iop_view), ring, tx states
    vis,      \* those words as the EE sees them
    rxSeq,    \* g_rx_seq
    txSeq,    \* g_tx_seq
    txData,   \* the transmit slots' frames
    pump,     \* where the pump thread is: [at, slot, dirty, progress, waiting]
    stall,    \* g_tx_stall_iters
    chip,     \* received frames, transmit FIFO, entries not yet reclaimed, and
              \* whether a bad frame came in this turn of the pump (at most one)
    faults,   \* remote calls that have failed
    read,     \* history: frames the EE has taken out of the ring, which are
              \* numbered in the order the pump puts them in
    staged,   \* history: frames ps2_smap_send has accepted
    wire,     \* history: the frames transmitted
    dropped   \* history: frames given up with the whole ring (stall)

eeVars  == <<rxTail, rel, sub, nextSlot, eeSeq>>
iopVars == <<rxSeq, txSeq>>
hist    == <<read, staged, wire, dropped>>
vars    == <<irx, ready, ee, eeVars, rpc, mem, vis, iopVars, txData, pump, stall,
             chip, faults, hist>>

RxSlot == 0 .. RxSlots - 1
TxSlot == 0 .. TxSlots - 1
Idle == [at |-> "none", entries |-> << >>, rc |-> "ok"]
Asleep == [at |-> "sleep", slot |-> 0, dirty |-> FALSE, progress |-> FALSE,
           waiting |-> FALSE]
Zeroed == [head |-> 0, tail |-> 0, tx |-> [s \in TxSlot |-> "FREE"],
           ring |-> [s \in RxSlot |-> [frame |-> 0, long |-> FALSE, seq |-> 0]]]
MoreFrames == Cardinality(staged) + chip.next <= MaxFrames
At(where) == [at |-> where, i |-> 0, frame |-> 0, then |-> where]

-----------------------------------------------------------------------------
(***************************************************************************)
(* Coming up.  A loader that was started by a firmware update finds the    *)
(* IOP, and its RAM, as the previous loader left them.                     *)
(***************************************************************************)

Init ==
    /\ irx = "absent" /\ ready \in BOOLEAN /\ ee = At("boot")
    /\ rxTail = 0 /\ rel = << >> /\ sub = << >> /\ nextSlot = 0
    /\ eeSeq = [s \in TxSlot |-> 0]
    /\ rpc = Idle /\ mem = Zeroed /\ vis = Zeroed
    /\ rxSeq = [s \in RxSlot |-> 0] /\ txSeq = [s \in TxSlot |-> 0]
    /\ txData = [s \in TxSlot |-> 0]
    /\ pump = Asleep /\ stall = 0
    /\ chip = [rx |-> << >>, next |-> 1, tx |-> << >>, used |-> 0, error |-> FALSE]
    /\ faults = 0
    /\ read = << >> /\ staged = {} /\ wire = {} /\ dropped = {}

Untouched == UNCHANGED <<eeVars, rpc, mem, vis, iopVars, txData, pump, stall, chip,
                         faults, hist>>

(***************************************************************************)
(* Wrong variants of a definition are named after it; the runs of this     *)
(* project never use them except to see a property fail.                   *)
(***************************************************************************)
BootLoads_keepsReady ==
    /\ ee.at = "boot"
    /\ irx' = "starting" /\ ee' = At("poll")
    /\ UNCHANGED ready /\ Untouched

\* ps2_bootstrap_iop_dev9_init resets the IOP, clears the ready word and has
\* smap.irx loaded; the load returns before the module's thread has run.
BootLoads ==
    /\ ee.at = "boot"
    /\ irx' = "starting" /\ ready' = FALSE /\ ee' = At("poll")
    /\ Untouched

\* _start: the chip, the shared region, then the two threads.
IrxStart ==
    /\ irx = "starting" /\ irx' = "resident"
    /\ UNCHANGED <<ready, ee>> /\ Untouched

\* smap_rpc_thread registers the server and links its queue ...
IrxRegister ==
    /\ irx = "resident" /\ irx' = "registered"
    /\ UNCHANGED <<ready, ee>> /\ Untouched

\* ... and only then says so.
IrxReady ==
    /\ irx = "registered" /\ ~ready /\ ready' = TRUE
    /\ UNCHANGED <<irx, ee>> /\ Untouched

\* ps2_smap_init sees the word, binds, and learns the layout.
EeBinds ==
    /\ ee.at = "poll" /\ ready
    /\ ee' = At("loop")
    /\ UNCHANGED <<irx, ready>> /\ Untouched

\* SMAP_READY_POLL_BUDGET is spent: no adapter.
EeGivesUp ==
    /\ ee.at = "poll" /\ irx \in {"starting", "resident"}
    /\ ee' = At("failed")
    /\ UNCHANGED <<irx, ready>> /\ Untouched

-----------------------------------------------------------------------------
(***************************************************************************)
(* Remote calls.  A call that fails was not sent (ee_sif_rpc_call returns  *)
(* -2) or its reply was not seen (-3), in which case the IOP has carried   *)
(* it out.                                                                 *)
(***************************************************************************)

Call(fno, entries) ==
    \/ /\ rpc' = [at |-> fno, entries |-> entries, rc |-> "ok"]
       /\ UNCHANGED faults
    \/ /\ faults < MaxFaults /\ faults' = faults + 1
       /\ rpc' = [at |-> "done", entries |-> entries, rc |-> "failed"]

Answer(rc) ==
    \/ /\ rpc' = [rpc EXCEPT !.at = "done", !.rc = rc]
       /\ UNCHANGED faults
    \/ /\ faults < MaxFaults /\ faults' = faults + 1
       /\ rpc' = [rpc EXCEPT !.at = "done", !.rc = "failed"]

\* RELEASE_RX_BATCH: all entries or none.
Releasable == \A i \in DOMAIN rpc.entries : rpc.entries[i].seq = rxSeq[rpc.entries[i].slot]

HandleRelease ==
    /\ rpc.at = "release"
    /\ LET m == IF Releasable THEN [mem EXCEPT !.tail = @ + Len(rpc.entries)] ELSE mem
       IN  mem' = m /\ vis' = m
    /\ Answer(IF Releasable THEN "ok" ELSE "refused")
    /\ UNCHANGED <<irx, ready, ee, eeVars, iopVars, txData, pump, stall, chip, hist>>

\* SUBMIT_TX and SUBMIT_TX_BATCH: the number is the slot's next and it is free.
Submittable_noSeq == \A i \in DOMAIN rpc.entries : mem.tx[rpc.entries[i].slot] = "FREE"

Submittable ==
    \A i \in DOMAIN rpc.entries :
        /\ rpc.entries[i].seq = txSeq[rpc.entries[i].slot]
        /\ mem.tx[rpc.entries[i].slot] = "FREE"

Submitted == {rpc.entries[i].slot : i \in DOMAIN rpc.entries}

HandleSubmit_unflushed ==
    /\ rpc.at = "submit"
    /\ IF Submittable
       THEN /\ mem' = [mem EXCEPT !.tx = [s \in TxSlot |->
                          IF s \in Submitted THEN "BUSY" ELSE @[s]]]
            /\ txSeq' = [s \in TxSlot |->
                          IF s \in Submitted THEN txSeq[s] + 1 ELSE txSeq[s]]
       ELSE UNCHANGED <<mem, txSeq>>
    /\ Answer(IF Submittable THEN "ok" ELSE "refused")
    /\ UNCHANGED <<irx, ready, ee, eeVars, vis, rxSeq, txData, pump, stall, chip, hist>>

HandleSubmit ==
    /\ rpc.at = "submit"
    /\ IF Submittable
       THEN /\ mem' = [mem EXCEPT !.tx = [s \in TxSlot |->
                          IF s \in Submitted THEN "BUSY" ELSE @[s]]]
            /\ txSeq' = [s \in TxSlot |->
                          IF s \in Submitted THEN txSeq[s] + 1 ELSE txSeq[s]]
       ELSE UNCHANGED <<mem, txSeq>>
    /\ vis' = mem'
    /\ Answer(IF Submittable THEN "ok" ELSE "refused")
    /\ UNCHANGED <<irx, ready, ee, eeVars, rxSeq, txData, pump, stall, chip, hist>>

-----------------------------------------------------------------------------
(***************************************************************************)
(* The EE.  One thread: it polls, handles a frame, sends, and gives slots  *)
(* back; ps2_smap_release_pending is a release, then a flush of the staged *)
(* frames, which falls back to single submissions.                         *)
(***************************************************************************)

\* ps2_smap_flush_tx
FlushTx(subs, then) ==
    IF subs = << >>
    THEN ee' = At(then) /\ rpc' = Idle /\ UNCHANGED faults
    ELSE ee' = [At("batch") EXCEPT !.then = then] /\ Call("submit", subs)

\* ps2_smap_release_pending, with the releases given
ReleasePending(rels) ==
    IF rels = << >>
    THEN FlushTx(sub, "loop")
    ELSE ee' = [At("release") EXCEPT !.then = "loop"] /\ Call("release", rels)

RxSlotOf(n) == n % RxSlots

\* ps2_smap_poll: a frame is copied out and its slot staged for release.  A
\* frame longer than the buffer is left where it is; no descriptor has a length
\* the other test rejects, as smap_iop_drain_rx uses the same limits.
Poll ==
    /\ ee.at = "loop" /\ vis.head # rxTail
    /\ LET slot == RxSlotOf(rxTail)
           r == vis.ring[slot]
           rels == Append(rel, [slot |-> slot, seq |-> r.seq])
       IN  /\ ~r.long
           /\ read' = Append(read, r.frame)
           /\ rel' = rels
           /\ rxTail' = rxTail + 1
           /\ IF Len(rels) >= Watermark
              THEN ReleasePending(rels)
              ELSE UNCHANGED <<ee, rpc, faults>>
    /\ UNCHANGED <<irx, ready, sub, nextSlot, eeSeq, mem, vis, iopVars, txData, pump,
                   stall, chip, staged, wire, dropped>>

\* The receive loop's own call, after it has found the ring empty.
LoopReleases ==
    /\ ee.at = "loop" /\ (rel # << >> \/ sub # << >>)
    /\ ReleasePending(rel)
    /\ UNCHANGED <<irx, ready, eeVars, mem, vis, iopVars, txData, pump, stall, chip, hist>>

ReleaseReturns_keeps ==
    /\ ee.at = "release" /\ rpc.at = "done"
    /\ rel' = IF rpc.rc = "ok" THEN << >> ELSE rel
    /\ FlushTx(sub, "loop")
    /\ UNCHANGED <<irx, ready, rxTail, sub, nextSlot, eeSeq, mem, vis, iopVars, txData,
                   pump, stall, chip, hist>>

\* The staged releases are forgotten whatever the outcome.
ReleaseReturns ==
    /\ ee.at = "release" /\ rpc.at = "done"
    /\ rel' = << >>
    /\ FlushTx(sub, "loop")
    /\ UNCHANGED <<irx, ready, rxTail, sub, nextSlot, eeSeq, mem, vis, iopVars, txData,
                   pump, stall, chip, hist>>

\* Back from ps2_smap_flush_tx: nothing is staged or claimed any more.
Flushed == sub' = << >> /\ ee' = [At(ee.then) EXCEPT !.frame = ee.frame] /\ rpc' = Idle

BatchReturns ==
    /\ ee.at = "batch" /\ rpc.at = "done"
    /\ \/ rpc.rc = "ok" /\ Flushed /\ UNCHANGED faults
       \/ /\ rpc.rc # "ok"
          /\ ee' = [ee EXCEPT !.at = "single", !.i = 1]
          /\ Call("submit", <<sub[1]>>) /\ UNCHANGED sub
    /\ UNCHANGED <<irx, ready, rxTail, rel, nextSlot, eeSeq, mem, vis, iopVars, txData,
                   pump, stall, chip, hist>>

SingleReturns ==
    /\ ee.at = "single" /\ rpc.at = "done"
    /\ \/ ee.i = Len(sub) /\ Flushed /\ UNCHANGED faults
       \/ /\ ee.i < Len(sub)
          /\ ee' = [ee EXCEPT !.i = @ + 1]
          /\ Call("submit", <<sub[ee.i + 1]>>) /\ UNCHANGED sub
    /\ UNCHANGED <<irx, ready, rxTail, rel, nextSlot, eeSeq, mem, vis, iopVars, txData,
                   pump, stall, chip, hist>>

Claimed == {sub[i].slot : i \in DOMAIN sub}

FreeSlots == {s \in TxSlot : vis.tx[s] = "FREE" /\ s \notin Claimed}

\* tx_scan_free_slot: the first of them from g_tx_next_slot on
Scanned == CHOOSE s \in FreeSlots :
              \A t \in FreeSlots : (s - nextSlot) % TxSlots <= (t - nextSlot) % TxSlots

\* The rest of ps2_smap_send, once it has a slot: the frame is moved to IOP RAM
\* and its submission staged; a full batch is flushed.
StageFrame(f) ==
    LET slot == Scanned
        subs == Append(sub, [slot |-> slot, seq |-> eeSeq[slot], frame |-> f])
    IN  /\ nextSlot' = (slot + 1) % TxSlots
        /\ txData' = [txData EXCEPT ![slot] = f]
        /\ eeSeq' = [eeSeq EXCEPT ![slot] = @ + 1]
        /\ sub' = subs
        /\ staged' = staged \cup {f}
        /\ IF Len(subs) >= Batch
           THEN FlushTx(subs, "loop")
           ELSE ee' = At("loop") /\ UNCHANGED <<rpc, faults>>

\* ee_sif_iop_write fails: the frame is refused, the round-robin has moved on.
WriteFails ==
    /\ faults < MaxFaults /\ faults' = faults + 1
    /\ nextSlot' = (Scanned + 1) % TxSlots
    /\ ee' = At("loop")
    /\ UNCHANGED <<rpc, sub, eeSeq, txData, staged>>

NextFrame == Cardinality(staged) + 1

Send ==
    /\ ee.at = "loop" /\ Cardinality(staged) < MaxTx /\ MoreFrames
    /\ \/ FreeSlots # {} /\ (StageFrame(NextFrame) \/ WriteFails)
       \/ /\ FreeSlots = {}
          /\ FlushTx(sub, "wait")
          /\ UNCHANGED <<sub, nextSlot, eeSeq, txData, staged>>
    /\ UNCHANGED <<irx, ready, rxTail, rel, mem, vis, iopVars, pump, stall, chip, read,
                   wire, dropped>>

\* The bounded wait for the IOP to free a slot.
SendWaits ==
    /\ ee.at = "wait" /\ FreeSlots # {}
    /\ StageFrame(NextFrame) \/ WriteFails
    /\ UNCHANGED <<irx, ready, rxTail, rel, mem, vis, iopVars, pump, stall, chip, read,
                   wire, dropped>>

SendGivesUp ==
    /\ ee.at = "wait" /\ FreeSlots = {}
    /\ ee' = At("loop")
    /\ UNCHANGED <<irx, ready, eeVars, rpc, mem, vis, iopVars, txData, pump, stall, chip,
                   faults, hist>>

-----------------------------------------------------------------------------
(***************************************************************************)
(* The pump thread: reclaim the FIFO, feed it from the busy slots in slot  *)
(* order, drain received frames, flush if anything was written.            *)
(***************************************************************************)

IopKeeps == UNCHANGED <<irx, ready, ee, eeVars, rpc, txSeq, txData, faults, read, staged, wire>>

PumpStarts ==
    /\ pump.at = "sleep" /\ irx # "absent" /\ irx # "starting"
    /\ pump' = [Asleep EXCEPT !.at = "tx"]
    /\ chip' = [chip EXCEPT !.used = Len(chip.tx), !.error = FALSE]
    /\ UNCHANGED <<mem, vis, rxSeq, stall, dropped>> /\ IopKeeps

After(p) == IF p.slot + 1 = TxSlots THEN [p EXCEPT !.at = "stall"]
                                     ELSE [p EXCEPT !.slot = @ + 1]

PumpSends_dropsWhenFull ==
    /\ pump.at = "tx"
    /\ \/ /\ mem.tx[pump.slot] = "BUSY"
          /\ chip' = IF chip.used < Fifo
                     THEN [chip EXCEPT !.tx = Append(@, txData[pump.slot]), !.used = @ + 1]
                     ELSE chip
          /\ mem' = [mem EXCEPT !.tx[pump.slot] = "FREE"]
          /\ pump' = After([pump EXCEPT !.dirty = TRUE, !.progress = TRUE])
       \/ /\ mem.tx[pump.slot] = "FREE"
          /\ pump' = After(pump) /\ UNCHANGED <<chip, mem>>
    /\ UNCHANGED <<vis, rxSeq, stall, dropped>> /\ IopKeeps

PumpSends_noRoom ==
    /\ pump.at = "tx"
    /\ \/ /\ mem.tx[pump.slot] = "BUSY"
          /\ chip' = [chip EXCEPT !.tx = Append(@, txData[pump.slot]), !.used = @ + 1]
          /\ mem' = [mem EXCEPT !.tx[pump.slot] = "FREE"]
          /\ pump' = After([pump EXCEPT !.dirty = TRUE, !.progress = TRUE])
       \/ /\ mem.tx[pump.slot] = "FREE"
          /\ pump' = After(pump) /\ UNCHANGED <<chip, mem>>
    /\ UNCHANGED <<vis, rxSeq, stall, dropped>> /\ IopKeeps

\* smap_iop_send, for one slot: without room in the FIFO the slot stays busy.
PumpSends ==
    /\ pump.at = "tx"
    /\ \/ /\ mem.tx[pump.slot] = "BUSY" /\ chip.used < Fifo
          /\ chip' = [chip EXCEPT !.tx = Append(@, txData[pump.slot]), !.used = @ + 1]
          /\ mem' = [mem EXCEPT !.tx[pump.slot] = "FREE"]
          /\ pump' = After([pump EXCEPT !.dirty = TRUE, !.progress = TRUE])
       \/ /\ mem.tx[pump.slot] = "BUSY" /\ chip.used >= Fifo
          /\ pump' = After([pump EXCEPT !.waiting = TRUE])
          /\ UNCHANGED <<chip, mem>>
       \/ /\ mem.tx[pump.slot] = "FREE"
          /\ pump' = After(pump) /\ UNCHANGED <<chip, mem>>
    /\ UNCHANGED <<vis, rxSeq, stall, dropped>> /\ IopKeeps

Busy == {s \in TxSlot : mem.tx[s] = "BUSY"}

PumpCounts_never ==
    /\ pump.at = "stall"
    /\ stall' = IF pump.progress \/ ~pump.waiting THEN 0 ELSE 1
    /\ pump' = [pump EXCEPT !.at = "rx"]
    /\ UNCHANGED <<mem, dropped>>
    /\ UNCHANGED <<vis, rxSeq, chip>> /\ IopKeeps

\* Nothing has gone out for StallLimit turns: every waiting slot is given up.
PumpCounts ==
    /\ pump.at = "stall"
    /\ \/ /\ pump.progress \/ ~pump.waiting
          /\ stall' = 0 /\ pump' = [pump EXCEPT !.at = "rx"]
          /\ UNCHANGED <<mem, dropped>>
       \/ /\ ~pump.progress /\ pump.waiting /\ stall + 1 < StallLimit
          /\ stall' = stall + 1 /\ pump' = [pump EXCEPT !.at = "rx"]
          /\ UNCHANGED <<mem, dropped>>
       \/ /\ ~pump.progress /\ pump.waiting /\ stall + 1 >= StallLimit
          /\ stall' = 0 /\ pump' = [pump EXCEPT !.at = "rx", !.dirty = TRUE]
          /\ mem' = [mem EXCEPT !.tx = [s \in TxSlot |-> "FREE"]]
          /\ dropped' = dropped \cup {txData[s] : s \in Busy}
    /\ UNCHANGED <<vis, rxSeq, chip>> /\ IopKeeps

RingFull_never == FALSE

RingFull == /\ (mem.head + 1) % RxSlots = mem.tail % RxSlots
            /\ mem.head # mem.tail

\* smap_iop_drain_rx, one frame: dropped, or copied into the slot at rx_head.
PumpReceives ==
    /\ pump.at = "rx" /\ chip.rx # << >>
    /\ LET f == Head(chip.rx)
           slot == RxSlotOf(mem.head)
       IN  \/ /\ f = "error" \/ RingFull
              /\ chip' = [chip EXCEPT !.rx = Tail(@)]
              /\ UNCHANGED <<pump, mem, rxSeq>>
           \/ /\ f # "error" /\ ~RingFull
              /\ rxSeq' = [rxSeq EXCEPT ![slot] = @ + 1]
              /\ mem' = [mem EXCEPT !.ring[slot] =
                            [frame |-> mem.head + 1, long |-> f = "long", seq |-> rxSeq[slot] + 1]]
              /\ pump' = [pump EXCEPT !.at = "head"]
              /\ UNCHANGED chip
    /\ UNCHANGED <<vis, stall, dropped>> /\ IopKeeps

PumpPublishes_clean ==
    /\ pump.at = "head"
    /\ mem' = [mem EXCEPT !.head = @ + 1]
    /\ chip' = [chip EXCEPT !.rx = Tail(@)]
    /\ pump' = [pump EXCEPT !.at = "rx"]
    /\ UNCHANGED <<vis, rxSeq, stall, dropped>> /\ IopKeeps

\* ... and rx_head moves past it.
PumpPublishes ==
    /\ pump.at = "head"
    /\ mem' = [mem EXCEPT !.head = @ + 1]
    /\ chip' = [chip EXCEPT !.rx = Tail(@)]
    /\ pump' = [pump EXCEPT !.at = "rx", !.dirty = TRUE]
    /\ UNCHANGED <<vis, rxSeq, stall, dropped>> /\ IopKeeps

PumpEnds ==
    /\ pump.at = "rx" /\ chip.rx = << >>
    /\ vis' = IF pump.dirty THEN mem ELSE vis
    /\ pump' = Asleep
    /\ UNCHANGED <<mem, rxSeq, stall, chip, dropped>> /\ IopKeeps

-----------------------------------------------------------------------------
(***************************************************************************)
(* The hardware: IOP writes that reach RAM early, and the chip.  Each may  *)
(* happen at any time and is modelled just before the code can see it.     *)
(***************************************************************************)

WriteBack ==
    /\ ee.at \in {"loop", "wait"} /\ vis # mem /\ vis' = mem
    /\ UNCHANGED <<irx, ready, ee, eeVars, rpc, mem, iopVars, txData, pump, stall, chip,
                   faults, hist>>

Arrive ==
    /\ pump.at = "rx" /\ chip.rx = << >> /\ chip.next <= MaxRx /\ MoreFrames
    /\ \E k \in Kinds :
           /\ k = "error" => ~chip.error
           /\ chip' = [chip EXCEPT !.rx = Append(@, k), !.error = @ \/ k = "error",
                                   !.next = IF k = "error" THEN @ ELSE @ + 1]
    /\ UNCHANGED <<irx, ready, ee, eeVars, rpc, mem, vis, iopVars, txData, pump, stall,
                   faults, hist>>

\* The chip sends the oldest frame of its FIFO; with the link down it never does.
Transmit ==
    /\ pump.at = "sleep" /\ chip.tx # << >>
    /\ chip' = [chip EXCEPT !.tx = Tail(@)]
    /\ wire' = wire \cup {Head(chip.tx)}
    /\ UNCHANGED <<irx, ready, ee, eeVars, rpc, mem, vis, iopVars, txData, pump, stall,
                   faults, read, staged, dropped>>

-----------------------------------------------------------------------------
Irx == IrxStart \/ IrxRegister \/ IrxReady
Handler == HandleRelease \/ HandleSubmit
Pump == PumpStarts \/ PumpSends \/ PumpCounts \/ PumpReceives \/ PumpPublishes \/ PumpEnds
Ee == BootLoads \/ EeBinds \/ ReleaseReturns \/ BatchReturns \/ SingleReturns
      \/ SendWaits \/ SendGivesUp \/ LoopReleases
Next == Irx \/ Handler \/ Pump \/ Ee \/ EeGivesUp \/ Poll \/ Send \/ WriteBack \/ Arrive
        \/ Transmit

(***************************************************************************)
(* The IOP's two threads and the loader's receive loop run on; nothing is  *)
(* assumed of the chip, nor that writes reach RAM before a flush.          *)
(***************************************************************************)
Spec == /\ Init /\ [][Next]_vars
        /\ WF_vars(Irx) /\ WF_vars(Handler) /\ WF_vars(Pump) /\ WF_vars(Ee)
        /\ WF_vars(Poll)

-----------------------------------------------------------------------------
Entries == [slot : RxSlot, seq : Nat]
Submits == [slot : TxSlot, seq : Nat, frame : 1 .. MaxTx]
Words == [head : 0 .. MaxRx, tail : 0 .. MaxRx, tx : [TxSlot -> {"FREE", "BUSY"}],
          ring : [RxSlot -> [frame : 0 .. MaxRx, long : BOOLEAN, seq : 0 .. MaxRx]]]

(* The shapes of the loader's and the IOP's state; in particular no queue  *)
(* outgrows its array and rx_tail_iop_view never runs past rx_head.        *)
TypeOK ==
    /\ irx \in {"absent", "starting", "resident", "registered"} /\ ready \in BOOLEAN
    /\ ee.at \in {"boot", "poll", "failed", "loop", "release", "batch", "single", "wait"}
    /\ rxTail \in 0 .. MaxRx /\ nextSlot \in TxSlot
    /\ Len(rel) <= Watermark /\ Range(rel) \subseteq Entries
    /\ Len(sub) <= Batch /\ Range(sub) \subseteq Submits
    /\ mem \in Words /\ vis \in Words
    /\ mem.tail <= mem.head /\ mem.head - mem.tail < RxSlots
    /\ txData \in [TxSlot -> 0 .. MaxTx] /\ stall \in 0 .. StallLimit - 1
    /\ Len(chip.tx) <= chip.used /\ chip.used <= Fifo

(* The EE binds only to a server that is registered: a ready word left by  *)
(* the loader before it (a firmware update) is never taken for the new     *)
(* module's.                                                               *)
BindsRegistered == ee.at \notin {"boot", "poll", "failed"} => irx = "registered"

(* Frames come out of the ring whole, once, and in the order the pump put  *)
(* them in: no slot the EE has not copied out is written again, and the EE *)
(* never sees rx_head before the frame it covers.                          *)
ReadsInOrder == \A i \in DOMAIN read : read[i] = i

(* Receive slots are not lost and never given back twice: what the EE has  *)
(* consumed is released, staged or being released; each failed call costs  *)
(* the ring one batch at the most.                                         *)
ReleasesAccount ==
    LET pending == IF rpc.at = "done" /\ ee.at = "release" THEN 0 ELSE Len(rel)
        gone == rxTail - mem.tail - pending
    IN  /\ gone <= Watermark * faults
        /\ mem.tail <= rxTail

(* A frame goes out at most once, whatever is retried after a failed call. *)
SentOnce == [][\A f \in Range(chip'.tx) \ Range(chip.tx) : f \notin wire]_vars

(* Without failed calls every frame ps2_smap_send accepted is staged, in a *)
(* busy slot, in the FIFO, sent, or was given up with the stalled ring.    *)
FramesAccount ==
    faults = 0 =>
        staged = wire \cup Range(chip.tx) \cup {txData[s] : s \in Busy} \cup dropped
                 \cup {sub[i].frame : i \in DOMAIN sub}

(* The EE never writes a transmit slot that the IOP has yet to send, even  *)
(* though it reads the slot's state from memory that lags behind.          *)
SlotsOwned == [][\A s \in TxSlot : txData'[s] # txData[s] => mem.tx[s] = "FREE"]_vars

(* The accounts of the two rings: queues within their arrays, no slot and  *)
(* no frame lost, and only with a server that is there.                    *)
RingsInv == TypeOK /\ BindsRegistered /\ ReleasesAccount /\ FramesAccount

(* What a step never does to the transmit ring: send a frame twice, or     *)
(* write a slot that is still to be sent.                                  *)
TxRingKept == SentOnce /\ SlotsOwned

(* Every busy slot becomes free again, even if the chip never sends.       *)
SlotsFreed == \A s \in TxSlot : mem.tx[s] = "BUSY" ~> mem.tx[s] = "FREE"

(* Every frame in the ring reaches the loader: the pump flushes what it    *)
(* has written although it skips the flush when it thinks it is clean, and *)
(* ps2_smap_poll never leaves a frame behind (its comment: "leave the slot *)
(* occupied so the caller can retry with a bigger buffer").                *)
FramesRead == []<>(rxTail = mem.head \/ ee.at = "failed")
=============================================================================
