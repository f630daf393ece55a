------------------------------ MODULE SifBroker ------------------------------
(***************************************************************************)
(* The PlayStation 2 SIF broker: client/playstation2/sif_broker.c over the *)
(* polling SIF stack of ee_sif.c.  A guest program calls the broker's      *)
(* functions; some poll for the IOP's reply, some only submit a request    *)
(* that ps2_sif_broker_isr completes when the reply arrives.  Both wait on *)
(* one receive buffer that holds one packet, and the interrupt is held     *)
(* back only inside a BROKER_POLL_SCOPE.                                   *)
(*                                                                         *)
(* The IOP is external: it serves the requests in any order, its heap is a *)
(* set of blocks, and it may send commands of its own at any time.  A      *)
(* reply's data is in EE memory when its packet is.                        *)
(***************************************************************************)
EXTENDS Integers, Sequences, FiniteSets, Functions

CONSTANTS
    Clients,        \* kosload_sif_client_t objects of the guest, numbered
    Blocks,         \* blocks of the IOP heap: positive integers
    Slots,          \* 1 .. BROKER_PKT_COUNT
    MaxAllocs,      \* BROKER_MAX_IOP_ALLOCS
    MaxPending,     \* BROKER_PENDING_FREE_MAX
    None,           \* no client, no packet
    MaxCalls,       \* bound: calls of the broker that guests make
    MaxNotes,       \* bound: commands the IOP sends unasked
    MaxFaults,      \* bound: transfers that time out
    MaxCrashes,     \* bound: guests that end without close()
    SyncAlone       \* TRUE: a guest polls only while nothing is in flight

AsyncOps == {"bind", "call", "load", "path"}
PollOps  == {"alloc", "free", "read", "write"}
Ops      == AsyncOps \cup PollOps \cup {"close"}
NoBlock  == 0      \* NULL
HeapClient == -1   \* iopheap_client
LoadClient == -2   \* broker_loadfile_client
Argument == -1     \* the word the EE itself put in iopheap_arg

ASSUME SifBrokerAssumption ==
    /\ Blocks \subseteq Nat \ {0}
    /\ IsFiniteSet(Clients) /\ Clients \subseteq Nat /\ IsFiniteSet(Slots) /\ Slots \subseteq Nat
    /\ MaxPending \in Nat \ {0}
    /\ {MaxAllocs, MaxCalls, MaxNotes, MaxFaults, MaxCrashes} \subseteq Nat
    /\ SyncAlone \in BOOLEAN
    /\ None \notin Clients
    /\ None \notin [p : {"end", "cmd"}, id : Nat,     \* no packet
                    kind : AsyncOps \cup {"heapbind", "heapalloc", "heapfree", "lfbind", "other", "note"},
                    cd : Clients \cup {None, HeapClient, LoadClient}, blk : Nat]

VARIABLES
    g,              \* the guest inside the broker: where it is and its locals
    active,         \* g_session.active
    allocs,         \* g_session.iop_addrs
    handler,        \* g_session.handlers: the guest whose handler it is, 0 for none
    slots,          \* broker_active
    priv,           \* the clients' broker_priv_t
    pend, count,    \* pending_free, pending_free_count
    loading,        \* lmb_in_flight
    staging,        \* lmb_in_flight_staging
    lfbound,        \* broker_loadfile_bound
    heapbound,      \* iopheap_client.server is set
    heaparg,        \* iopheap_arg, the word sent to and filled by the IOP heap
    scratch,        \* the request whose data ee_sif_iop_read finds, 0 before it
    rx, dstat, armed, \* the receive buffer, D_STAT.SIF0, D5_CHCR.STR
    reqs, iopq,     \* IOP: requests it has, packets it is sending
    heap,           \* IOP: blocks in use
    nextid,         \* (history) requests sent
    subm, done,     \* (history) the request each client waits for, the one that completed it
    orphans,        \* (history) blocks dropped by open() or close()
    gen, slotgen,   \* (history) guests started, the guest that filled each slot
    wild,           \* (history) the interrupt called into a guest that is gone
    abandoned,      \* (history) clients whose operation open() or close() dropped, None
                    \* for a read that gave up: their replies are still to come
    stolen,         \* (history) the interrupt took a packet that was polled for
    misread,        \* (history) an iop_read gave another read's data
    budget

brokerVars == <<active, allocs, handler, slots, priv, pend, count, loading, staging, lfbound>>
sifVars    == <<heapbound, heaparg, scratch, rx, dstat, armed>>
iopVars    == <<reqs, iopq, heap>>
histVars   == <<nextid, subm, done, orphans, gen, slotgen, wild, abandoned, stolen, misread>>
vars       == <<g, brokerVars, sifVars, iopVars, histVars, budget>>

\* blk is the block in hand; want, word, kind, req, ret, masked belong to the call
\* of the SIF stack being made (what is asked for and with which word, what was
\* sent, where to go on with its return code rc), n and i to pending_free_drain.
Idle == [pc |-> "idle", op |-> "none", c |-> None, blk |-> NoBlock,
         want |-> "none", word |-> NoBlock, kind |-> "none", req |-> 0, ret |-> "idle", masked |-> FALSE, rc |-> 0,
         n |-> 0, i |-> 1]

Free(f) == {s \in Slots : f[s] = None}
Lowest(S) == CHOOSE x \in S : \A y \in S : x <= y

Request(kind, cd, blk) == [id |-> nextid + 1, kind |-> kind, cd |-> cd, blk |-> blk]
Packet(p, r, blk)      == [p |-> p, id |-> r.id, kind |-> r.kind, cd |-> r.cd, blk |-> blk]
Note                   == [id |-> 0, kind |-> "note", cd |-> None, blk |-> NoBlock]

Spend(what) == budget[what] > 0 /\ budget' = [budget EXCEPT ![what] = @ - 1]

-----------------------------------------------------------------------------
(* ee_sif.c: sending, and polling for a reply *)

\* Wrong variants of a definition, each a slip the code could have made, are
\* named after it with a suffix; the properties must reject every one.

\* ee_sif_rearm_receive without the memset.
Rearmed_keepsPacket(stat) == /\ rx' = rx
                             /\ armed' = TRUE
                             /\ dstat' = (IF armed THEN stat ELSE FALSE)

\* ee_sif_rearm_receive: the buffer is cleared, and the channel started when
\* it has stopped.
Rearmed(stat) == /\ rx' = None
                 /\ armed' = TRUE
                 /\ dstat' = (IF armed THEN stat ELSE FALSE)

\* ee_sif_send_cmd: one DMA job, waited for.
Send(r) == reqs' = reqs \cup {r} /\ nextid' = r.id

\* ee_sif_rpc_bind and ee_sif_rpc_call up to the reply; the heap's functions
\* bind their client first when it is not bound.
Rpc(want, cd, word, masked, ret) ==
    LET kind == IF cd = HeapClient /\ ~heapbound THEN "heapbind" ELSE want
        r    == Request(kind, cd, word)
    IN  /\ Send(r)
        /\ heaparg' = CASE kind = "heapalloc" -> Argument
                        [] kind = "heapfree" -> word
                        [] OTHER -> heaparg
        /\ g' = [g EXCEPT !.pc = "poll", !.want = want, !.kind = kind, !.req = r.id,
                          !.word = word, !.ret = ret, !.masked = masked]

IsBind(kind) == kind \in {"heapbind", "lfbind", "bind"}

\* ee_sif_poll_packet finds a packet.  The first RPC_END is the reply; a bind
\* also looks at what it answers.  Any other packet goes to
\* ee_sif_dispatch_cmd, which knows no handlers of the guest.
PollReturns ==
    /\ g.pc = "poll" /\ dstat
    /\ Rearmed(FALSE)
    /\ g' = IF rx # None /\ rx.p = "end"
            THEN [g EXCEPT !.pc = "polled",
                           !.rc = IF IsBind(g.kind) /\ ~IsBind(rx.kind) THEN -4 ELSE 0]
            ELSE g
    /\ UNCHANGED <<brokerVars, heapbound, heaparg, scratch, iopVars, histVars, budget>>

\* The reply to a request is neither with the IOP nor on its way.
Gone(id) == /\ \A r \in reqs : r.id # id
            /\ \A k \in 1 .. Len(iopq) : iopq[k].id # id
            /\ rx # None => rx.id # id

\* Polling without a limit.
PollTimesOut_never ==
    FALSE /\ UNCHANGED vars

\* It gives up; only ee_sif_rpc_bind starts the receiver again.
PollTimesOut ==
    /\ g.pc = "poll" /\ ~dstat /\ Gone(g.req)
    /\ g' = [g EXCEPT !.pc = "polled", !.rc = -2]
    /\ IF IsBind(g.kind) THEN Rearmed(dstat) ELSE UNCHANGED <<rx, dstat, armed>>
    /\ UNCHANGED <<brokerVars, heapbound, heaparg, scratch, iopVars, histVars, budget>>

\* What a step that starts a call of the SIF stack leaves alone.
Calling == UNCHANGED <<brokerVars, heapbound, scratch, rx, dstat, armed, iopq, heap, subm, done,
                       orphans, gen, slotgen, wild, abandoned, stolen, misread, budget>>

\* ee_sif_alloc_iop_heap and ee_sif_free_iop_heap go on after their bind.
HeapBound ==
    /\ g.pc = "polled" /\ g.kind = "heapbind"
    /\ IF g.rc = 0
       THEN /\ heapbound' = TRUE
            /\ g' = [g EXCEPT !.pc = "rpc", !.kind = "none"]
       ELSE heapbound' = heapbound /\ g' = [g EXCEPT !.kind = "none"]
    /\ UNCHANGED <<brokerVars, heaparg, scratch, rx, dstat, armed, iopVars, histVars, budget>>

HeapCalls ==
    /\ g.pc = "rpc"
    /\ Rpc(g.want, HeapClient, g.word, g.masked, g.ret)
    /\ Calling

\* The call of the SIF stack has come back to the broker at this place.
Back(ret) == g.pc = "polled" /\ g.kind # "heapbind" /\ g.ret = ret
\* ... and what the heap's functions return.
HeapResult == IF g.rc < 0 THEN NoBlock ELSE heaparg

\* Steps of the guest that leave the receiver and the IOP alone.
Local == UNCHANGED <<sifVars, iopVars, histVars, budget>>

-----------------------------------------------------------------------------
(* The broker's functions: the checks, then pending_free_drain *)

InFlight(c) == priv[c].status = "inflight"
AnyInFlight == \E s \in Slots : slots[s] # None

\* What a careful guest adds to the checks below: it polls only while nothing
\* is in flight, and while a module loads it does nothing but try another load.
Careful(op) == SyncAlone => CASE op \in {"load", "path"} -> loading \/ ~AnyInFlight
                              [] op \in PollOps -> ~AnyInFlight
                              [] OTHER -> ~loading

\* The checks that let a call of the function in.
Admits_twoLoads(op, c) ==
    /\ op \in AsyncOps => ~InFlight(c)
    /\ op = "call" => priv[c].bound

Admits(op, c) ==
    /\ op \in AsyncOps => ~InFlight(c)
    /\ op = "call" => priv[c].bound
    /\ op \in {"load", "path"} => ~loading

Call(op, c, blk) ==
    /\ g = Idle /\ active
    /\ Admits(op, c) /\ Careful(op)
    /\ Spend("calls")
    /\ g' = [g EXCEPT !.pc = "drain", !.op = op, !.c = c, !.blk = blk]
    /\ UNCHANGED <<brokerVars, sifVars, iopVars, histVars>>

\* Unused clients are alike: they come into use in order.
InOrder(c) == \A d \in Clients : d < c => subm[d] # 0

CallAsync == \E op \in AsyncOps, c \in Clients : InOrder(c) /\ Call(op, c, NoBlock)
CallSync  == \E op \in {"alloc", "read", "write", "close"} : Call(op, None, NoBlock)
CallFree  == \E b \in allocs : Call("free", None, b)

\* pending_free_drain reads the count, ...
DrainRead ==
    /\ g.pc = "drain"
    /\ g' = [g EXCEPT !.pc = "draining", !.i = 1,
                      !.n = IF count > MaxPending THEN MaxPending ELSE count]
    /\ UNCHANGED brokerVars /\ Local

\* ... frees each block, with interrupts as the guest has them, ...
DrainFree ==
    /\ g.pc = "draining" /\ g.i <= g.n
    /\ Rpc("heapfree", HeapClient, pend[g.i], FALSE, "drained")
    /\ Calling

DrainFreed ==
    /\ Back("drained")
    /\ pend' = [pend EXCEPT ![g.i] = NoBlock]
    /\ g' = [g EXCEPT !.pc = "draining", !.i = @ + 1]
    /\ UNCHANGED <<active, allocs, handler, slots, priv, count, loading, staging, lfbound>> /\ Local

\* ... and empties the queue.
DrainEnd ==
    /\ g.pc = "draining" /\ g.i > g.n
    /\ count' = 0
    /\ g' = [g EXCEPT !.pc = "body"]
    /\ UNCHANGED <<active, allocs, handler, slots, priv, pend, loading, staging, lfbound>> /\ Local

-----------------------------------------------------------------------------
(* The bodies *)

AtBody(ops) == g.pc = "body" /\ g.op \in ops

\* broker_iop_alloc, and the staging block of broker_load_module_buffer.
AllocCalls ==
    /\ AtBody({"alloc"}) \/ g.pc = "stage"
    /\ Rpc("heapalloc", HeapClient, NoBlock, TRUE, "alloc")
    /\ Calling

AllocReturns ==
    /\ Back("alloc") /\ g.op = "alloc"
    /\ HeapResult # NoBlock => Cardinality(allocs) < MaxAllocs
    /\ allocs' = allocs \cup ({HeapResult} \ {NoBlock})
    /\ g' = Idle
    /\ UNCHANGED <<active, handler, slots, priv, pend, count, loading, staging, lfbound>> /\ Local

\* alloc_record finds the table full; the transfer of a module, or the search
\* for a packet slot, has failed: the block goes back.
GiveBack(blk) == Rpc("heapfree", HeapClient, blk, TRUE, "end")

AllocFull ==
    /\ Back("alloc") /\ g.op = "alloc" /\ HeapResult # NoBlock
    /\ Cardinality(allocs) >= MaxAllocs
    /\ GiveBack(HeapResult)
    /\ Calling

Ends ==
    /\ Back("end")
    /\ g' = Idle
    /\ UNCHANGED brokerVars /\ Local

\* broker_iop_free
FreeCalls ==
    /\ AtBody({"free"})
    /\ Rpc("heapfree", HeapClient, g.blk, TRUE, "freed")
    /\ Calling

FreeReturns ==
    /\ Back("freed")
    /\ allocs' = IF HeapResult = NoBlock THEN allocs ELSE allocs \ {g.blk}
    /\ g' = Idle
    /\ UNCHANGED <<active, handler, slots, priv, pend, count, loading, staging, lfbound>> /\ Local

\* broker_iop_write: transfers only, each waited for.
Writes ==
    /\ AtBody({"write"})
    /\ g' = Idle
    /\ UNCHANGED brokerVars /\ Local

\* ee_sif_get_other_data without the fill pattern.
ReadCalls_noFill ==
    /\ AtBody({"read"})
    /\ LET r == Request("other", None, NoBlock)
       IN  /\ Send(r)
           /\ g' = [g EXCEPT !.pc = "reading", !.masked = TRUE, !.req = r.id]
    /\ Rearmed(dstat)
    /\ UNCHANGED <<brokerVars, heapbound, heaparg, scratch, iopq, heap, subm, done,
                   orphans, gen, slotgen, wild, abandoned, stolen, misread, budget>>

\* broker_iop_read: ee_sif_get_other_data clears the receiver and the scratch
\* buffer, asks for the data, ...
ReadCalls ==
    /\ AtBody({"read"})
    /\ LET r == Request("other", None, NoBlock)
       IN  /\ Send(r)
           /\ g' = [g EXCEPT !.pc = "reading", !.masked = TRUE, !.req = r.id]
    /\ Rearmed(dstat)
    /\ scratch' = 0
    /\ UNCHANGED <<brokerVars, heapbound, heaparg, iopq, heap, subm, done,
                   orphans, gen, slotgen, wild, abandoned, stolen, misread, budget>>

\* ... and looks at the buffer alone: it takes whatever packet came with it.
ReadReturns ==
    /\ g.pc = "reading" /\ scratch # 0
    /\ misread' = (misread \/ scratch # g.req)
    /\ Rearmed(FALSE)
    /\ g' = Idle
    /\ UNCHANGED <<brokerVars, heapbound, heaparg, scratch, iopVars, nextid, subm, done,
                   orphans, gen, slotgen, wild, abandoned, stolen, budget>>

\* Another packet holds the receiver: the data cannot come in.
ReadTimesOut ==
    /\ g.pc = "reading" /\ scratch = 0 /\ dstat
    /\ abandoned' = abandoned \cup {None}
    /\ g' = Idle
    /\ UNCHANGED <<brokerVars, sifVars, iopVars, nextid, subm, done, orphans, gen, slotgen, wild,
                   stolen, misread, budget>>

\* The module loads bind LOADFILE once.
LoadBinds ==
    /\ AtBody({"load", "path"}) /\ ~lfbound
    /\ Rpc("lfbind", LoadClient, NoBlock, TRUE, "bound")
    /\ Calling

AfterBind(op) == IF op = "load" THEN "stage" ELSE "submit"

LoadBound ==
    /\ Back("bound")
    /\ lfbound' = (g.rc = 0)
    /\ g' = IF g.rc = 0 THEN [g EXCEPT !.pc = AfterBind(g.op)] ELSE Idle
    /\ UNCHANGED <<active, allocs, handler, slots, priv, pend, count, loading, staging>> /\ Local

SkipsBind ==
    /\ AtBody({"bind", "call"}) \/ (AtBody({"load", "path"}) /\ lfbound)
    /\ g' = [g EXCEPT !.pc = AfterBind(g.op)]
    /\ UNCHANGED brokerVars /\ Local

\* The staging block is there: the image is copied, or not.
Staged ==
    /\ Back("alloc") /\ g.op = "load"
    /\ g' = IF HeapResult = NoBlock THEN Idle ELSE [g EXCEPT !.pc = "submit", !.blk = HeapResult]
    /\ UNCHANGED brokerVars /\ Local

StageFails ==
    /\ Back("alloc") /\ g.op = "load" /\ HeapResult # NoBlock
    /\ Spend("faults")
    /\ GiveBack(HeapResult)
    /\ UNCHANGED <<brokerVars, heapbound, scratch, rx, dstat, armed, iopq, heap, subm, done,
                   orphans, gen, slotgen, wild, abandoned, stolen, misread>>

NoSlot ==
    /\ g.pc = "submit" /\ Free(slots) = {}
    /\ IF g.op = "load" THEN GiveBack(g.blk) /\ Calling
       ELSE g' = Idle /\ UNCHANGED brokerVars /\ Local

\* The packet is filled in, the client is in flight, the request is sent.
Submitted(c) == [priv[c] EXCEPT !.status = "inflight", !.op = g.op]

Submit ==
    /\ g.pc = "submit" /\ Free(slots) # {}
    /\ LET s == Lowest(Free(slots))
       IN  /\ slots' = [slots EXCEPT ![s] = g.c]
           /\ slotgen' = [slotgen EXCEPT ![s] = gen]
    /\ priv' = [priv EXCEPT ![g.c] = Submitted(g.c)]
    /\ loading' = (loading \/ g.op \in {"load", "path"})
    /\ staging' = CASE g.op = "load" -> g.blk [] g.op = "path" -> NoBlock [] OTHER -> staging
    /\ Send(Request(g.op, g.c, g.blk))
    /\ subm' = [subm EXCEPT ![g.c] = nextid + 1]
    /\ done' = [done EXCEPT ![g.c] = 0]
    /\ g' = Idle
    /\ UNCHANGED <<active, allocs, handler, pend, count, lfbound, sifVars, iopq, heap,
                   orphans, gen, wild, abandoned, stolen, misread, budget>>

\* pending_free_push
Pushed(blk) ==
    /\ pend' = IF count < MaxPending THEN [pend EXCEPT ![count + 1] = blk] ELSE pend
    /\ count' = count + 1

\* ee_sif_send_cmd times out: the slot and the client are given up.
SubmitFails ==
    /\ g.pc = "submit" /\ Free(slots) # {}
    /\ Spend("faults")
    /\ priv' = [priv EXCEPT ![g.c].op = g.op, ![g.c].status = "idle"]
    /\ loading' = IF g.op \in {"load", "path"} THEN FALSE ELSE loading
    /\ staging' = CASE g.op = "load" -> g.blk [] g.op = "path" -> NoBlock [] OTHER -> staging
    /\ IF g.op = "load" THEN Pushed(g.blk) ELSE UNCHANGED <<pend, count>>
    /\ g' = Idle
    /\ UNCHANGED <<active, allocs, handler, slots, lfbound, sifVars, iopVars, histVars>>

-----------------------------------------------------------------------------
(* Sessions and handlers *)

Dropped == {slots[s] : s \in Slots} \ {None}
StagingBlock == IF loading THEN {staging} \ {NoBlock} ELSE {}

\* broker_close: the guest's blocks are freed one by one, ...
CloseFrees ==
    /\ AtBody({"close"}) /\ allocs # {}
    /\ Rpc("heapfree", HeapClient, Lowest(allocs), TRUE, "closing")
    /\ Calling

CloseFreed ==
    /\ Back("closing")
    /\ allocs' = allocs \ {g.word}
    /\ g' = [g EXCEPT !.pc = "body"]
    /\ UNCHANGED <<active, handler, slots, priv, pend, count, loading, staging, lfbound>> /\ Local

\* ... handlers and clients are dropped.
CloseEnds ==
    /\ AtBody({"close"}) /\ allocs = {}
    /\ active' = FALSE
    /\ handler' = 0
    /\ slots' = [s \in Slots |-> None]
    /\ loading' = FALSE /\ staging' = NoBlock /\ lfbound' = FALSE
    /\ abandoned' = abandoned \cup Dropped
    /\ orphans' = orphans \cup StagingBlock
    /\ g' = Idle
    /\ UNCHANGED <<allocs, priv, pend, count, sifVars, iopVars, nextid, subm, done,
                   gen, slotgen, wild, stolen, misread, budget>>

\* broker_open that only sets the flag.
Open_noReset ==
    /\ g.pc = "boot" \/ (g = Idle /\ ~active)
    /\ Spend("calls")
    /\ active' = TRUE
    /\ priv' = [c \in Clients |-> [status |-> "idle", op |-> "none", bound |-> FALSE]]
    /\ g' = Idle
    /\ UNCHANGED <<allocs, handler, slots, pend, count, loading, staging, lfbound, sifVars, iopVars,
                   nextid, subm, done, orphans, abandoned, gen, slotgen, wild, stolen, misread>>

\* broker_open, by a new guest or by one that has closed: whatever a guest
\* before it left is forgotten.  The guest's client objects start cleared.
Open ==
    /\ g.pc = "boot" \/ (g = Idle /\ ~active)
    /\ Spend("calls")
    /\ active' = TRUE
    /\ allocs' = {}
    /\ handler' = 0
    /\ slots' = [s \in Slots |-> None]
    /\ loading' = FALSE /\ staging' = NoBlock /\ lfbound' = FALSE
    /\ priv' = [c \in Clients |-> [status |-> "idle", op |-> "none", bound |-> FALSE]]
    /\ abandoned' = abandoned \cup Dropped
    /\ orphans' = orphans \cup allocs \cup StagingBlock
    /\ g' = Idle
    /\ UNCHANGED <<pend, count, sifVars, iopVars, nextid, subm, done, gen, slotgen, wild, stolen, misread>>

\* A guest ends without close(), outside the broker; the next one has yet to
\* call open().
Crash ==
    /\ g = Idle
    /\ Spend("crashes")
    /\ g' = [Idle EXCEPT !.pc = "boot"]
    /\ gen' = gen + 1
    /\ UNCHANGED <<brokerVars, sifVars, iopVars, nextid, subm, done, orphans, slotgen, wild,
                   abandoned, stolen, misread>>

\* broker_register_cmd_handler, broker_unregister_cmd_handler
Register ==
    /\ g = Idle /\ active
    /\ Spend("calls")
    /\ handler' = IF handler = 0 THEN gen ELSE 0
    /\ UNCHANGED <<g, active, allocs, slots, priv, pend, count, loading, staging, lfbound,
                   sifVars, iopVars, histVars>>

-----------------------------------------------------------------------------
(* The interrupt *)

Masked == g.masked /\ (g.pc \in {"poll", "rpc", "reading"} \/ g.kind = "heapbind")

\* The first client in flight, whichever it is (CALL_END has no packet address).
SlotOf_first(cd) == {s \in Slots : slots[s] # None}

\* slot_of_client
SlotOf(cd) == {s \in Slots : slots[s] = cd}

\* broker_complete, by the operation the client has in flight.
Complete_keepsStaging(c) ==
    /\ priv' = [priv EXCEPT ![c].status = "done",
                            ![c].bound = IF priv[c].op = "bind" THEN rx.blk # NoBlock ELSE @]
    /\ loading' = (IF priv[c].op \in {"load", "path"} THEN FALSE ELSE loading)
    /\ UNCHANGED <<pend, count, staging>>

Complete(c) ==
    /\ priv' = [priv EXCEPT ![c].status = "done",
                            ![c].bound = IF priv[c].op = "bind" THEN rx.blk # NoBlock ELSE @]
    /\ IF priv[c].op \in {"load", "path"}
       THEN /\ loading' = FALSE
            /\ staging' = NoBlock
            /\ IF staging # NoBlock THEN Pushed(staging) ELSE UNCHANGED <<pend, count>>
       ELSE UNCHANGED <<loading, staging, pend, count>>

\* An RPC_END for a client in a slot.
IsrEnd(s) ==
    /\ slots' = [slots EXCEPT ![s] = None]
    /\ Complete(slots[s])
    /\ done' = [done EXCEPT ![slots[s]] = rx.id]
    /\ wild' = (wild \/ slotgen[s] # gen)
    /\ UNCHANGED stolen

\* Any other packet: an RPC_END nobody is in a slot for, a command for the
\* handler table, or nothing.
IsrOther ==
    /\ stolen' = (stolen \/ (rx # None /\ g.pc = "poll" /\ rx.id = g.req))
    /\ wild' = (wild \/ (rx # None /\ rx.p = "cmd" /\ active /\ handler \notin {0, gen}))
    /\ UNCHANGED <<slots, priv, loading, staging, pend, count, done>>

\* The end of ps2_sif_broker_isr: acknowledge and start the receiver.
IsrAck_only == dstat' = FALSE /\ UNCHANGED <<rx, armed>>
IsrAck == Rearmed(FALSE)

\* ps2_sif_broker_isr
Isr ==
    /\ g.pc # "boot" /\ ~Masked /\ dstat
    /\ LET hit == IF rx = None THEN {} ELSE {s \in SlotOf(rx.cd) : rx.p = "end" /\ rx.cd # None}
       IN  IF hit # {} THEN IsrEnd(Lowest(hit)) ELSE IsrOther
    /\ IsrAck
    /\ UNCHANGED <<g, active, allocs, handler, lfbound, heapbound, heaparg, scratch, iopVars,
                   nextid, subm, orphans, gen, slotgen, abandoned, misread, budget>>

-----------------------------------------------------------------------------
(* The IOP *)

\* A request is served; the reply waits for the receiver.  A bind's reply
\* names the server, which may not be there.
IopServes(r) ==
    /\ r \in reqs
    /\ reqs' = reqs \ {r}
    /\ \/ /\ r.kind = "heapalloc"
          /\ \/ \E b \in Blocks \ heap : heap' = heap \cup {b} /\ iopq' = Append(iopq, Packet("end", r, b))
             \/ heap = Blocks /\ heap' = heap /\ iopq' = Append(iopq, Packet("end", r, NoBlock))
       \/ /\ r.kind = "heapfree"
          /\ heap' = heap \ {r.blk}
          /\ iopq' = Append(iopq, Packet("end", r, IF r.blk \in heap THEN r.blk ELSE NoBlock))
       \/ /\ r.kind \notin {"heapalloc", "heapfree"}
          /\ heap' = heap
          /\ \E sd \in IF r.kind = "bind" THEN {0, 1} ELSE {1} : iopq' = Append(iopq, Packet("end", r, sd))
    /\ UNCHANGED <<g, brokerVars, sifVars, histVars, budget>>

\* A command of its own (SET_SREG, or one a handler is registered for).
IopNotifies ==
    /\ Spend("notes")
    /\ iopq' = Append(iopq, Packet("cmd", Note, NoBlock))
    /\ UNCHANGED <<g, brokerVars, sifVars, reqs, heap, histVars>>

\* The SIF0 channel moves a packet, with its data, and stops.
Deliver ==
    /\ armed /\ iopq # <<>>
    /\ LET p == Head(iopq)
       IN  /\ rx' = p
           /\ heaparg' = IF p.kind \in {"heapalloc", "heapfree"} THEN p.blk ELSE heaparg
           /\ scratch' = IF p.kind = "other" THEN p.id ELSE scratch
    /\ iopq' = Tail(iopq)
    /\ dstat' = TRUE /\ armed' = FALSE
    /\ UNCHANGED <<g, brokerVars, heapbound, reqs, heap, histVars, budget>>

-----------------------------------------------------------------------------
Init ==
    /\ g = [Idle EXCEPT !.pc = "boot"]
    /\ active = FALSE /\ allocs = {} /\ handler = 0
    /\ slots = [s \in Slots |-> None]
    /\ priv = [c \in Clients |-> [status |-> "idle", op |-> "none", bound |-> FALSE]]
    /\ pend = [i \in 1 .. MaxPending |-> NoBlock] /\ count = 0
    /\ loading = FALSE /\ staging = NoBlock /\ lfbound = FALSE
    /\ heapbound = FALSE /\ heaparg = NoBlock /\ scratch = 0
    /\ rx = None /\ dstat = FALSE /\ armed = TRUE
    /\ reqs = {} /\ iopq = <<>> /\ heap = {}
    /\ nextid = 0 /\ subm = [c \in Clients |-> 0] /\ done = [c \in Clients |-> 0]
    /\ orphans = {} /\ abandoned = {} /\ gen = 1 /\ slotgen = [s \in Slots |-> 0]
    /\ wild = FALSE /\ stolen = FALSE /\ misread = FALSE
    /\ budget = [calls |-> MaxCalls, notes |-> MaxNotes, faults |-> MaxFaults, crashes |-> MaxCrashes]

\* The guest inside a function of the broker.
InBroker ==
    \/ PollReturns \/ PollTimesOut \/ HeapBound \/ HeapCalls
    \/ DrainRead \/ DrainFree \/ DrainFreed \/ DrainEnd
    \/ AllocCalls \/ AllocReturns \/ AllocFull \/ Ends
    \/ FreeCalls \/ FreeReturns \/ Writes \/ ReadCalls \/ ReadReturns \/ ReadTimesOut
    \/ LoadBinds \/ LoadBound \/ SkipsBind \/ Staged \/ NoSlot \/ Submit
    \/ CloseFrees \/ CloseFreed \/ CloseEnds

Next ==
    \/ CallAsync \/ CallSync \/ CallFree \/ Open \/ Crash \/ Register
    \/ InBroker \/ StageFails \/ SubmitFails
    \/ Isr
    \/ \E r \in reqs : IopServes(r)
    \/ IopNotifies \/ Deliver

\* The guest is inside a function until it returns, the processor takes an
\* interrupt that is pending, the IOP serves what it is sent.
Fairness == /\ WF_vars(InBroker) /\ WF_vars(Isr) /\ WF_vars(Deliver)
            /\ WF_vars(\E r \in reqs : IopServes(r))

Spec == Init /\ [][Next]_vars /\ Fairness

-----------------------------------------------------------------------------
PendingBlocks == {pend[i] : i \in 1 .. MaxPending} \ {NoBlock}
Owned == allocs \cup PendingBlocks \cup StagingBlock

TypeOK ==
    /\ active \in BOOLEAN /\ loading \in BOOLEAN /\ lfbound \in BOOLEAN
    /\ allocs \subseteq Blocks \cup {Argument}
    /\ slots \in [Slots -> Clients \cup {None}]
    /\ pend \in [1 .. MaxPending -> Blocks \cup {NoBlock, Argument}] /\ count \in Nat
    /\ staging \in Blocks \cup {NoBlock, Argument}
    /\ armed => rx = None
    /\ heap \subseteq Blocks

\* An operation completes with the reply to its own request, whatever order the
\* replies come in, and a module being loaded is completed by nothing else
\* (sif_broker.c, slot_of_client and broker_complete), as long as no operation
\* of that client was dropped by open() or close().
OwnCompletion == \A c \in Clients \ abandoned : done[c] \in {0, subm[c]}

\* Every block of the IOP heap is the guest's, queued to be freed, or the image
\* of the module being loaded, and those are blocks in use: none is lost, freed
\* twice or made up (broker_iop_alloc to broker_close).
HeapAccounts ==
    g = Idle /\ abandoned = {} =>
        /\ heap = Owned \cup orphans
        /\ PendingBlocks \cap (allocs \cup StagingBlock) = {}

\* The image of a module stays allocated until LOADFILE has answered
\* (lmb_in_flight keeps a second load from taking its place).
ImageKept == \A r \in reqs : r.kind = "load" /\ abandoned = {} => r.blk \in heap

\* The interrupt never calls a done() or a handler of a guest that is gone
\* (session_reset_state).
NoDeadCallback == ~wild

\* What the broker owns: blocks of the IOP heap, the image being loaded, and
\* callbacks only of the guest that is there (session_reset_state,
\* broker_complete).
BrokerInv == TypeOK /\ HeapAccounts /\ ImageKept /\ NoDeadCallback

\* A read gives its own data, whatever else is dropped or comes late, as long
\* as no read has given up before its data came: all reads share one buffer,
\* and only the buffer is looked at (ee_sif_get_other_data).
ReadsOwn == misread => None \in abandoned

\* An operation in flight completes (its done() is called), or its session ends.
Completes == \A c \in Clients : InFlight(c) ~> (~InFlight(c) \/ abandoned # {} \/ g.pc = "boot")

\* Every function of the broker returns, also when its reply is gone.
CallsReturn == g.pc \notin {"idle", "boot"} ~> g.pc \in {"idle", "boot"}

\* What the comment on the poll scopes says: "Sync broker entry points called
\* from guest context bracket their internal ee_sif polling ... so the ISR
\* can't steal a reply mid-poll" (sif_broker.c:20).  Refuted by TLC (README,
\* section 6).
RepliesReachPoller == ~stolen

\* What open() promises after a crash: a fresh start (sif_broker.h).  An address
\* the broker hands out is one the IOP gave.  Refuted by TLC (README, section
\* 6).
AddressesReal == Argument \notin allocs
=============================================================================
