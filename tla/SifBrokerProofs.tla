--------------------------- MODULE SifBrokerProofs ---------------------------
(***************************************************************************)
(* Proofs about SifBroker, for any number of guests, clients, blocks and   *)
(* packet slots.  Guests poll and submit as they like but for the last     *)
(* theorem, BooksKept, about those that poll alone (SyncAlone).            *)
(***************************************************************************)
EXTENDS SifBroker, SequenceTheorems, WellFoundedInduction, TLAPS

-----------------------------------------------------------------------------
(* The shapes of the state.                                                *)

Words == Blocks \cup {NoBlock, Argument}
Wants == {"heapalloc", "heapfree", "lfbind", "none"}
Kinds == Wants \cup AsyncOps \cup {"heapbind", "other", "note"}
Owners == Clients \cup {None, HeapClient, LoadClient}

Requests == [id : Nat \ {0}, kind : Kinds, cd : Owners, blk : Words]
Packets == [p : {"end", "cmd"}, id : Nat, kind : Kinds, cd : Owners, blk : Blocks \cup {0, 1}]
Guests == [pc : {"idle", "boot", "poll", "polled", "rpc", "drain", "draining", "body", "stage",
                 "submit", "reading"},
           op : Ops \cup {"none"}, c : Clients \cup {None}, blk : Words, want : Wants,
           word : Words, kind : Kinds, req : Nat,
           ret : {"idle", "drained", "alloc", "end", "freed", "bound", "closing"},
           masked : BOOLEAN, rc : {0, -2, -4}, n : 0 .. MaxPending, i : Nat \ {0}]
States == [status : {"idle", "inflight", "done"}, op : Ops \cup {"none"}, bound : BOOLEAN]

Shapes ==
    /\ TypeOK
    /\ g \in Guests
    /\ priv \in [Clients -> States]
    /\ heaparg \in Words /\ scratch \in Nat
    /\ reqs \subseteq Requests
    /\ iopq \in Seq(Packets) /\ (\A k \in 1 .. Len(iopq) :
          iopq[k].kind \in {"heapalloc", "heapfree"} => iopq[k].blk \in Blocks \cup {NoBlock})
    /\ rx \in Packets \cup {None}
    /\ nextid \in Nat /\ gen \in Nat \ {0}
    /\ subm \in [Clients -> Nat] /\ done \in [Clients -> Nat] /\ slotgen \in [Slots -> Nat]

(* A client is in one slot at the most, and then in flight; the client a   *)
(* guest is about to submit for is not.                                    *)
SlotsOK ==
    /\ \A s, t \in Slots : slots[s] = slots[t] /\ slots[s] # None => s = t
    /\ \A s \in Slots : slots[s] # None => InFlight(slots[s])
    /\ g.op \in AsyncOps => g.c \in Clients /\ ~InFlight(g.c)
    /\ g.pc \in {"submit", "stage"} => g.op \in AsyncOps
    /\ g.ret = "bound" => g.op \in {"load", "path"}

(* No two of the requests and packets on their way have the same number,   *)
(* but for the commands the IOP sends unasked.                             *)
Unasked(x) == x.id = 0 => x.cd = None /\ x.kind = "note"
IdsOK ==
    /\ \A r \in reqs : r.id <= nextid
    /\ \A k \in 1 .. Len(iopq) : iopq[k].id <= nextid /\ Unasked(iopq[k])
    /\ rx # None => rx.id <= nextid /\ Unasked(rx)
    /\ \A r, q \in reqs : r.id = q.id => r = q
    /\ \A r \in reqs, k \in 1 .. Len(iopq) : iopq[k].id # r.id
    /\ \A k, l \in 1 .. Len(iopq) : iopq[k].id = iopq[l].id => k = l \/ iopq[k].id = 0
    /\ rx # None /\ rx.id # 0 =>
         (\A r \in reqs : r.id # rx.id) /\ (\A k \in 1 .. Len(iopq) : iopq[k].id # rx.id)

(* What is on its way for a client is its last request, and a slot waits   *)
(* for it.                                                                 *)
Awaited(c, x) == x.cd = c => x.id = subm[c] /\ (\E s \in Slots : slots[s] = c)
OwnOK ==
    \A c \in Clients \ abandoned :
        /\ done[c] \in {0, subm[c]}
        /\ \A r \in reqs : Awaited(c, r)
        /\ \A k \in 1 .. Len(iopq) : Awaited(c, iopq[k])
        /\ rx # None => Awaited(c, rx)

(* What the interrupt may call belongs to the guest that is there.         *)
GuestsOK ==
    /\ ~wild
    /\ g.pc # "boot" =>
         handler \in {0, gen} /\ (\A s \in Slots : slots[s] # None => slotgen[s] = gen)

(* The data on its way is that of the read under way.                      *)
Sought(x) == x.kind = "other" => g.pc = "reading" /\ x.id = g.req /\ scratch = 0
ReadOK ==
    None \notin abandoned =>
        /\ ~misread
        /\ \A r \in reqs : Sought(r)
        /\ \A k \in 1 .. Len(iopq) : Sought(iopq[k])
        /\ g.pc = "reading" /\ scratch # 0 => scratch = g.req
        /\ rx # None /\ rx.kind = "other" => g.pc = "reading"

Settled == Shapes /\ SlotsOK /\ IdsOK /\ OwnOK /\ GuestsOK /\ ReadOK

-----------------------------------------------------------------------------
(* Helpers.                                                                *)

LEMMA LowestMember ==
    ASSUME NEW S \in SUBSET (Nat \cup {Argument}), S # {}
    PROVE  Lowest(S) \in S
<1>1. CASE Argument \in S
  <2>1. \A y \in S : Argument <= y
    BY DEF Argument
  <2>. QED BY <1>1, <2>1 DEF Lowest
<1>2. CASE Argument \notin S
  <2>1. S \in SUBSET Nat
    BY <1>2
  <2>2. PICK m \in S : \A y \in S : ~ <<y, m>> \in OpToRel(<, Nat)
    BY <2>1, NatLessThanWellFounded, WFMin
  <2>3. \A y \in S : ~(y < m)
    BY <2>1, <2>2 DEF OpToRel
  <2>4. \A y \in S : m <= y
    BY <2>1, <2>3
  <2>. QED BY <2>4 DEF Lowest
<1>. QED BY <1>1, <1>2

LEMMA Clock ==
    /\ Clients \subseteq Nat /\ Slots \subseteq Nat /\ Blocks \subseteq Nat \ {0}
    /\ None \notin Clients /\ HeapClient \notin Clients /\ LoadClient \notin Clients
    /\ MaxPending \in Nat \ {0}
    /\ Argument \in Words /\ NoBlock \in Words /\ NoBlock \notin Blocks /\ Argument \notin Blocks
BY SifBrokerAssumption DEF HeapClient, LoadClient, Words, Argument, NoBlock

LEMMA IdleType == Idle \in Guests
BY Clock DEF Idle, Guests, Words, Wants, Kinds

\* What the block that a call of the heap's functions came back with can be.
LEMMA ResultType ==
    ASSUME Settled
    PROVE  HeapResult \in Words
BY Clock DEF Settled, Shapes, HeapResult

-----------------------------------------------------------------------------
(* Steps of the guest that send nothing and complete nothing.              *)

\* What such a step leaves alone.
Keeps == /\ UNCHANGED <<active, slots, reqs, iopq, heap, nextid, subm, done, scratch>>
         /\ UNCHANGED <<priv, handler, gen, slotgen, wild, abandoned, misread>>

\* It is on its way through the broker, or returns.
GoesOn ==
    /\ g' \in Guests
    /\ g.pc \notin {"reading", "boot"} /\ g'.pc # "reading"
    /\ g'.op \in AsyncOps => g'.op = g.op /\ g'.c = g.c
    /\ g'.pc \in {"submit", "stage"} => g'.op \in AsyncOps
    /\ g'.ret = "bound" => g'.op \in {"load", "path"}

\* The variables of the broker and of the SIF stack it writes.
Writing ==
    /\ allocs' \subseteq Blocks \cup {Argument}
    /\ pend' \in [1 .. MaxPending -> Blocks \cup {NoBlock, Argument}] /\ count' \in Nat
    /\ loading' \in BOOLEAN /\ lfbound' \in BOOLEAN
    /\ staging' \in Blocks \cup {NoBlock, Argument}
    /\ heaparg' \in Words
    /\ (rx' = rx /\ armed' = armed) \/ rx' = None

LEMMA GuestGoesOn ==
    ASSUME Settled, Keeps, GoesOn, Writing
    PROVE  Settled'
<1>1. rx' = rx \/ rx' = None
  BY DEF Writing
<1>2. Shapes'
  BY DEF Settled, Shapes, TypeOK, Keeps, GoesOn, Writing
<1>3. SlotsOK'
  BY DEF Settled, SlotsOK, Keeps, GoesOn, InFlight
<1>4. IdsOK'
  BY <1>1 DEF Settled, IdsOK, Unasked, Keeps
<1>5. OwnOK'
  BY <1>1 DEF Settled, OwnOK, Awaited, Keeps
<1>6. GuestsOK'
  BY DEF Settled, GuestsOK, Keeps, GoesOn
<1>7. ReadOK'
  BY <1>1 DEF Settled, ReadOK, Sought, Keeps, GoesOn
<1>. QED BY <1>2, <1>3, <1>4, <1>5, <1>6, <1>7 DEF Settled

\* The call returns.
LEMMA Leaves ==
    ASSUME Settled, g' = Idle, g.pc \notin {"reading", "boot"}
    PROVE  GoesOn
<1>1. Idle.pc = "idle" /\ Idle.op = "none" /\ Idle.ret = "idle"
  BY DEF Idle
<1>2. "none" \notin AsyncOps
  BY DEF AsyncOps
<1>. QED BY <1>1, <1>2, IdleType DEF GoesOn

\* What the SIF stack finds while it polls, and how it goes on.
LEMMA PollKeeps ==
    ASSUME Settled, PollReturns \/ PollTimesOut \/ HeapBound
    PROVE  Settled'
<1>1. g \in Guests /\ TypeOK /\ SlotsOK /\ heaparg \in Words
  BY DEF Settled, Shapes
<1>2. Writing /\ Keeps
  BY <1>1 DEF PollReturns, PollTimesOut, HeapBound, Writing, Keeps, TypeOK, Rearmed, brokerVars,
              iopVars, histVars
<1>3. GoesOn
  <2>1. CASE PollReturns
    BY <1>1, <2>1 DEF PollReturns, GoesOn, Guests, SlotsOK
  <2>2. CASE PollTimesOut
    BY <1>1, <2>2 DEF PollTimesOut, GoesOn, Guests, SlotsOK
  <2>3. CASE HeapBound
    <3>1. "none" \in Kinds
      BY DEF Kinds, Wants
    <3>2. \/ g' = [g EXCEPT !.pc = "rpc", !.kind = "none"]
          \/ g' = [g EXCEPT !.kind = "none"]
      BY <2>3 DEF HeapBound
    <3>3. g.pc = "polled"
      BY <2>3 DEF HeapBound
    <3>. QED BY <1>1, <3>1, <3>2, <3>3 DEF GoesOn, Guests, SlotsOK
  <2>. QED BY <2>1, <2>2, <2>3
<1>. QED BY <1>2, <1>3, GuestGoesOn

LEMMA CallKeeps ==
    ASSUME Settled, NEW op \in Ops, NEW c \in Clients \cup {None}, NEW blk \in Words,
           Call(op, c, blk), op \in AsyncOps => c \in Clients
    PROVE  Settled'
<1>1. g \in Guests /\ TypeOK /\ SlotsOK /\ heaparg \in Words
  BY DEF Settled, Shapes
<1>2. Writing /\ Keeps
  BY <1>1 DEF Call, Writing, Keeps, TypeOK, brokerVars, sifVars, iopVars, histVars
<1>3. g' \in Guests /\ g'.pc = "drain" /\ g'.op = op /\ g'.c = c /\ g'.ret = "idle"
      /\ g = Idle
  BY <1>1 DEF Call, Guests, Idle
<1>4. op \in AsyncOps => ~InFlight(c)
  BY DEF Call, Admits
<1>5. Shapes'
  BY <1>1, <1>2, <1>3 DEF Settled, Shapes, TypeOK, Keeps, Writing
<1>6. SlotsOK'
  BY <1>2, <1>3, <1>4 DEF Settled, SlotsOK, Keeps, InFlight
<1>7. IdsOK' /\ OwnOK'
  BY <1>2 DEF Call, sifVars, Settled, IdsOK, OwnOK, Awaited, Keeps
<1>8. GuestsOK'
  BY <1>2, <1>3 DEF Settled, GuestsOK, Keeps, Idle
<1>9. ReadOK'
  BY <1>2, <1>3 DEF Call, sifVars, Settled, ReadOK, Sought, Keeps, Idle
<1>. QED BY <1>5, <1>6, <1>7, <1>8, <1>9 DEF Settled

LEMMA CallsKeep ==
    ASSUME Settled, CallAsync \/ CallSync \/ CallFree
    PROVE  Settled'
<1>1. allocs \subseteq Words
  BY DEF Settled, Shapes, TypeOK, Words
<1>2. CASE CallAsync
  BY <1>2, CallKeeps, Clock DEF CallAsync, Ops
<1>3. CASE CallSync
  BY <1>3, CallKeeps, Clock DEF CallSync, Ops, AsyncOps, PollOps
<1>4. CASE CallFree
  BY <1>1, <1>4, CallKeeps, Clock DEF CallFree, Ops, AsyncOps, PollOps
<1>. QED BY <1>2, <1>3, <1>4

LEMMA DrainKeeps ==
    ASSUME Settled, DrainRead \/ DrainFreed \/ DrainEnd
    PROVE  Settled'
<1>1. g \in Guests /\ TypeOK /\ SlotsOK /\ heaparg \in Words
  BY DEF Settled, Shapes
<1>2. Writing /\ Keeps
  BY <1>1, Clock DEF DrainRead, DrainFreed, DrainEnd, Writing, Keeps, TypeOK, Local, brokerVars,
                     sifVars, iopVars, histVars
<1>3. GoesOn
  <2>1. CASE DrainRead
    <3>1. /\ (IF count > MaxPending THEN MaxPending ELSE count) \in 0 .. MaxPending
          /\ 1 \in Nat \ {0}
      BY <1>1, Clock DEF TypeOK
    <3>. QED BY <1>1, <2>1, <3>1 DEF DrainRead, GoesOn, Guests, SlotsOK
  <2>2. CASE DrainFreed
    <3>1. g.i + 1 \in Nat \ {0}
      BY <1>1 DEF Guests
    <3>. QED BY <1>1, <2>2, <3>1 DEF DrainFreed, Back, GoesOn, Guests, SlotsOK
  <2>3. CASE DrainEnd
    BY <1>1, <2>3 DEF DrainEnd, GoesOn, Guests, SlotsOK
  <2>. QED BY <2>1, <2>2, <2>3
<1>. QED BY <1>2, <1>3, GuestGoesOn

LEMMA ReturnKeeps ==
    ASSUME Settled, AllocReturns \/ Ends \/ FreeReturns \/ Writes
    PROVE  Settled'
<1>1. g \in Guests /\ TypeOK /\ SlotsOK /\ heaparg \in Words /\ HeapResult \in Words
  BY ResultType DEF Settled, Shapes
<1>2. Writing /\ Keeps
  BY <1>1 DEF AllocReturns, Ends, FreeReturns, Writes, Writing, Keeps, TypeOK, Local, brokerVars,
              sifVars, iopVars, histVars, Words
<1>3. GoesOn
  BY Leaves DEF AllocReturns, Ends, FreeReturns, Writes, Back, AtBody
<1>. QED BY <1>2, <1>3, GuestGoesOn

LEMMA LoadKeeps ==
    ASSUME Settled, LoadBound \/ SkipsBind \/ Staged \/ CloseFreed
    PROVE  Settled'
<1>1. g \in Guests /\ TypeOK /\ SlotsOK /\ heaparg \in Words /\ HeapResult \in Words
  BY ResultType DEF Settled, Shapes
<1>2. Writing /\ Keeps
  BY <1>1 DEF LoadBound, SkipsBind, Staged, CloseFreed, Writing, Keeps, TypeOK, Local, brokerVars,
              sifVars, iopVars, histVars
<1>3. CASE LoadBound
  BY <1>1, <1>2, <1>3, IdleType, GuestGoesOn
     DEF LoadBound, Back, AfterBind, GoesOn, Idle, Guests, SlotsOK, AsyncOps
<1>4. CASE SkipsBind
  BY <1>1, <1>2, <1>4, IdleType, GuestGoesOn
     DEF SkipsBind, AtBody, AfterBind, GoesOn, Guests, SlotsOK, AsyncOps
<1>5. CASE Staged
  BY <1>1, <1>2, <1>5, IdleType, GuestGoesOn
     DEF Staged, Back, GoesOn, Idle, Guests, SlotsOK, AsyncOps
<1>6. CASE CloseFreed
  BY <1>1, <1>2, <1>6, IdleType, GuestGoesOn
     DEF CloseFreed, Back, GoesOn, Guests, SlotsOK, AsyncOps
<1>. QED BY <1>3, <1>4, <1>5, <1>6

LEMMA NoSlotKeeps ==
    ASSUME Settled, NoSlot, g.op # "load"
    PROVE  Settled'
<1>1. Writing /\ Keeps
  BY DEF Settled, Shapes, NoSlot, Writing, Keeps, TypeOK, Local, brokerVars, sifVars, iopVars,
         histVars
<1>2. GoesOn
  BY Leaves DEF NoSlot
<1>. QED BY <1>1, <1>2, GuestGoesOn

-----------------------------------------------------------------------------
(* Steps of the guest that send a request and poll for the reply.          *)

\* A new request has a new number, and is on its way alone with it.
LEMMA SendIds ==
    ASSUME Settled, NEW kind \in Kinds, NEW cd \in Owners, NEW word \in Words,
           Send(Request(kind, cd, word)),
           iopq' = iopq, rx' = rx \/ rx' = None
    PROVE  /\ IdsOK' /\ reqs' \subseteq Requests /\ nextid' \in Nat
           /\ \A r \in reqs' : r \in reqs \/ (r.kind = kind /\ r.cd = cd /\ r.id = nextid + 1)
<1>. DEFINE new == Request(kind, cd, word)
<1>1. new \in Requests /\ new.id = nextid + 1 /\ new.kind = kind /\ new.cd = cd
  BY DEF Settled, Shapes, Request, Requests
<1>2. reqs' = reqs \cup {new} /\ nextid' = nextid + 1 /\ nextid \in Nat
  BY <1>1 DEF Send, Settled, Shapes
<1>. HIDE DEF new
<1>3. /\ reqs \subseteq Requests /\ iopq \in Seq(Packets)
      /\ \A k \in 1 .. Len(iopq) : iopq[k].id \in Nat
      /\ rx # None => rx.id \in Nat
  <2>1. iopq \in Seq(Packets) /\ rx \in Packets \cup {None}
    BY DEF Settled, Shapes
  <2>2. \A k \in 1 .. Len(iopq) : iopq[k] \in Packets
    BY <2>1
  <2>. QED BY <2>1, <2>2 DEF Settled, Shapes, Packets
<1>4. \A r \in reqs : r.id \in Nat /\ r.id <= nextid
  BY <1>3 DEF Settled, IdsOK, Unasked, Requests
<1>5. \A k \in 1 .. Len(iopq) : iopq[k].id <= nextid
  BY DEF Settled, IdsOK, Unasked
<1>6. rx # None => rx.id <= nextid
  BY DEF Settled, IdsOK, Unasked
<1>7. IdsOK'
  BY <1>1, <1>2, <1>3, <1>4, <1>5, <1>6 DEF Settled, IdsOK, Unasked
<1>. QED BY <1>1, <1>2, <1>3, <1>7

\* What a step that polls leaves alone.
Sends == /\ UNCHANGED <<brokerVars, scratch, rx, armed, iopq, heap, subm, done>>
         /\ UNCHANGED <<gen, slotgen, wild, abandoned, misread>>

LEMMA RpcKeeps ==
    ASSUME Settled, Sends,
           NEW want \in Wants, NEW cd \in {HeapClient, LoadClient},
           NEW word \in Words, NEW masked \in BOOLEAN,
           NEW ret \in {"idle", "drained", "alloc", "end", "freed", "bound", "closing"},
           Rpc(want, cd, word, masked, ret),
           g.pc \notin {"reading", "boot"},
           ret = "bound" => g.op \in {"load", "path"}
    PROVE  Settled'
<1>. DEFINE kind == IF cd = HeapClient /\ ~heapbound THEN "heapbind" ELSE want
<1>1. /\ kind \in Kinds /\ kind # "other" /\ cd \in Owners /\ cd \notin Clients
  BY Clock DEF Kinds, Wants, AsyncOps, Owners
<1>2. Send(Request(kind, cd, word))
  BY DEF Rpc
<1>3. /\ g' = [g EXCEPT !.pc = "poll", !.want = want, !.kind = kind, !.req = nextid + 1,
                        !.word = word, !.ret = ret, !.masked = masked]
      /\ heaparg' \in {heaparg, word, Argument}
  BY DEF Rpc, Request
<1>. HIDE DEF kind
<1>4. /\ IdsOK' /\ reqs' \subseteq Requests /\ nextid' \in Nat
      /\ \A r \in reqs' : r \in reqs \/ (r.kind = kind /\ r.cd = cd /\ r.id = nextid + 1)
  BY <1>1, <1>2, SendIds DEF Sends
<1>5. /\ g \in Guests /\ nextid + 1 \in Nat /\ want \in Wants
  BY DEF Settled, Shapes
<1>6. g' \in Guests /\ g'.pc = "poll" /\ g'.op = g.op /\ g'.c = g.c /\ g'.ret = ret
  BY <1>1, <1>3, <1>5 DEF Guests
<1>7. heaparg' \in Words
  BY <1>3, Clock DEF Settled, Shapes
<1>8. Shapes'
  BY <1>4, <1>6, <1>7 DEF Settled, Shapes, TypeOK, Sends, brokerVars
<1>9. SlotsOK'
  BY <1>6 DEF Settled, SlotsOK, Sends, brokerVars, InFlight
<1>10. OwnOK'
  BY <1>1, <1>4 DEF Settled, OwnOK, Awaited, Sends, brokerVars
<1>11. GuestsOK'
  BY <1>6 DEF Settled, GuestsOK, Sends, brokerVars
<1>12. ReadOK'
  BY <1>1, <1>4, <1>6 DEF Settled, ReadOK, Sought, Sends
<1>. QED BY <1>4, <1>8, <1>9, <1>10, <1>11, <1>12 DEF Settled

LEMMA PollsKeep ==
    ASSUME Settled, HeapCalls \/ DrainFree \/ AllocCalls \/ AllocFull \/ FreeCalls \/ LoadBinds
                    \/ CloseFrees \/ StageFails \/ (NoSlot /\ g.op = "load")
    PROVE  Settled'
<1>1. g \in Guests /\ TypeOK /\ HeapResult \in Words
  BY ResultType DEF Settled, Shapes
<1>2. /\ g.word \in Words /\ g.blk \in Words /\ g.masked \in BOOLEAN
      /\ NoBlock \in Words /\ {"heapalloc", "heapfree", "lfbind"} \subseteq Wants
  BY <1>1, Clock DEF Guests, Wants
<1>3. Sends
  BY DEF HeapCalls, DrainFree, AllocCalls, AllocFull, FreeCalls, LoadBinds, CloseFrees, StageFails,
         NoSlot, Calling, Sends
<1>4. CASE HeapCalls
  <2>1. g.pc = "rpc" /\ Rpc(g.want, HeapClient, g.word, g.masked, g.ret)
    BY <1>4 DEF HeapCalls
  <2>2. /\ g.want \in Wants
        /\ g.ret \in {"idle", "drained", "alloc", "end", "freed", "bound", "closing"}
        /\ g.ret = "bound" => g.op \in {"load", "path"}
    BY <1>1 DEF Guests, Settled, SlotsOK
  <2>. QED BY <1>2, <1>3, <2>1, <2>2, RpcKeeps
<1>5. CASE DrainFree
  <2>1. /\ g.pc = "draining" /\ Rpc("heapfree", HeapClient, pend[g.i], FALSE, "drained")
        /\ g.i <= g.n
    BY <1>5 DEF DrainFree
  <2>2. g.i \in 1 .. MaxPending
    BY <1>1, <2>1, Clock DEF Guests
  <2>3. pend[g.i] \in Words
    BY <1>1, <2>2 DEF TypeOK, Words
  <2>. QED BY <1>2, <1>3, <2>1, <2>3, RpcKeeps
<1>6. CASE AllocCalls \/ AllocFull \/ FreeCalls
  BY <1>1, <1>2, <1>3, <1>6, RpcKeeps
     DEF AllocCalls, AllocFull, FreeCalls, AtBody, Back, GiveBack
<1>7. CASE LoadBinds
  BY <1>2, <1>3, <1>7, RpcKeeps DEF LoadBinds, AtBody
<1>8. CASE CloseFrees
  <2>1. /\ g.pc = "body" /\ Rpc("heapfree", HeapClient, Lowest(allocs), TRUE, "closing")
        /\ allocs # {}
    BY <1>8 DEF CloseFrees, AtBody
  <2>2. Lowest(allocs) \in Words
    <3>1. allocs \in SUBSET (Nat \cup {Argument})
      BY <1>1, Clock DEF TypeOK
    <3>. QED BY <1>1, <2>1, <3>1, LowestMember DEF TypeOK, Words
  <2>. QED BY <1>2, <1>3, <2>1, <2>2, RpcKeeps
<1>9. CASE StageFails \/ (NoSlot /\ g.op = "load")
  BY <1>1, <1>2, <1>3, <1>9, RpcKeeps DEF StageFails, NoSlot, Back, GiveBack
<1>. QED BY <1>4, <1>5, <1>6, <1>7, <1>8, <1>9

-----------------------------------------------------------------------------
(* Reads: ee_sif_get_other_data.                                           *)

LEMMA ReadsKeep ==
    ASSUME Settled, ReadCalls
    PROVE  Settled'
<1>1. /\ g.pc = "body" /\ g.op = "read"
      /\ Send(Request("other", None, NoBlock))
      /\ g' = [g EXCEPT !.pc = "reading", !.masked = TRUE, !.req = nextid + 1]
      /\ rx' = None /\ scratch' = 0
      /\ UNCHANGED <<brokerVars, heaparg, iopq, heap, subm, done>>
      /\ UNCHANGED <<gen, slotgen, wild, abandoned, misread>>
  BY DEF ReadCalls, AtBody, Request, Rearmed
<1>2. "other" \in Kinds /\ None \in Owners /\ NoBlock \in Words
  BY Clock DEF Kinds, Owners
<1>3. /\ IdsOK' /\ reqs' \subseteq Requests /\ nextid' \in Nat
      /\ \A r \in reqs' : r \in reqs \/ (r.kind = "other" /\ r.cd = None /\ r.id = nextid + 1)
  BY <1>1, <1>2, SendIds
<1>4. /\ g \in Guests /\ nextid + 1 \in Nat
  BY DEF Settled, Shapes
<1>5. g' \in Guests /\ g'.pc = "reading" /\ g'.op = "read" /\ g'.req = nextid + 1 /\ g'.ret = g.ret
  BY <1>1, <1>4 DEF Guests
<1>6. Shapes'
  BY <1>1, <1>3, <1>5 DEF Settled, Shapes, TypeOK, brokerVars
<1>7. SlotsOK'
  BY <1>1, <1>5 DEF Settled, SlotsOK, brokerVars, InFlight, AsyncOps
<1>8. OwnOK'
  BY <1>1, <1>3, Clock DEF Settled, OwnOK, Awaited, brokerVars
<1>9. GuestsOK'
  BY <1>1, <1>5 DEF Settled, GuestsOK, brokerVars
<1>10. ReadOK'
  BY <1>1, <1>3, <1>5 DEF Settled, ReadOK, Sought
<1>. QED BY <1>3, <1>6, <1>7, <1>8, <1>9, <1>10 DEF Settled

LEMMA ReadEndsKeep ==
    ASSUME Settled, ReadReturns \/ ReadTimesOut
    PROVE  Settled'
<1>1. /\ g.pc = "reading" /\ g' = Idle
      /\ rx' = None \/ (rx' = rx /\ armed' = armed)
      /\ UNCHANGED <<brokerVars, heaparg, scratch, reqs, iopq, heap, nextid, subm, done>>
      /\ UNCHANGED <<gen, slotgen, wild>>
  BY DEF ReadReturns, ReadTimesOut, Rearmed, sifVars, iopVars
<1>2. abandoned \subseteq abandoned'
  BY DEF ReadReturns, ReadTimesOut
<1>3. Idle.pc = "idle" /\ Idle.op = "none" /\ Idle.ret = "idle" /\ Idle \in Guests
  BY IdleType DEF Idle
<1>4. Shapes'
  BY <1>1, <1>3 DEF Settled, Shapes, TypeOK, brokerVars
<1>5. SlotsOK'
  BY <1>1, <1>3 DEF Settled, SlotsOK, brokerVars, InFlight, AsyncOps
<1>6. IdsOK'
  BY <1>1 DEF Settled, IdsOK, Unasked
<1>7. OwnOK'
  BY <1>1, <1>2 DEF Settled, OwnOK, Awaited, brokerVars
<1>8. GuestsOK'
  BY <1>1, <1>3 DEF Settled, GuestsOK, brokerVars
<1>9. ReadOK'
  <2>1. CASE ReadReturns
    BY <1>1, <1>3, <2>1 DEF ReadReturns, Rearmed, Settled, ReadOK, Sought
  <2>2. CASE ReadTimesOut
    BY <2>2 DEF ReadTimesOut, ReadOK
  <2>. QED BY <2>1, <2>2
<1>. QED BY <1>4, <1>5, <1>6, <1>7, <1>8, <1>9 DEF Settled

-----------------------------------------------------------------------------
(* Submitting.                                                             *)

LEMMA FreeSlot ==
    ASSUME Free(slots) # {}
    PROVE  Lowest(Free(slots)) \in Slots /\ slots[Lowest(Free(slots))] = None
<1>1. Free(slots) \in SUBSET (Nat \cup {Argument})
  BY Clock DEF Free
<1>2. Lowest(Free(slots)) \in Free(slots)
  BY <1>1, LowestMember
<1>. QED BY <1>2 DEF Free

LEMMA PushType ==
    ASSUME Settled, NEW blk \in Words, Pushed(blk)
    PROVE  /\ pend' \in [1 .. MaxPending -> Blocks \cup {NoBlock, Argument}]
           /\ count' \in Nat
<1>1. /\ pend \in [1 .. MaxPending -> Blocks \cup {NoBlock, Argument}] /\ count \in Nat
      /\ blk \in Blocks \cup {NoBlock, Argument}
  BY DEF Settled, Shapes, TypeOK, Words
<1>2. count' = count + 1 /\ (pend' = pend \/ pend' = [pend EXCEPT ![count + 1] = blk])
  BY DEF Pushed
<1>. QED BY <1>1, <1>2

LEMMA SubmitKeeps ==
    ASSUME Settled, Submit
    PROVE  Settled'
<1>. DEFINE s == Lowest(Free(slots))
            c == g.c
            op == g.op
<1>1. /\ g.pc = "submit" /\ s \in Slots /\ slots[s] = None
  BY FreeSlot DEF Submit
<1>2. /\ op \in AsyncOps /\ c \in Clients /\ ~InFlight(c) /\ g.blk \in Words /\ c # None
  BY <1>1, Clock DEF Settled, SlotsOK, Shapes, Guests
<1>3. /\ slots' = [slots EXCEPT ![s] = c] /\ slotgen' = [slotgen EXCEPT ![s] = gen]
      /\ priv' = [priv EXCEPT ![c] = [priv[c] EXCEPT !.status = "inflight", !.op = op]]
      /\ subm' = [subm EXCEPT ![c] = nextid + 1] /\ done' = [done EXCEPT ![c] = 0]
      /\ Send(Request(op, c, g.blk)) /\ g' = Idle
      /\ staging' \in {staging, g.blk, NoBlock}
      /\ loading' = (loading \/ g.op \in {"load", "path"})
      /\ UNCHANGED <<active, allocs, handler, pend, count, lfbound, sifVars, iopq, heap>>
      /\ UNCHANGED <<gen, wild, abandoned, misread>>
  BY DEF Submit, Submitted
<1>4. op \in Kinds /\ c \in Owners /\ op # "other"
  BY <1>2 DEF Kinds, Owners, AsyncOps
<1>. HIDE DEF s, c, op
<1>5. /\ IdsOK' /\ reqs' \subseteq Requests /\ nextid' \in Nat
      /\ \A r \in reqs' : r \in reqs \/ (r.kind = op /\ r.cd = c /\ r.id = nextid + 1)
  BY <1>2, <1>3, <1>4, SendIds DEF sifVars
<1>6. /\ slots \in [Slots -> Clients \cup {None}] /\ priv \in [Clients -> States]
      /\ slotgen \in [Slots -> Nat] /\ gen \in Nat \ {0} /\ nextid + 1 \in Nat
      /\ subm \in [Clients -> Nat] /\ done \in [Clients -> Nat] /\ op \in Ops
  BY <1>2 DEF Settled, Shapes, TypeOK, Ops
<1>7. /\ slots' \in [Slots -> Clients \cup {None}] /\ priv' \in [Clients -> States]
      /\ slotgen' \in [Slots -> Nat] /\ subm' \in [Clients -> Nat] /\ done' \in [Clients -> Nat]
      /\ \A t \in Slots : slots'[t] = IF t = s THEN c ELSE slots[t]
      /\ \A t \in Slots : slotgen'[t] = IF t = s THEN gen ELSE slotgen[t]
      /\ \A d \in Clients : priv'[d].status = IF d = c THEN "inflight" ELSE priv[d].status
      /\ \A d \in Clients : subm'[d] = IF d = c THEN nextid + 1 ELSE subm[d]
      /\ \A d \in Clients : done'[d] = IF d = c THEN 0 ELSE done[d]
  BY <1>1, <1>2, <1>3, <1>6 DEF States
<1>8. Idle.pc = "idle" /\ Idle.op = "none" /\ Idle.ret = "idle" /\ Idle \in Guests
  BY IdleType DEF Idle
<1>9. staging' \in Blocks \cup {NoBlock, Argument} /\ loading' \in BOOLEAN
  BY <1>2, <1>3 DEF Settled, Shapes, TypeOK, Words
<1>10. Shapes'
  BY <1>3, <1>5, <1>7, <1>8, <1>9 DEF Settled, Shapes, TypeOK, sifVars
<1>11. \A t \in Slots : slots[t] # c
  BY <1>2 DEF Settled, SlotsOK
<1>12. SlotsOK'
  BY <1>1, <1>2, <1>3, <1>6, <1>7, <1>8, <1>11 DEF Settled, SlotsOK, InFlight, AsyncOps
<1>13. OwnOK'
  <2>1. SUFFICES ASSUME NEW d \in Clients \ abandoned
                 PROVE  /\ done'[d] \in {0, subm'[d]}
                        /\ \A r \in reqs' : Awaited(d, r)'
                        /\ \A k \in 1 .. Len(iopq') : Awaited(d, iopq[k])'
                        /\ rx' # None => Awaited(d, rx)'
    BY <1>3 DEF OwnOK
  <2>2. CASE d = c
    <3>1. /\ \A r \in reqs : r.cd # c
          /\ \A k \in 1 .. Len(iopq) : iopq[k].cd # c
          /\ rx # None => rx.cd # c
      BY <1>11, <2>2 DEF Settled, OwnOK, Awaited
    <3>2. \E t \in Slots : slots'[t] = c
      BY <1>1, <1>7
    <3>. QED BY <1>3, <1>5, <1>7, <2>2, <3>1, <3>2 DEF Awaited, sifVars
  <2>3. CASE d # c
    <3>1. \A t \in Slots : slots[t] = d => slots'[t] = d
      BY <1>1, <1>7, <2>1, Clock
    <3>. QED BY <1>3, <1>5, <1>7, <2>3, <3>1 DEF Settled, OwnOK, Awaited, sifVars
  <2>. QED BY <2>2, <2>3
<1>14. GuestsOK'
  BY <1>1, <1>3, <1>7, <1>8 DEF Settled, GuestsOK
<1>15. ReadOK'
  BY <1>1, <1>3, <1>4, <1>5, <1>8 DEF Settled, ReadOK, Sought, sifVars
<1>. QED BY <1>5, <1>10, <1>12, <1>13, <1>14, <1>15 DEF Settled

LEMMA SubmitFailsKeeps ==
    ASSUME Settled, SubmitFails
    PROVE  Settled'
<1>1. /\ g.pc = "submit" /\ g.op \in AsyncOps /\ g.c \in Clients /\ ~InFlight(g.c)
      /\ g.blk \in Words /\ g.op \in Ops \cup {"none"}
  BY DEF SubmitFails, Settled, SlotsOK, Shapes, Guests
<1>2. /\ priv' = [priv EXCEPT ![g.c].op = g.op, ![g.c].status = "idle"]
      /\ loading' \in {loading, FALSE} /\ staging' \in {staging, g.blk, NoBlock} /\ g' = Idle
      /\ Pushed(g.blk) \/ UNCHANGED <<pend, count>>
      /\ UNCHANGED <<active, allocs, handler, slots, lfbound, sifVars, iopVars, histVars>>
  BY DEF SubmitFails
<1>3. Idle.pc = "idle" /\ Idle.op = "none" /\ Idle.ret = "idle" /\ Idle \in Guests
  BY IdleType DEF Idle
<1>4. priv \in [Clients -> States]
  BY DEF Settled, Shapes
<1>5. /\ priv' \in [Clients -> States]
      /\ \A d \in Clients : d # g.c => priv'[d].status = priv[d].status
  BY <1>1, <1>2, <1>4 DEF States
<1>6. /\ pend' \in [1 .. MaxPending -> Blocks \cup {NoBlock, Argument}] /\ count' \in Nat
  BY <1>1, <1>2, PushType DEF Settled, Shapes, TypeOK
<1>7. Shapes'
  BY <1>1, <1>2, <1>3, <1>5, <1>6, Clock
     DEF Settled, Shapes, TypeOK, Words, sifVars, iopVars, histVars
<1>8. \A s \in Slots : slots[s] \in Clients \cup {None}
  BY DEF Settled, Shapes, TypeOK
<1>9. SlotsOK'
  BY <1>1, <1>2, <1>3, <1>5, <1>8 DEF Settled, SlotsOK, InFlight, AsyncOps
<1>10. IdsOK' /\ OwnOK'
  BY <1>2 DEF Settled, IdsOK, Unasked, OwnOK, Awaited, sifVars, iopVars, histVars
<1>11. GuestsOK'
  BY <1>1, <1>2, <1>3 DEF Settled, GuestsOK, histVars
<1>12. ReadOK'
  BY <1>1, <1>2, <1>3 DEF Settled, ReadOK, Sought, sifVars, iopVars, histVars
<1>. QED BY <1>7, <1>9, <1>10, <1>11, <1>12 DEF Settled

-----------------------------------------------------------------------------
(* Sessions: what open() and close() drop is abandoned.                    *)

LEMMA CloseKeeps ==
    ASSUME Settled, CloseEnds
    PROVE  Settled'
<1>1. /\ g.pc = "body" /\ g' = Idle /\ active' = FALSE /\ handler' = 0
      /\ slots' = [s \in Slots |-> None]
      /\ loading' = FALSE /\ staging' = NoBlock /\ lfbound' = FALSE
      /\ abandoned' = abandoned \cup Dropped
      /\ UNCHANGED <<allocs, priv, pend, count, sifVars, iopVars, nextid, subm, done>>
      /\ UNCHANGED <<gen, slotgen, wild, misread>>
  BY DEF CloseEnds, AtBody
<1>2. Idle.pc = "idle" /\ Idle.op = "none" /\ Idle.ret = "idle" /\ Idle \in Guests
  BY IdleType DEF Idle
<1>3. Shapes'
  BY <1>1, <1>2 DEF Settled, Shapes, TypeOK, sifVars, iopVars
<1>4. SlotsOK'
  BY <1>1, <1>2 DEF Settled, SlotsOK, AsyncOps
<1>5. IdsOK'
  BY <1>1 DEF Settled, IdsOK, Unasked, sifVars, iopVars
<1>6. \A c \in Clients \ abandoned', s \in Slots : slots[s] # c
  BY <1>1, Clock DEF Dropped
<1>7. OwnOK'
  BY <1>1, <1>6 DEF Settled, OwnOK, Awaited, sifVars, iopVars
<1>8. GuestsOK'
  BY <1>1, <1>2 DEF Settled, GuestsOK
<1>9. ReadOK'
  BY <1>1, <1>2 DEF Settled, ReadOK, Sought, sifVars, iopVars
<1>. QED BY <1>3, <1>4, <1>5, <1>7, <1>8, <1>9 DEF Settled

LEMMA OpenKeeps ==
    ASSUME Settled, Open
    PROVE  Settled'
<1>1. /\ g.pc = "boot" \/ g = Idle
      /\ g' = Idle /\ active' = TRUE /\ handler' = 0 /\ allocs' = {}
      /\ slots' = [s \in Slots |-> None]
      /\ priv' = [c \in Clients |-> [status |-> "idle", op |-> "none", bound |-> FALSE]]
      /\ loading' = FALSE /\ staging' = NoBlock /\ lfbound' = FALSE
      /\ abandoned' = abandoned \cup Dropped
      /\ UNCHANGED <<pend, count, sifVars, iopVars, nextid, subm, done>>
      /\ UNCHANGED <<gen, slotgen, wild, misread>>
  BY DEF Open
<1>2. Idle.pc = "idle" /\ Idle.op = "none" /\ Idle.ret = "idle" /\ Idle \in Guests
  BY IdleType DEF Idle
<1>3. [status |-> "idle", op |-> "none", bound |-> FALSE] \in States
  BY DEF States
<1>4. Shapes'
  BY <1>1, <1>2, <1>3 DEF Settled, Shapes, TypeOK, sifVars, iopVars
<1>5. SlotsOK'
  BY <1>1, <1>2 DEF Settled, SlotsOK, AsyncOps
<1>6. IdsOK'
  BY <1>1 DEF Settled, IdsOK, Unasked, sifVars, iopVars
<1>7. \A c \in Clients \ abandoned', s \in Slots : slots[s] # c
  BY <1>1, Clock DEF Dropped
<1>8. OwnOK'
  BY <1>1, <1>7 DEF Settled, OwnOK, Awaited, sifVars, iopVars
<1>9. GuestsOK'
  BY <1>1, <1>2 DEF Settled, GuestsOK
<1>10. ReadOK'
  BY <1>1, <1>2 DEF Settled, ReadOK, Sought, sifVars, iopVars
<1>. QED BY <1>4, <1>5, <1>6, <1>8, <1>9, <1>10 DEF Settled

LEMMA CrashKeeps ==
    ASSUME Settled, Crash
    PROVE  Settled'
<1>1. /\ g = Idle /\ g' = [Idle EXCEPT !.pc = "boot"] /\ gen' = gen + 1
      /\ UNCHANGED <<brokerVars, sifVars, iopVars, nextid, subm, done, slotgen>>
      /\ UNCHANGED <<wild, abandoned, misread>>
  BY DEF Crash
<1>2. /\ Idle.pc = "idle" /\ Idle \in Guests
      /\ g'.pc = "boot" /\ g'.op = "none" /\ g'.ret = "idle" /\ g' \in Guests
  BY <1>1, IdleType DEF Idle, Guests
<1>3. Shapes'
  BY <1>1, <1>2 DEF Settled, Shapes, TypeOK, brokerVars, sifVars, iopVars
<1>4. SlotsOK'
  BY <1>1, <1>2 DEF Settled, SlotsOK, InFlight, brokerVars, AsyncOps
<1>5. IdsOK' /\ OwnOK'
  BY <1>1 DEF Settled, IdsOK, Unasked, OwnOK, Awaited, brokerVars, sifVars, iopVars
<1>6. GuestsOK'
  BY <1>1, <1>2 DEF Settled, GuestsOK
<1>7. ReadOK'
  BY <1>1, <1>2 DEF Settled, ReadOK, Sought, sifVars, iopVars
<1>. QED BY <1>3, <1>4, <1>5, <1>6, <1>7 DEF Settled

LEMMA RegisterKeeps ==
    ASSUME Settled, Register
    PROVE  Settled'
<1>1. /\ handler' \in {gen, 0}
      /\ UNCHANGED <<g, active, allocs, slots, priv, pend, count, loading, staging, lfbound>>
      /\ UNCHANGED <<sifVars, iopVars, histVars>>
  BY DEF Register
<1>2. Shapes'
  BY <1>1 DEF Settled, Shapes, TypeOK, sifVars, iopVars, histVars
<1>3. SlotsOK' /\ IdsOK' /\ OwnOK'
  BY <1>1 DEF Settled, SlotsOK, IdsOK, OwnOK, Awaited, InFlight, sifVars, iopVars, histVars
<1>4. GuestsOK'
  BY <1>1 DEF Settled, GuestsOK, histVars
<1>5. ReadOK'
  BY <1>1 DEF Settled, ReadOK, Sought, sifVars, iopVars, histVars
<1>. QED BY <1>2, <1>3, <1>4, <1>5 DEF Settled

-----------------------------------------------------------------------------
(* The interrupt.                                                          *)

\* What ps2_sif_broker_isr leaves alone, whatever packet it finds.
Interrupts ==
    /\ g.pc # "boot" /\ Rearmed(FALSE)
    /\ UNCHANGED <<g, active, allocs, handler, lfbound, heaparg, scratch, reqs, iopq, heap>>
    /\ UNCHANGED <<nextid, subm, gen, slotgen, abandoned, misread>>

LEMMA IsrOtherKeeps ==
    ASSUME Settled, Interrupts, IsrOther
    PROVE  Settled'
<1>1. rx' = None /\ UNCHANGED <<slots, priv, loading, staging, pend, count, done>>
  BY DEF Interrupts, Rearmed, IsrOther
<1>2. Shapes'
  BY <1>1 DEF Settled, Shapes, TypeOK, Interrupts
<1>3. SlotsOK' /\ IdsOK' /\ OwnOK'
  BY <1>1 DEF Settled, SlotsOK, IdsOK, OwnOK, Awaited, InFlight, Interrupts
<1>4. wild' <=> wild
  BY DEF Settled, GuestsOK, Interrupts, IsrOther
<1>5. GuestsOK'
  BY <1>1, <1>4 DEF Settled, GuestsOK, Interrupts
<1>6. ReadOK'
  BY <1>1 DEF Settled, ReadOK, Sought, Interrupts
<1>. QED BY <1>2, <1>3, <1>5, <1>6 DEF Settled

LEMMA IsrEndKeeps ==
    ASSUME Settled, Interrupts, rx # None,
           NEW s \in Slots, slots[s] = rx.cd, rx.cd # None, IsrEnd(s)
    PROVE  Settled'
<1>. DEFINE c == slots[s]
<1>0. /\ slots \in [Slots -> Clients \cup {None}] /\ priv \in [Clients -> States]
      /\ done \in [Clients -> Nat] /\ staging \in Words /\ rx \in Packets
      /\ slotgen[s] = gen
  BY DEF Settled, Shapes, TypeOK, Words, GuestsOK, Interrupts
<1>1. c \in Clients /\ c # None /\ rx.cd = c /\ rx.id \in Nat
  BY <1>0 DEF Packets
<1>2. /\ slots' = [slots EXCEPT ![s] = None] /\ done' = [done EXCEPT ![c] = rx.id]
      /\ Complete(c) /\ (wild' <=> wild) /\ rx' = None
  BY <1>0 DEF IsrEnd, Settled, GuestsOK, Interrupts, Rearmed
<1>. HIDE DEF c
<1>3. /\ slots' \in [Slots -> Clients \cup {None}] /\ done' \in [Clients -> Nat]
      /\ \A t \in Slots : slots'[t] = IF t = s THEN None ELSE slots[t]
      /\ \A d \in Clients : done'[d] = IF d = c THEN rx.id ELSE done[d]
  BY <1>0, <1>1, <1>2
<1>4. /\ priv' \in [Clients -> States]
      /\ \A d \in Clients : d # c => priv'[d].status = priv[d].status
      /\ priv'[c].status = "done"
  <2>1. PICK b \in BOOLEAN : priv' = [priv EXCEPT ![c].status = "done", ![c].bound = b]
    <3>1. \/ priv' = [priv EXCEPT ![c].status = "done", ![c].bound = (rx.blk # NoBlock)]
          \/ priv' = [priv EXCEPT ![c].status = "done", ![c].bound = priv[c].bound]
      BY <1>0, <1>1, <1>2 DEF Complete, States
    <3>2. priv[c].bound \in BOOLEAN
      BY <1>0, <1>1 DEF States
    <3>. QED BY <3>1, <3>2
  <2>2. priv' = [priv EXCEPT ![c] = [priv[c] EXCEPT !.status = "done", !.bound = b]]
    BY <1>0, <1>1, <2>1
  <2>3. priv[c] \in States
    BY <1>0, <1>1
  <2>4. /\ [priv[c] EXCEPT !.status = "done", !.bound = b] \in States
        /\ [priv[c] EXCEPT !.status = "done", !.bound = b].status = "done"
    BY <2>1, <2>3 DEF States
  <2>. QED BY <1>0, <1>1, <2>2, <2>4
<1>5. /\ pend' \in [1 .. MaxPending -> Blocks \cup {NoBlock, Argument}] /\ count' \in Nat
      /\ loading' \in BOOLEAN /\ staging' \in Blocks \cup {NoBlock, Argument}
  <2>1. Pushed(staging) \/ UNCHANGED <<pend, count>>
    BY <1>2 DEF Complete
  <2>2. loading' \in {FALSE, loading} /\ staging' \in {NoBlock, staging}
    BY <1>2 DEF Complete
  <2>. QED BY <1>0, <2>1, <2>2, PushType DEF Settled, Shapes, TypeOK
<1>6. Shapes'
  BY <1>2, <1>3, <1>4, <1>5 DEF Settled, Shapes, TypeOK, Interrupts
<1>7. \A t \in Slots : t # s => slots[t] # c
  BY <1>1 DEF c, Settled, SlotsOK
<1>8. SlotsOK'
  <2>1. \A t, u \in Slots : slots'[t] = slots'[u] /\ slots'[t] # None => t = u
    BY <1>3 DEF Settled, SlotsOK
  <2>2. \A t \in Slots : slots'[t] # None => slots[t] # c /\ slots[t] \in Clients /\ InFlight(slots[t])
    BY <1>0, <1>3, <1>7 DEF Settled, SlotsOK
  <2>3. \A t \in Slots : slots'[t] # None => InFlight(slots[t])'
    <3>1. SUFFICES ASSUME NEW t \in Slots, slots'[t] # None
                   PROVE  priv'[slots'[t]].status = "inflight"
      BY DEF InFlight
    <3>2. slots'[t] = slots[t]
      BY <1>3, <3>1
    <3>. QED BY <1>4, <2>2, <3>1, <3>2 DEF InFlight
  <2>4. g.op \in AsyncOps => g.c \in Clients /\ ~InFlight(g.c)'
    <3>1. SUFFICES ASSUME g.op \in AsyncOps
                   PROVE  g.c \in Clients /\ priv'[g'.c].status # "inflight"
      BY DEF InFlight
    <3>. QED BY <1>4, <3>1 DEF Settled, SlotsOK, InFlight, Interrupts
  <2>. QED BY <2>1, <2>3, <2>4 DEF Settled, SlotsOK, Interrupts
<1>9. IdsOK'
  BY <1>2 DEF Settled, IdsOK, Unasked, Interrupts
<1>10. rx.id # 0
  BY <1>1, Clock DEF Settled, IdsOK, Unasked
<1>11. OwnOK'
  <2>1. SUFFICES ASSUME NEW d \in Clients \ abandoned
                 PROVE  /\ done'[d] \in {0, subm[d]}
                        /\ \A r \in reqs : r.cd = d => r.id = subm[d] /\ (\E t \in Slots : slots'[t] = d)
                        /\ \A k \in 1 .. Len(iopq) : iopq[k].cd = d =>
                              iopq[k].id = subm[d] /\ (\E t \in Slots : slots'[t] = d)
    BY <1>2 DEF OwnOK, Awaited, Interrupts
  <2>2. CASE d = c
    <3>1. rx.id = subm[d]
      BY <1>1, <2>2 DEF Settled, OwnOK, Awaited
    <3>2. \A r \in reqs : r.cd # d
      BY <1>10, <3>1 DEF Settled, OwnOK, Awaited, IdsOK
    <3>3. \A k \in 1 .. Len(iopq) : iopq[k].cd # d
      BY <1>10, <3>1 DEF Settled, OwnOK, Awaited, IdsOK
    <3>. QED BY <1>3, <2>2, <3>1, <3>2, <3>3
  <2>3. CASE d # c
    <3>1. \A t \in Slots : slots[t] = d => slots'[t] = d
      BY <1>3, <2>3 DEF c
    <3>. QED BY <1>3, <2>3, <3>1 DEF Settled, OwnOK, Awaited
  <2>. QED BY <2>2, <2>3
<1>12. GuestsOK'
  BY <1>2, <1>3 DEF Settled, GuestsOK, Interrupts
<1>13. ReadOK'
  BY <1>2 DEF Settled, ReadOK, Sought, Interrupts
<1>. QED BY <1>6, <1>8, <1>9, <1>11, <1>12, <1>13 DEF Settled

LEMMA IsrKeeps ==
    ASSUME Settled, Isr
    PROVE  Settled'
<1>. DEFINE hit == IF rx = None THEN {}
                   ELSE {s \in SlotOf(rx.cd) : rx.p = "end" /\ rx.cd # None}
<1>1. Interrupts /\ IF hit # {} THEN IsrEnd(Lowest(hit)) ELSE IsrOther
  BY DEF Isr, Interrupts, IsrAck, iopVars
<1>2. CASE hit = {}
  BY <1>1, <1>2, IsrOtherKeeps
<1>3. CASE hit # {}
  <2>1. hit \in SUBSET (Nat \cup {Argument})
    BY Clock DEF SlotOf
  <2>2. Lowest(hit) \in hit
    BY <1>3, <2>1, LowestMember
  <2>3. /\ rx # None /\ Lowest(hit) \in Slots /\ slots[Lowest(hit)] = rx.cd /\ rx.cd # None
    BY <2>2 DEF SlotOf
  <2>. QED BY <1>1, <1>3, <2>3, IsrEndKeeps
<1>. QED BY <1>2, <1>3

-----------------------------------------------------------------------------
(* The IOP.                                                                *)

\* A packet joins those the IOP is sending.
LEMMA QueueMember ==
    ASSUME iopq \in Seq(Packets), NEW x \in Packets
    PROVE  /\ Append(iopq, x) \in Seq(Packets) /\ Len(Append(iopq, x)) = Len(iopq) + 1
           /\ Len(iopq) \in Nat
           /\ \A k \in 1 .. Len(iopq) : Append(iopq, x)[k] = iopq[k]
           /\ Append(iopq, x)[Len(iopq) + 1] = x
           /\ \A k \in 1 .. Len(iopq) + 1 : k \in 1 .. Len(iopq) \/ k = Len(iopq) + 1
BY AppendProperties

LEMMA ServesKeep ==
    ASSUME Settled, NEW r \in reqs, IopServes(r)
    PROVE  Settled'
<1>0. /\ iopq \in Seq(Packets) /\ r \in Requests /\ reqs \subseteq Requests
      /\ heap \subseteq Blocks /\ rx \in Packets \cup {None} /\ nextid \in Nat
  BY DEF Settled, Shapes, TypeOK
<1>1. /\ reqs' = reqs \ {r}
      /\ UNCHANGED <<g, brokerVars, sifVars, histVars>>
  BY DEF IopServes
<1>2. PICK b \in Blocks \cup {0, 1} :
        /\ iopq' = Append(iopq, Packet("end", r, b))
        /\ r.kind \in {"heapalloc", "heapfree"} => b \in Blocks \cup {NoBlock}
        /\ heap' \subseteq Blocks
  <2>1. CASE r.kind = "heapalloc"
    BY <1>0, <2>1 DEF IopServes, NoBlock
  <2>2. CASE r.kind = "heapfree"
    BY <1>0, <2>2 DEF IopServes, NoBlock
  <2>3. CASE r.kind \notin {"heapalloc", "heapfree"}
    BY <1>0, <2>3 DEF IopServes
  <2>. QED BY <2>1, <2>2, <2>3
<1>. DEFINE x == Packet("end", r, b)
<1>3. /\ x \in Packets /\ x.id = r.id /\ x.cd = r.cd /\ x.kind = r.kind /\ x.blk = b
      /\ r.id \in Nat \ {0}
  BY <1>0 DEF Packet, Packets, Requests
<1>. HIDE DEF x
<1>4. /\ iopq' \in Seq(Packets) /\ Len(iopq') = Len(iopq) + 1 /\ Len(iopq) \in Nat
      /\ \A k \in 1 .. Len(iopq) : iopq'[k] = iopq[k]
      /\ iopq'[Len(iopq) + 1] = x
      /\ \A k \in 1 .. Len(iopq') : k \in 1 .. Len(iopq) \/ k = Len(iopq) + 1
  BY <1>0, <1>2, <1>3, QueueMember DEF x
<1>5. Shapes'
  BY <1>1, <1>2, <1>3, <1>4 DEF Settled, Shapes, TypeOK, brokerVars, sifVars, histVars
<1>6. SlotsOK'
  BY <1>1 DEF Settled, SlotsOK, InFlight, brokerVars
<1>7. r.id <= nextid /\ (rx # None => rx.id # r.id)
  BY <1>3 DEF Settled, IdsOK, Unasked
<1>8. IdsOK'
  <2>1. \A k \in 1 .. Len(iopq') : iopq'[k].id <= nextid /\ Unasked(iopq'[k])
    BY <1>3, <1>4, <1>7 DEF Settled, IdsOK, Unasked
  <2>2. \A q \in reqs', k \in 1 .. Len(iopq') : iopq'[k].id # q.id
    BY <1>1, <1>3, <1>4 DEF Settled, IdsOK, Unasked
  <2>3. \A k, l \in 1 .. Len(iopq') : iopq'[k].id = iopq'[l].id => k = l \/ iopq'[k].id = 0
    BY <1>3, <1>4 DEF Settled, IdsOK, Unasked
  <2>4. rx # None /\ rx.id # 0 =>
           (\A q \in reqs' : q.id # rx.id) /\ (\A k \in 1 .. Len(iopq') : iopq'[k].id # rx.id)
    BY <1>1, <1>3, <1>4, <1>7 DEF Settled, IdsOK, Unasked
  <2>. QED BY <1>1, <2>1, <2>2, <2>3, <2>4 DEF Settled, IdsOK, Unasked, sifVars, histVars
<1>9. OwnOK'
  <2>1. \A c \in Clients \ abandoned : \A k \in 1 .. Len(iopq') : Awaited(c, iopq'[k])
    BY <1>3, <1>4 DEF Settled, OwnOK, Awaited
  <2>. QED BY <1>1, <2>1 DEF Settled, OwnOK, Awaited, brokerVars, sifVars, histVars
<1>10. GuestsOK'
  BY <1>1 DEF Settled, GuestsOK, brokerVars, histVars
<1>11. ReadOK'
  <2>1. None \notin abandoned => \A k \in 1 .. Len(iopq') : Sought(iopq'[k])
    BY <1>3, <1>4 DEF Settled, ReadOK, Sought
  <2>. QED BY <1>1, <2>1 DEF Settled, ReadOK, Sought, sifVars, histVars
<1>. QED BY <1>5, <1>6, <1>8, <1>9, <1>10, <1>11 DEF Settled

LEMMA NotesKeep ==
    ASSUME Settled, IopNotifies
    PROVE  Settled'
<1>. DEFINE x == Packet("cmd", Note, NoBlock)
<1>1. /\ x \in Packets /\ x.id = 0 /\ x.cd = None /\ x.kind = "note" /\ x.blk = NoBlock
  BY Clock DEF Packet, Packets, Note, Kinds, Owners, NoBlock
<1>2. iopq' = Append(iopq, x) /\ UNCHANGED <<g, brokerVars, sifVars, reqs, heap, histVars>>
  BY DEF IopNotifies
<1>. HIDE DEF x
<1>3. iopq \in Seq(Packets) /\ nextid \in Nat
  BY DEF Settled, Shapes
<1>4. /\ iopq' \in Seq(Packets) /\ Len(iopq') = Len(iopq) + 1 /\ Len(iopq) \in Nat
      /\ \A k \in 1 .. Len(iopq) : iopq'[k] = iopq[k]
      /\ iopq'[Len(iopq) + 1] = x
      /\ \A k \in 1 .. Len(iopq') : k \in 1 .. Len(iopq) \/ k = Len(iopq) + 1
  BY <1>1, <1>2, <1>3, QueueMember
<1>5. Shapes'
  BY <1>1, <1>2, <1>4 DEF Settled, Shapes, TypeOK, brokerVars, sifVars, histVars
<1>6. SlotsOK'
  BY <1>2 DEF Settled, SlotsOK, InFlight, brokerVars
<1>7. \A r \in reqs : r.id # 0
  BY DEF Settled, Shapes, Requests
<1>8. IdsOK'
  BY <1>1, <1>2, <1>3, <1>4, <1>7 DEF Settled, IdsOK, Unasked, sifVars, histVars
<1>9. OwnOK'
  <2>1. \A c \in Clients \ abandoned : \A k \in 1 .. Len(iopq') : Awaited(c, iopq'[k])
    BY <1>1, <1>4, Clock DEF Settled, OwnOK, Awaited
  <2>. QED BY <1>2, <2>1 DEF Settled, OwnOK, Awaited, brokerVars, sifVars, histVars
<1>10. GuestsOK'
  BY <1>2 DEF Settled, GuestsOK, brokerVars, histVars
<1>11. ReadOK'
  <2>1. None \notin abandoned => \A k \in 1 .. Len(iopq') : Sought(iopq'[k])
    BY <1>1, <1>4 DEF Settled, ReadOK, Sought
  <2>. QED BY <1>2, <2>1 DEF Settled, ReadOK, Sought, sifVars, histVars
<1>. QED BY <1>5, <1>6, <1>8, <1>9, <1>10, <1>11 DEF Settled

LEMMA DeliverKeeps ==
    ASSUME Settled, Deliver
    PROVE  Settled'
<1>. DEFINE x == Head(iopq)
<1>1. /\ iopq # <<>> /\ iopq' = Tail(iopq) /\ rx' = x /\ armed' = FALSE
      /\ heaparg' = IF x.kind \in {"heapalloc", "heapfree"} THEN x.blk ELSE heaparg
      /\ scratch' = IF x.kind = "other" THEN x.id ELSE scratch
      /\ UNCHANGED <<g, brokerVars, heapbound, reqs, heap, histVars>>
  BY DEF Deliver
<1>2. /\ iopq \in Seq(Packets) /\ Len(iopq) \in Nat \ {0} /\ iopq[1] = x
      /\ iopq' \in Seq(Packets) /\ Len(iopq') = Len(iopq) - 1
      /\ \A k \in 1 .. Len(iopq') : k + 1 \in 2 .. Len(iopq) /\ iopq'[k] = iopq[k + 1]
  BY <1>1 DEF Settled, Shapes
<1>. HIDE DEF x
<1>3. 1 \in 1 .. Len(iopq) /\ x \in Packets /\ x.id \in Nat
  <2>1. 1 \in 1 .. Len(iopq)
    BY <1>2
  <2>2. x \in Packets
    BY <1>2, <2>1
  <2>. QED BY <2>1, <2>2 DEF Packets
<1>4. \A k \in 1 .. Len(iopq') : k + 1 \in 1 .. Len(iopq) /\ k + 1 # 1 /\ iopq'[k] = iopq[k + 1]
  BY <1>2
<1>5. Shapes'
  <2>1. heaparg' \in Words
    BY <1>1, <1>2, <1>3 DEF Settled, Shapes, Words
  <2>2. scratch' \in Nat
    BY <1>1, <1>3 DEF Settled, Shapes
  <2>3. \A k \in 1 .. Len(iopq') :
          iopq'[k].kind \in {"heapalloc", "heapfree"} => iopq'[k].blk \in Blocks \cup {NoBlock}
    BY <1>4 DEF Settled, Shapes
  <2>. QED BY <1>1, <1>2, <1>3, <2>1, <2>2, <2>3 DEF Settled, Shapes, TypeOK, brokerVars, histVars
<1>6. SlotsOK'
  BY <1>1 DEF Settled, SlotsOK, InFlight, brokerVars
<1>7. IdsOK'
  <2>1. x.id <= nextid /\ Unasked(x) /\ (\A r \in reqs : x.id # r.id)
    BY <1>2, <1>3 DEF Settled, IdsOK, Unasked
  <2>2. x.id # 0 => \A k \in 1 .. Len(iopq') : iopq'[k].id # x.id
    BY <1>2, <1>3, <1>4 DEF Settled, IdsOK, Unasked
  <2>3. \A k, l \in 1 .. Len(iopq') : iopq'[k].id = iopq'[l].id => k = l \/ iopq'[k].id = 0
    <3>1. SUFFICES ASSUME NEW k \in 1 .. Len(iopq'), NEW l \in 1 .. Len(iopq'),
                          iopq'[k].id = iopq'[l].id, iopq'[k].id # 0
                   PROVE  k = l
      OBVIOUS
    <3>2. /\ k + 1 \in 1 .. Len(iopq) /\ l + 1 \in 1 .. Len(iopq)
          /\ iopq[k + 1].id = iopq[l + 1].id /\ iopq[k + 1].id # 0
      BY <1>4, <3>1
    <3>3. k + 1 = l + 1
      BY <3>2 DEF Settled, IdsOK, Unasked
    <3>. QED BY <3>3
  <2>4. /\ \A k \in 1 .. Len(iopq') : iopq'[k].id <= nextid /\ Unasked(iopq'[k])
        /\ \A r \in reqs, k \in 1 .. Len(iopq') : iopq'[k].id # r.id
    BY <1>4 DEF Settled, IdsOK, Unasked
  <2>. QED BY <1>1, <2>1, <2>2, <2>3, <2>4 DEF Settled, IdsOK, Unasked, histVars
<1>8. OwnOK'
  <2>1. \A c \in Clients \ abandoned :
          Awaited(c, x) /\ (\A k \in 1 .. Len(iopq') : Awaited(c, iopq'[k]))
    BY <1>2, <1>3, <1>4 DEF Settled, OwnOK
  <2>. QED BY <1>1, <2>1 DEF Settled, OwnOK, Awaited, brokerVars, histVars
<1>9. GuestsOK'
  BY <1>1 DEF Settled, GuestsOK, brokerVars, histVars
<1>10. ReadOK'
  <2>1. SUFFICES ASSUME None \notin abandoned
                 PROVE  /\ ~misread'
                        /\ \A r \in reqs' : Sought(r)'
                        /\ \A k \in 1 .. Len(iopq') : Sought(iopq[k])'
                        /\ g.pc = "reading" /\ scratch' # 0 => scratch' = g.req
                        /\ rx' # None /\ rx'.kind = "other" => g.pc = "reading"
    BY <1>1 DEF ReadOK, histVars
  <2>2. ~misread /\ (\A r \in reqs : Sought(r)) /\ Sought(x) /\ (\A k \in 1 .. Len(iopq') : Sought(iopq'[k]))
    BY <1>2, <1>3, <1>4, <2>1 DEF Settled, ReadOK
  <2>3. CASE x.kind = "other"
    <3>1. x.id = g.req /\ scratch' = x.id
      BY <1>1, <2>2, <2>3 DEF Sought
    <3>2. x.id # 0
      BY <1>2, <1>3, <2>3 DEF Settled, IdsOK, Unasked
    <3>3. /\ \A r \in reqs : r.kind # "other"
          /\ \A k \in 1 .. Len(iopq') : iopq'[k].kind # "other"
      <4>1. \A r \in reqs : r.id # x.id
        BY <1>2, <1>3 DEF Settled, IdsOK, Unasked
      <4>2. \A k \in 1 .. Len(iopq') : iopq'[k].id # x.id
        BY <1>2, <1>3, <1>4, <3>2 DEF Settled, IdsOK, Unasked
      <4>. QED BY <2>2, <3>1, <4>1, <4>2 DEF Sought
    <3>. QED BY <1>1, <2>2, <3>1, <3>3 DEF Sought, histVars
  <2>4. CASE x.kind # "other"
    BY <1>1, <2>1, <2>2, <2>4 DEF Settled, ReadOK, Sought, histVars
  <2>. QED BY <2>3, <2>4
<1>. QED BY <1>5, <1>6, <1>7, <1>8, <1>9, <1>10 DEF Settled

-----------------------------------------------------------------------------
(* The theorems.                                                           *)

LEMMA StutterKeeps ==
    ASSUME Settled, UNCHANGED vars
    PROVE  Settled'
<1>. USE DEF vars, brokerVars, sifVars, iopVars, histVars
<1>1. Shapes'
  BY DEF Settled, Shapes, TypeOK
<1>2. SlotsOK' /\ IdsOK' /\ OwnOK'
  BY DEF Settled, SlotsOK, InFlight, IdsOK, Unasked, OwnOK, Awaited
<1>3. GuestsOK' /\ ReadOK'
  BY DEF Settled, GuestsOK, ReadOK, Sought
<1>. QED BY <1>1, <1>2, <1>3 DEF Settled

LEMMA SettledStep ==
    ASSUME Settled, [Next]_vars
    PROVE  Settled'
BY StutterKeeps, CallsKeep, OpenKeeps, CrashKeeps, RegisterKeeps, PollKeeps, DrainKeeps,
   ReturnKeeps, LoadKeeps, NoSlotKeeps, PollsKeep, ReadsKeep, ReadEndsKeep, SubmitKeeps,
   SubmitFailsKeeps, CloseKeeps, IsrKeeps, ServesKeep, NotesKeep, DeliverKeeps
   DEF Next, InBroker

LEMMA SettledBegins ==
    ASSUME Init
    PROVE  Settled
<1>1. Idle.op = "none" /\ Idle.ret = "idle" /\ Idle \in Guests
  BY IdleType DEF Idle
<1>2. g \in Guests /\ g.pc = "boot" /\ g.op = "none" /\ g.ret = "idle"
  BY <1>1 DEF Init, Guests
<1>3. [status |-> "idle", op |-> "none", bound |-> FALSE] \in States
  BY DEF States
<1>4. iopq = << >> /\ iopq \in Seq(Packets) /\ Len(iopq) = 0
  BY DEF Init
<1>5. TypeOK
  BY Clock DEF Init, TypeOK
<1>6. Shapes
  BY <1>2, <1>3, <1>4, <1>5, Clock DEF Init, Shapes
<1>7. SlotsOK /\ IdsOK /\ OwnOK /\ GuestsOK /\ ReadOK
  BY <1>2, <1>4 DEF Init, SlotsOK, IdsOK, OwnOK, GuestsOK, ReadOK, AsyncOps
<1>. QED BY <1>6, <1>7 DEF Settled

LEMMA Settles == Spec => []Settled
<1>1. Settled /\ [Next]_vars => Settled'
  BY SettledStep
<1>2. Init => Settled
  BY SettledBegins
<1>. QED BY <1>1, <1>2, PTL DEF Spec

(***************************************************************************)
(* An operation of the broker is completed by the reply to its own request *)
(* and by nothing else, whatever the guest does meanwhile, in whichever    *)
(* order the IOP answers and whoever takes the packets out of the one      *)
(* receive buffer (ps2_sif_broker_isr, slot_of_client), as long as open()  *)
(* or close() has dropped no operation of the same client.                 *)
(***************************************************************************)
THEOREM CompletedByOwn == Spec => []OwnCompletion
<1>1. Settled => OwnCompletion
  BY DEF Settled, OwnOK, OwnCompletion
<1>. QED BY <1>1, Settles, PTL

(***************************************************************************)
(* A broker_iop_read returns its own data from the buffer all reads share, *)
(* as long as no read has given up before its data came, and also when     *)
(* operations of clients were dropped or came late                         *)
(* (ee_sif_get_other_data).  Replies of calls are another matter: see      *)
(* CompletedByOwn, and RepliesReachPoller for the calls that poll.         *)
(***************************************************************************)
THEOREM ReadsGiveOwn == Spec => []ReadsOwn
<1>1. Settled => ReadsOwn
  BY DEF Settled, ReadOK, ReadsOwn
<1>. QED BY <1>1, Settles, PTL

(***************************************************************************)
(* The interrupt never calls into a guest that has ended, with or without  *)
(* close() (session_reset_state), and the queue of blocks to be freed      *)
(* holds nothing but addresses.                                            *)
(***************************************************************************)
THEOREM CallsTheLiving == Spec => [](TypeOK /\ NoDeadCallback)
<1>1. Settled => TypeOK /\ NoDeadCallback
  BY DEF Settled, Shapes, GuestsOK, NoDeadCallback
<1>. QED BY <1>1, Settles, PTL

-----------------------------------------------------------------------------
(* The blocks of the IOP heap, for guests that poll only while nothing is  *)
(* in flight (SyncAlone) and as long as open() and close() have dropped    *)
(* nothing.                                                                *)

HeapKinds == {"heapalloc", "heapfree"}
SyncKinds == HeapKinds \cup {"heapbind", "lfbind"}

\* The packets of the IOP, and all that is on its way.
Coming == {iopq[k] : k \in 1 .. Len(iopq)} \cup ({rx} \ {None})
Way == reqs \cup Coming

(* A client's requests are those of the guest, and the heap is used only   *)
(* after it has been bound.                                                *)
Matched(x) == /\ x.kind \in AsyncOps <=> x.cd \in Clients
              /\ x.kind \in HeapKinds => heapbound
              /\ x.kind # "none"
KindsOK ==
    /\ \A x \in Way : Matched(x)
    /\ \A r \in reqs : r.kind # "note"
    /\ \A x \in Coming : x.kind = "note" <=> x.p = "cmd"
    /\ heap # {} => heapbound

(* Which function made the call of the SIF stack that is under way.        *)
RoutesOK ==
    /\ g.pc = "idle" => g = Idle
    /\ g.pc = "boot" => g = [Idle EXCEPT !.pc = "boot"]
    /\ g.ret = "alloc" => g.op \in {"alloc", "load"} /\ g.want = "heapalloc" /\ g.masked
    /\ g.ret = "end" => g.op \in {"alloc", "load"} /\ g.want = "heapfree" /\ g.masked
    /\ g.ret = "freed" => g.op = "free" /\ g.want = "heapfree" /\ g.masked
    /\ g.ret = "closing" => g.op = "close" /\ g.want = "heapfree" /\ g.masked
    /\ g.ret = "bound" => /\ g.op \in {"load", "path"} /\ g.want = "lfbind" /\ g.masked
                          /\ g.kind # "heapbind" /\ g.pc # "rpc"
    /\ g.ret = "drained" => g.want = "heapfree"
    /\ g.pc \in {"poll", "polled", "rpc"} => g.ret # "idle" /\ g.req # 0
    /\ g.pc = "poll" => g.kind \in {g.want, "heapbind"}
    /\ g.pc = "polled" => g.kind \in {g.want, "heapbind", "none"}
    /\ g.pc \in {"poll", "polled"} /\ g.kind \in HeapKinds => heapbound
    /\ g.pc = "rpc" => heapbound
    /\ g.pc = "stage" => g.op = "load"
    /\ g.pc = "reading" => g.op = "read"

(* The reply to a client in flight has gone to a poll, that of close().    *)
Lost == \E s \in Slots : slots[s] # None /\ (\A x \in Way : x.cd # slots[s])
Closing == g.op = "close" /\ ~loading /\ (\A r \in reqs : r.kind # "load")

(* Who is doing what: nothing is polled for beside a submission, no block  *)
(* is queued beside one, nothing is done while a module loads.             *)
Busy == g.pc \notin {"idle", "boot"}
WorkOK ==
    /\ Busy => ~loading /\ g.op # "none"
    /\ Busy /\ g.op \in PollOps \cup {"load", "path"} => \A s \in Slots : slots[s] = None
    /\ loading => \E s \in Slots : slots[s] # None
    /\ \A s, t \in Slots : loading /\ slots[s] # None /\ slots[t] # None => s = t
    /\ \A s \in Slots : slots[s] # None => (priv[slots[s]].op \in {"load", "path"} <=> loading)
    /\ \A r \in reqs : r.kind = "load" => loading /\ r.blk = staging /\ staging # NoBlock

(* The queue of pending_free_push holds one block at the most.             *)
QueueOK ==
    /\ count \in {0, 1}
    /\ count = 1 => \A s \in Slots : slots[s] = None
    /\ \A i \in 1 .. MaxPending : pend[i] # NoBlock => i = 1 /\ count = 1
    /\ count = 1 /\ pend[1] = NoBlock => g.pc = "draining" /\ g.i = 2
    /\ g.pc = "draining" => g.n = count /\ g.i \in {1, 2} /\ (g.i = 2 => count = 1 /\ pend[1] = NoBlock)
    /\ g.pc \in {"poll", "polled", "rpc"} /\ g.ret = "drained" =>
         g.i = 1 /\ g.n = 1 /\ count = 1 /\ g.word = pend[1]
    /\ g.pc \in {"poll", "polled", "rpc"} /\ g.ret # "drained" => count = 0
    /\ g.pc \in {"body", "stage", "submit", "reading"} => count = 0

Book == allocs \cup PendingBlocks \cup StagingBlock \cup orphans

(* The block in hand, and the call made with it.                           *)
HandOK ==
    /\ g.op = "free" /\ Busy => g.blk \in allocs /\ g.pc \notin {"submit", "stage"}
    /\ g.op = "load" /\ g.pc # "submit" =>
         g.blk = NoBlock \/ (g.ret = "end" /\ g.pc \in {"poll", "polled"})
    /\ g.op = "load" /\ g.pc = "submit" => g.blk # NoBlock
    /\ g.op \notin {"load", "free"} => g.blk = NoBlock
    /\ g.pc \in {"poll", "polled"} /\ g.kind = "heapbind" => g.ret = "alloc"
    /\ g.pc = "rpc" => g.ret = "alloc"
    /\ g.pc = "polled" => g.kind # "none" /\ (g.ret # "drained" => g.rc = 0)
    /\ g.pc \in {"poll", "polled"} =>
         /\ g.ret = "freed" => g.word = g.blk
         /\ g.ret = "closing" => g.word \in allocs
         /\ g.ret = "end" => g.word \notin Book /\ g.word # NoBlock

(* What is on its way for the guest is the request of its poll, or the     *)
(* reply; the interrupt may have taken that of pending_free_drain.         *)
Granted(b) == heap = Book \cup ({b} \ {NoBlock}) /\ b \notin Book
Mine(x) == /\ x.kind \in SyncKinds <=> g.pc = "poll" /\ x.id = g.req
           /\ x.kind \in SyncKinds => x.kind = g.kind
PollOK ==
    /\ \A x \in Way : Mine(x)
    /\ g.pc = "poll" /\ (\A x \in Way : x.id # g.req) => g.ret = "drained" /\ heap = Book \ {g.word}
    /\ \A r \in reqs : /\ r.kind = "heapalloc" => heap = Book
                       /\ r.kind = "heapfree" =>
                            r.blk = g.word /\ g.word # NoBlock /\ heap = Book \cup {g.word}
    /\ \A x \in Coming : /\ x.kind = "heapalloc" => Granted(x.blk)
                         /\ x.kind = "heapfree" => heap = Book \ {g.word} /\ x.blk = g.word
    /\ rx # None /\ rx.kind \in HeapKinds => heaparg = rx.blk

(* What the heap holds while no call of its functions is under way.        *)
HeapOK ==
    /\ g.pc = "polled" /\ g.kind = "heapalloc" => Granted(heaparg)
    /\ g.pc = "polled" /\ g.kind = "heapfree" =>
         heap = Book \ {g.word} /\ (g.ret # "drained" => heaparg = g.word /\ g.word # NoBlock)
    /\ g.pc \in {"poll", "polled"} /\ g.kind \notin HeapKinds => heap = Book
    /\ g.pc = "submit" => Granted(g.blk)
    /\ g.pc \notin {"poll", "polled", "submit"} => heap = Book

(* No block is accounted for twice.                                        *)
BookOK ==
    /\ Book \subseteq Blocks
    /\ PendingBlocks \cap (allocs \cup StagingBlock) = {}
    /\ allocs \cap StagingBlock = {}
    /\ orphans \cap (allocs \cup PendingBlocks \cup StagingBlock) = {}

Books == WorkOK /\ QueueOK /\ HandOK /\ PollOK /\ HeapOK /\ BookOK
Tidy == /\ KindsOK /\ RoutesOK
        /\ abandoned = {} => IF Lost THEN Closing ELSE Books

-----------------------------------------------------------------------------
(* What is on its way.                                                     *)

LEMMA WayTypes ==
    ASSUME Settled
    PROVE  /\ reqs \subseteq Requests /\ Coming \subseteq Packets
           /\ rx # None => rx \in Coming
           /\ \A r \in reqs : r.id # 0 /\ r.id <= nextid
           /\ \A x \in Coming : x.id <= nextid /\ (x.id = 0 => x.cd = None /\ x.kind = "note")
           /\ \A r \in reqs, x \in Coming : r.id # x.id
           /\ \A r, q \in reqs : r.id = q.id => r = q
<1>1. /\ reqs \subseteq Requests /\ iopq \in Seq(Packets) /\ rx \in Packets \cup {None}
  BY DEF Settled, Shapes
<1>2. \A k \in 1 .. Len(iopq) : iopq[k] \in Packets
  BY <1>1
<1>3. Coming \subseteq Packets
  BY <1>1, <1>2 DEF Coming
<1>4. \A r \in reqs : r.id # 0
  BY <1>1 DEF Requests
<1>5. \A r \in reqs, x \in Coming : r.id # x.id
  BY <1>4 DEF Settled, IdsOK, Coming
<1>. QED BY <1>1, <1>3, <1>4, <1>5 DEF Settled, IdsOK, Coming, Unasked

\* ee_sif_rearm_receive empties the buffer.
LEMMA WayCleared ==
    ASSUME Settled, rx' = None, iopq' = iopq, reqs' = reqs
    PROVE  /\ Coming' \subseteq Coming /\ Way' \subseteq Way
           /\ \A x \in Way : x \in Way' \/ (x = rx /\ rx # None)
           /\ rx # None /\ rx.id # 0 => \A x \in Way' : x.id # rx.id
<1>1. Coming' = {iopq[k] : k \in 1 .. Len(iopq)}
  BY DEF Coming
<1>2. rx # None /\ rx.id # 0 => \A x \in Way' : x.id # rx.id
  BY <1>1 DEF Way, Settled, IdsOK
<1>. QED BY <1>1, <1>2 DEF Way, Coming

\* One sends a request.
LEMMA WaySent ==
    ASSUME NEW new, reqs' = reqs \cup {new}, iopq' = iopq, rx' = rx
    PROVE  Coming' = Coming /\ Way' = Way \cup {new}
BY DEF Way, Coming

LEMMA WaySame ==
    ASSUME UNCHANGED <<reqs, iopq, rx>>
    PROVE  Coming' = Coming /\ Way' = Way
BY DEF Way, Coming

-----------------------------------------------------------------------------
(* Parts of the invariant that most steps keep.                            *)

LEMMA BookSame ==
    ASSUME UNCHANGED <<allocs, pend, loading, staging, orphans>>
    PROVE  /\ Book' = Book /\ PendingBlocks' = PendingBlocks /\ StagingBlock' = StagingBlock
           /\ BookOK => BookOK'
BY DEF Book, PendingBlocks, StagingBlock, BookOK

LEMMA QueueBlocks ==
    ASSUME QueueOK
    PROVE  PendingBlocks = {pend[1]} \ {NoBlock} /\ (count = 0 => PendingBlocks = {})
<1>1. 1 \in 1 .. MaxPending
  BY Clock
<1>. QED BY <1>1 DEF QueueOK, PendingBlocks

\* Nothing the guest polls for is on its way.
LEMMA QuietNow ==
    ASSUME g'.pc # "poll", \A x \in Way' : x.kind \notin SyncKinds
    PROVE  PollOK'
<1>1. (\A x \in Way : Mine(x))'
  BY DEF Mine
<1>2. (\A r \in reqs : r.kind \notin HeapKinds)'
  BY DEF Way, SyncKinds
<1>3. (\A x \in Coming : x.kind \notin HeapKinds)'
  BY DEF Way, SyncKinds
<1>4. (rx # None => rx.kind \notin HeapKinds)'
  BY <1>3 DEF Coming
<1>. QED BY <1>1, <1>2, <1>3, <1>4 DEF PollOK, HeapKinds

LEMMA QuietKeeps ==
    ASSUME PollOK, g.pc # "poll", g'.pc # "poll",
           \A x \in Way' : x \in Way \/ x.kind \notin SyncKinds
    PROVE  PollOK'
<1>1. \A x \in Way : x.kind \notin SyncKinds
  BY DEF PollOK, Mine
<1>. QED BY <1>1, QuietNow

LEMMA WorkKeeps ==
    ASSUME WorkOK, UNCHANGED <<slots, loading, staging, priv>>,
           \A r \in reqs' : r \in reqs \/ r.kind # "load",
           Busy' => Busy /\ g'.op = g.op
    PROVE  WorkOK'
BY DEF WorkOK

\* A reply that is lost stays so until open() or close() forget the client.
LEMMA LostKeeps ==
    ASSUME UNCHANGED slots,
           \A x \in Way' : x.cd \in Clients => \E y \in Way : y.cd = x.cd,
           Settled
    PROVE  Lost => Lost'
<1>1. \A s \in Slots : slots[s] # None => slots[s] \in Clients
  BY DEF Settled, Shapes, TypeOK
<1>. QED BY <1>1 DEF Lost

LEMMA FoundKeeps ==
    ASSUME UNCHANGED slots, Settled,
           \A x \in Way : x \in Way' \/ x.cd \notin Clients
    PROVE  Lost' => Lost
<1>1. \A s \in Slots : slots[s] # None => slots[s] \in Clients
  BY DEF Settled, Shapes, TypeOK
<1>. QED BY <1>1 DEF Lost

-----------------------------------------------------------------------------
(* Steps of the guest that send nothing.                                   *)

LEMMA LocalKeeps ==
    ASSUME Settled, Tidy, UNCHANGED <<slots, abandoned, reqs, iopq, rx, heap>>,
           heapbound => heapbound',
           RoutesOK', Closing => Closing', Books => Books'
    PROVE  Tidy'
<1>1. Coming' = Coming /\ Way' = Way
  BY WaySame
<1>2. KindsOK'
  BY <1>1 DEF Tidy, KindsOK, Matched
<1>3. Lost' <=> Lost
  BY <1>1 DEF Lost
<1>. QED BY <1>2, <1>3 DEF Tidy

\* What a step of the guest's own has not touched.
Elsewhere == /\ UNCHANGED <<slots, abandoned, reqs, iopq, rx, heap, orphans, priv, heaparg>>
             /\ heapbound => heapbound'

LEMMA DrainTidy ==
    ASSUME Settled, Tidy, DrainRead \/ DrainFreed \/ DrainEnd
    PROVE  Tidy'
<1>1. g \in Guests /\ pend \in [1 .. MaxPending -> Blocks \cup {NoBlock, Argument}] /\ count \in Nat
  BY DEF Settled, Shapes, TypeOK
<1>2. /\ Elsewhere /\ UNCHANGED <<allocs, loading, staging>>
      /\ g.pc \in {"drain", "draining", "polled"} /\ g'.pc \in {"draining", "body"}
      /\ g'.op = g.op /\ g'.ret = g.ret /\ g'.blk = g.blk /\ g'.want = g.want /\ g'.kind = g.kind
      /\ g'.masked = g.masked
  <2>1. Elsewhere /\ UNCHANGED <<allocs, loading, staging>>
    BY DEF DrainRead, DrainFreed, DrainEnd, Local, sifVars, iopVars, histVars, Elsewhere, brokerVars
  <2>2. CASE DrainRead
    BY <1>1, <2>1, <2>2 DEF DrainRead, Guests
  <2>3. CASE DrainFreed
    BY <1>1, <2>1, <2>3 DEF DrainFreed, Back, Guests
  <2>4. CASE DrainEnd
    BY <1>1, <2>1, <2>4 DEF DrainEnd, Guests
  <2>. QED BY <2>1, <2>2, <2>3, <2>4
<1>3. RoutesOK'
  BY <1>2 DEF Tidy, RoutesOK
<1>4. Closing => Closing'
  BY <1>2 DEF Closing, Elsewhere
<1>5. ASSUME Books
      PROVE  Books'
  <2>1. WorkOK'
    BY <1>2, <1>5, WorkKeeps DEF Books, Elsewhere, Busy
  <2>2. PollOK'
    <3>1. Way' = Way
      BY <1>2, WaySame DEF Elsewhere
    <3>. QED BY <1>2, <1>5, <3>1, QuietKeeps DEF Books
  <2>3. 1 \in 1 .. MaxPending /\ MaxPending >= 1
    BY Clock
  <2>4. CASE DrainRead
    <3>1. count \in {0, 1} /\ g.pc = "drain"
      BY <1>5, <2>4 DEF Books, QueueOK, DrainRead
    <3>2. g' = [g EXCEPT !.pc = "draining", !.i = 1, !.n = count] /\ UNCHANGED <<pend, count>>
      <4>1. (IF count > MaxPending THEN MaxPending ELSE count) = count
        BY <3>1, Clock
      <4>. QED BY <2>4, <4>1 DEF DrainRead, brokerVars
    <3>3. QueueOK'
      BY <1>1, <1>2, <1>5, <3>1, <3>2 DEF Books, QueueOK, Elsewhere, Guests
    <3>4. Book' = Book /\ BookOK'
      BY <1>2, <1>5, <3>2, BookSame DEF Books, Elsewhere
    <3>5. HandOK'
      BY <1>2, <1>5, <3>1, <3>2, <3>4 DEF Books, HandOK, Busy
    <3>6. HeapOK'
      BY <1>2, <1>5, <3>1, <3>2, <3>4 DEF Books, HeapOK, Elsewhere
    <3>. QED BY <2>1, <2>2, <3>3, <3>4, <3>5, <3>6 DEF Books
  <2>5. CASE DrainFreed
    <3>1. /\ g.pc = "polled" /\ g.ret = "drained" /\ g.kind # "heapbind" /\ UNCHANGED count
          /\ pend' = [pend EXCEPT ![g.i] = NoBlock]
          /\ g' = [g EXCEPT !.pc = "draining", !.i = g.i + 1]
      BY <2>5 DEF DrainFreed, Back
    <3>2. g.i = 1 /\ g.n = 1 /\ count = 1 /\ g.word = pend[1] /\ g.kind = "heapfree"
      BY <1>5, <3>1 DEF Books, QueueOK, HandOK, Tidy, RoutesOK
    <3>3. /\ \A i \in 1 .. MaxPending : pend'[i] = IF i = 1 THEN NoBlock ELSE pend[i]
          /\ pend'[1] = NoBlock
      BY <1>1, <2>3, <3>1, <3>2
    <3>4. QueueOK'
      BY <1>1, <1>2, <1>5, <2>3, <3>1, <3>2, <3>3 DEF Books, QueueOK, Elsewhere, Guests
    <3>5. PendingBlocks = {g.word} /\ PendingBlocks' = {}
      <4>1. PendingBlocks = {pend[1]} \ {NoBlock} /\ PendingBlocks' = {}
        BY <1>5, <3>3, <3>4, QueueBlocks DEF Books, QueueOK, PendingBlocks
      <4>2. pend[1] # NoBlock
        BY <1>5, <3>1, <3>2 DEF Books, QueueOK
      <4>. QED BY <3>2, <4>1, <4>2
    <3>6. /\ Book' = Book \ {g.word} /\ StagingBlock' = StagingBlock
          /\ g.word \notin allocs /\ heap = Book \ {g.word}
      BY <1>2, <1>5, <3>1, <3>2, <3>5
         DEF Books, BookOK, HeapOK, Book, StagingBlock, Elsewhere
    <3>7. BookOK'
      BY <1>2, <1>5, <3>5, <3>6 DEF Books, BookOK, Elsewhere
    <3>8. HandOK'
      BY <1>2, <1>5, <3>1 DEF Books, HandOK, Busy
    <3>9. HeapOK'
      BY <1>2, <3>1, <3>6 DEF HeapOK, Elsewhere
    <3>. QED BY <2>1, <2>2, <3>4, <3>7, <3>8, <3>9 DEF Books
  <2>6. CASE DrainEnd
    <3>1. g.pc = "draining" /\ g.i > g.n /\ count' = 0 /\ g' = [g EXCEPT !.pc = "body"] /\ pend' = pend
      BY <2>6 DEF DrainEnd
    <3>2. count = 1 => pend[1] = NoBlock
      BY <1>1, <1>5, <3>1 DEF Books, QueueOK
    <3>3. QueueOK'
      BY <1>1, <1>2, <1>5, <3>1, <3>2 DEF Books, QueueOK, Elsewhere, Guests
    <3>4. Book' = Book /\ BookOK'
      BY <1>2, <1>5, <3>1, BookSame DEF Books, Elsewhere
    <3>5. HandOK'
      BY <1>2, <1>5, <3>1, <3>4 DEF Books, HandOK, Busy
    <3>6. HeapOK'
      BY <1>2, <1>5, <3>1, <3>4 DEF Books, HeapOK, Elsewhere
    <3>. QED BY <2>1, <2>2, <3>3, <3>4, <3>5, <3>6 DEF Books
  <2>. QED BY <2>4, <2>5, <2>6
<1>. QED BY <1>2, <1>3, <1>4, <1>5, LocalKeeps DEF Elsewhere

LEMMA IdleFields ==
    /\ Idle.pc = "idle" /\ Idle.op = "none" /\ Idle.blk = NoBlock /\ Idle.ret = "idle"
    /\ Idle.kind = "none" /\ Idle.want = "none"
BY DEF Idle

\* A function of the broker returns, its block booked.
LEMMA ReturnTidy ==
    ASSUME Settled, Tidy, Elsewhere, g' = Idle, g.op # "close",
           UNCHANGED <<pend, count, loading, staging>>,
           g.pc \in {"polled", "body", "submit", "reading"},
           g.pc = "polled" => g.ret # "drained",
           Books => heap = Book' /\ BookOK'
    PROVE  Tidy'
<1>1. g'.pc = "idle" /\ g'.op = "none" /\ g'.blk = NoBlock /\ g'.ret = "idle"
  BY IdleFields
<1>2. RoutesOK'
  BY <1>1 DEF RoutesOK
<1>3. ~Closing
  BY DEF Closing
<1>4. ASSUME Books
      PROVE  Books'
  <2>1. WorkOK'
    BY <1>1, <1>4, WorkKeeps DEF Books, Elsewhere, Busy
  <2>2. PollOK'
    <3>1. Way' = Way
      BY WaySame DEF Elsewhere
    <3>. QED BY <1>1, <1>4, <3>1, QuietKeeps DEF Books
  <2>3. QueueOK'
    <3>1. count = 0
      BY <1>4 DEF Books, QueueOK
    <3>. QED BY <1>1, <1>4, <3>1 DEF Books, QueueOK, Elsewhere
  <2>4. HandOK'
    BY <1>1 DEF HandOK, Busy
  <2>5. HeapOK' /\ BookOK'
    BY <1>1, <1>4 DEF HeapOK, Elsewhere
  <2>. QED BY <2>1, <2>2, <2>3, <2>4, <2>5 DEF Books
<1>. QED BY <1>2, <1>3, <1>4, LocalKeeps DEF Elsewhere

LEMMA AllocTidy ==
    ASSUME Settled, Tidy, AllocReturns
    PROVE  Tidy'
<1>1. /\ g.pc = "polled" /\ g.kind # "heapbind" /\ g.ret = "alloc" /\ g.op = "alloc"
      /\ allocs' = allocs \cup ({HeapResult} \ {NoBlock})
      /\ g' = Idle /\ Elsewhere /\ UNCHANGED <<pend, count, loading, staging>>
  BY DEF AllocReturns, Back, Local, sifVars, iopVars, histVars, Elsewhere
<1>2. ASSUME Books
      PROVE  heap = Book' /\ BookOK'
  <2>1. g.kind = "heapalloc" /\ HeapResult = heaparg /\ Granted(heaparg)
    BY <1>1, <1>2 DEF Books, HandOK, HeapOK, HeapResult, Tidy, RoutesOK
  <2>2. PendingBlocks' = PendingBlocks /\ StagingBlock' = StagingBlock /\ heap \subseteq Blocks
    BY <1>1 DEF PendingBlocks, StagingBlock, Settled, Shapes, TypeOK
  <2>3. Book' = Book \cup ({heaparg} \ {NoBlock})
    BY <1>1, <2>1, <2>2 DEF Book, Elsewhere
  <2>. QED BY <1>1, <1>2, <2>1, <2>2, <2>3 DEF Granted, BookOK, Books, Book, Elsewhere
<1>. QED BY <1>1, <1>2, ReturnTidy

LEMMA FreeTidy ==
    ASSUME Settled, Tidy, FreeReturns
    PROVE  Tidy'
<1>1. /\ g.pc = "polled" /\ g.kind # "heapbind" /\ g.ret = "freed"
      /\ allocs' = IF HeapResult = NoBlock THEN allocs ELSE allocs \ {g.blk}
      /\ g' = Idle /\ Elsewhere /\ UNCHANGED <<pend, count, loading, staging>>
  BY DEF FreeReturns, Back, Local, sifVars, iopVars, histVars, Elsewhere
<1>2. g.op = "free" /\ g.want = "heapfree"
  BY <1>1 DEF Tidy, RoutesOK
<1>3. ASSUME Books
      PROVE  heap = Book' /\ BookOK'
  <2>1. /\ g.kind = "heapfree" /\ HeapResult = g.blk /\ g.blk # NoBlock /\ heap = Book \ {g.blk}
        /\ g.blk \in allocs
    BY <1>1, <1>2, <1>3 DEF Books, HandOK, HeapOK, HeapResult, Tidy, RoutesOK, Busy
  <2>2. PendingBlocks' = PendingBlocks /\ StagingBlock' = StagingBlock
    BY <1>1 DEF PendingBlocks, StagingBlock
  <2>3. allocs' = allocs \ {g.blk} /\ Book' = Book \ {g.blk}
    BY <1>1, <1>3, <2>1, <2>2 DEF Book, Books, BookOK, Elsewhere
  <2>. QED BY <1>1, <1>3, <2>1, <2>2, <2>3 DEF BookOK, Books, Elsewhere
<1>. QED BY <1>1, <1>2, <1>3, ReturnTidy

LEMMA EndsTidy ==
    ASSUME Settled, Tidy, Ends \/ Writes
    PROVE  Tidy'
<1>1. /\ (g.pc = "polled" /\ g.kind # "heapbind" /\ g.ret = "end") \/ (g.pc = "body" /\ g.op = "write")
      /\ g' = Idle /\ Elsewhere /\ UNCHANGED <<allocs, pend, count, loading, staging>>
  BY DEF Ends, Writes, Back, AtBody, Local, sifVars, iopVars, histVars, brokerVars, Elsewhere
<1>2. g.op # "close" /\ (g.ret = "end" => g.want = "heapfree")
  BY <1>1 DEF Tidy, RoutesOK
<1>3. Book' = Book /\ (BookOK => BookOK')
  BY <1>1, BookSame DEF Elsewhere
<1>4. ASSUME Books
      PROVE  heap = Book
  <2>1. CASE g.pc = "polled"
    <3>1. g.kind = "heapfree" /\ heap = Book \ {g.word} /\ g.word \notin Book
      BY <1>1, <1>2, <1>4, <2>1 DEF Books, HandOK, HeapOK, Tidy, RoutesOK
    <3>. QED BY <3>1
  <2>2. CASE g.pc = "body"
    BY <1>4, <2>2 DEF Books, HeapOK
  <2>. QED BY <1>1, <2>1, <2>2
<1>. QED BY <1>1, <1>2, <1>3, <1>4, ReturnTidy DEF Books

\* A function of the broker goes on to its next part, the books as they are.
LEMMA PassesTidy ==
    ASSUME Settled, Tidy, Elsewhere, UNCHANGED <<allocs, pend, count, loading, staging>>,
           g.pc \in {"polled", "body"}, g'.pc \in {"rpc", "stage", "submit"},
           g'.op = g.op, g.op # "close", g'.ret = g.ret,
           g.pc = "polled" => g.ret # "drained",
           RoutesOK', Books => HandOK' /\ HeapOK' /\ (g'.pc = "rpc" => g.ret # "drained")
    PROVE  Tidy'
<1>1. ~Closing
  BY DEF Closing
<1>2. ASSUME Books
      PROVE  Books'
  <2>1. WorkOK'
    BY <1>2, WorkKeeps DEF Books, Elsewhere, Busy
  <2>2. PollOK'
    <3>1. Way' = Way
      BY WaySame DEF Elsewhere
    <3>. QED BY <1>2, <3>1, QuietKeeps DEF Books
  <2>3. QueueOK'
    <3>1. count = 0
      BY <1>2 DEF Books, QueueOK
    <3>. QED BY <1>2, <3>1 DEF Books, QueueOK, Elsewhere
  <2>4. BookOK'
    BY <1>2, BookSame DEF Books, Elsewhere
  <2>. QED BY <1>2, <2>1, <2>2, <2>3, <2>4 DEF Books
<1>. QED BY <1>1, <1>2, LocalKeeps DEF Elsewhere

LEMMA HeapBoundTidy ==
    ASSUME Settled, Tidy, HeapBound
    PROVE  Tidy'
<1>1. /\ g.pc = "polled" /\ g.kind = "heapbind" /\ g \in Guests
      /\ Elsewhere /\ UNCHANGED <<allocs, pend, count, loading, staging>>
  BY DEF HeapBound, iopVars, histVars, brokerVars, Elsewhere, Settled, Shapes
<1>2. Book' = Book /\ (BookOK => BookOK')
  BY <1>1, BookSame DEF Elsewhere
<1>3. CASE g.rc = 0
  <2>1. g' = [g EXCEPT !.pc = "rpc", !.kind = "none"] /\ heapbound' = TRUE
    BY <1>3 DEF HeapBound
  <2>2. /\ g'.pc = "rpc" /\ g'.kind = "none" /\ g'.op = g.op /\ g'.ret = g.ret /\ g'.want = g.want
        /\ g'.masked = g.masked /\ g'.blk = g.blk /\ g'.word = g.word /\ g'.req = g.req
        /\ g'.i = g.i /\ g'.n = g.n
    BY <1>1, <2>1 DEF Guests
  <2>3. RoutesOK'
    BY <1>1, <2>1, <2>2 DEF Tidy, RoutesOK
  <2>4. Closing => Closing'
    BY <1>1, <2>2 DEF Closing, Elsewhere
  <2>5. ASSUME Books
        PROVE  Books'
    <3>1. g.ret = "alloc"
      BY <1>1, <2>5 DEF Books, HandOK
    <3>2. WorkOK'
      BY <1>1, <2>2, <2>5, WorkKeeps DEF Books, Elsewhere, Busy
    <3>3. PollOK'
      <4>1. Way' = Way
        BY <1>1, WaySame DEF Elsewhere
      <4>. QED BY <1>1, <2>2, <2>5, <4>1, QuietKeeps DEF Books
    <3>4. QueueOK'
      BY <1>1, <2>2, <2>5, <3>1 DEF Books, QueueOK, Elsewhere
    <3>5. HandOK'
      BY <1>1, <1>2, <2>2, <2>5, <3>1 DEF Books, HandOK, Busy
    <3>6. HeapOK'
      BY <1>1, <1>2, <2>2, <2>5 DEF Books, HeapOK, HeapKinds, Elsewhere
    <3>. QED BY <1>2, <2>5, <3>2, <3>3, <3>4, <3>5, <3>6 DEF Books
  <2>. QED BY <1>1, <2>3, <2>4, <2>5, LocalKeeps DEF Elsewhere
<1>4. CASE g.rc # 0
  <2>1. g' = [g EXCEPT !.kind = "none"]
    BY <1>4 DEF HeapBound
  <2>2. /\ g'.pc = "polled" /\ g'.kind = "none" /\ g'.op = g.op /\ g'.ret = g.ret /\ g'.want = g.want
        /\ g'.masked = g.masked /\ g'.req = g.req
    BY <1>1, <2>1 DEF Guests
  <2>3. RoutesOK'
    BY <1>1, <2>2 DEF Tidy, RoutesOK, HeapKinds
  <2>4. Closing => Closing'
    BY <1>1, <2>2 DEF Closing, Elsewhere
  <2>5. ~Books
    BY <1>1, <1>4 DEF Books, HandOK
  <2>. QED BY <1>1, <2>3, <2>4, <2>5, LocalKeeps DEF Elsewhere
<1>. QED BY <1>3, <1>4

LEMMA BoundTidy ==
    ASSUME Settled, Tidy, LoadBound
    PROVE  Tidy'
<1>1. /\ g.pc = "polled" /\ g.kind # "heapbind" /\ g.ret = "bound" /\ g \in Guests
      /\ g' = IF g.rc = 0 THEN [g EXCEPT !.pc = AfterBind(g.op)] ELSE Idle
      /\ Elsewhere /\ UNCHANGED <<allocs, pend, count, loading, staging>>
  BY DEF LoadBound, Back, Local, sifVars, iopVars, histVars, Elsewhere, Settled, Shapes
<1>2. g.op \in {"load", "path"} /\ g.want = "lfbind" /\ g.masked
  BY <1>1 DEF Tidy, RoutesOK
<1>3. Book' = Book /\ (BookOK => BookOK')
  BY <1>1, BookSame DEF Elsewhere
<1>4. Books => heap = Book
  BY <1>1, <1>2 DEF Books, HandOK, HeapOK, Tidy, RoutesOK, HeapKinds
<1>5. CASE g.rc = 0
  <2>1. /\ g'.pc = (IF g.op = "load" THEN "stage" ELSE "submit")
        /\ g'.kind = g.kind /\ g'.op = g.op /\ g'.ret = g.ret /\ g'.want = g.want
        /\ g'.masked = g.masked /\ g'.blk = g.blk
    BY <1>1, <1>5 DEF Guests, AfterBind
  <2>2. RoutesOK'
    <3>1. g'.pc \in {"stage", "submit"} /\ (g'.pc = "stage" => g'.op = "load")
      BY <2>1
    <3>2. g'.ret = "bound" /\ g'.op \in {"load", "path"} /\ g'.want = "lfbind" /\ g'.masked
          /\ g'.kind # "heapbind"
      BY <1>1, <1>2, <2>1
    <3>. QED BY <3>1, <3>2 DEF RoutesOK
  <2>3. Books => HandOK' /\ HeapOK'
    <3>1. SUFFICES ASSUME Books PROVE HandOK' /\ HeapOK'
      OBVIOUS
    <3>2. g.blk = NoBlock /\ NoBlock \notin Book
      BY <1>1, <1>2, <3>1, Clock DEF Books, HandOK, BookOK
    <3>. QED BY <1>1, <1>2, <1>3, <1>4, <2>1, <3>1, <3>2 DEF HandOK, HeapOK, Granted, Elsewhere
  <2>. QED BY <1>1, <1>2, <2>1, <2>2, <2>3, PassesTidy
<1>6. CASE g.rc # 0
  BY <1>1, <1>2, <1>3, <1>4, <1>6, ReturnTidy DEF Books
<1>. QED BY <1>5, <1>6

LEMMA SkipsTidy ==
    ASSUME Settled, Tidy, SkipsBind
    PROVE  Tidy'
<1>1. /\ g.pc = "body" /\ g.op \in AsyncOps /\ g \in Guests
      /\ g' = [g EXCEPT !.pc = AfterBind(g.op)]
      /\ Elsewhere /\ UNCHANGED <<allocs, pend, count, loading, staging>>
  BY DEF SkipsBind, AtBody, Local, sifVars, iopVars, histVars, brokerVars, Elsewhere, Settled, Shapes,
         AsyncOps
<1>2. g.op \notin {"close", "free"}
  BY <1>1 DEF AsyncOps
<1>3. Book' = Book
  BY <1>1, BookSame DEF Elsewhere
<1>4. /\ g'.pc = (IF g.op = "load" THEN "stage" ELSE "submit")
      /\ g'.kind = g.kind /\ g'.op = g.op /\ g'.ret = g.ret /\ g'.want = g.want
      /\ g'.masked = g.masked /\ g'.blk = g.blk
  BY <1>1 DEF Guests, AfterBind
<1>5. RoutesOK'
  BY <1>1, <1>4 DEF Tidy, RoutesOK
<1>6. Books => HandOK' /\ HeapOK'
  <2>1. SUFFICES ASSUME Books PROVE HandOK' /\ HeapOK'
    OBVIOUS
  <2>2. g.blk = NoBlock /\ NoBlock \notin Book /\ heap = Book
    BY <1>1, <1>2, <2>1, Clock DEF Books, HandOK, BookOK, HeapOK
  <2>. QED BY <1>1, <1>2, <1>3, <1>4, <2>1, <2>2 DEF HandOK, HeapOK, Granted, Elsewhere
<1>. QED BY <1>1, <1>2, <1>4, <1>5, <1>6, PassesTidy

LEMMA StagedTidy ==
    ASSUME Settled, Tidy, Staged
    PROVE  Tidy'
<1>1. /\ g.pc = "polled" /\ g.kind # "heapbind" /\ g.ret = "alloc" /\ g.op = "load" /\ g \in Guests
      /\ g' = IF HeapResult = NoBlock THEN Idle ELSE [g EXCEPT !.pc = "submit", !.blk = HeapResult]
      /\ Elsewhere /\ UNCHANGED <<allocs, pend, count, loading, staging>>
  BY DEF Staged, Back, Local, sifVars, iopVars, histVars, brokerVars, Elsewhere, Settled, Shapes
<1>2. Book' = Book /\ (BookOK => BookOK')
  BY <1>1, BookSame DEF Elsewhere
<1>3. Books => g.kind = "heapalloc" /\ HeapResult = heaparg /\ Granted(heaparg)
  BY <1>1 DEF Books, HandOK, HeapOK, HeapResult, Tidy, RoutesOK
<1>4. CASE HeapResult = NoBlock
  <2>1. Books => heap = Book
    BY <1>3, <1>4 DEF Granted
  <2>. QED BY <1>1, <1>2, <1>4, <2>1, ReturnTidy DEF Books
<1>5. CASE HeapResult # NoBlock
  <2>1. /\ g'.pc = "submit" /\ g'.kind = g.kind /\ g'.op = g.op /\ g'.ret = g.ret /\ g'.want = g.want
        /\ g'.masked = g.masked /\ g'.blk = HeapResult
    BY <1>1, <1>5, ResultType DEF Guests
  <2>2. RoutesOK'
    BY <1>1, <2>1 DEF Tidy, RoutesOK
  <2>3. Books => HandOK' /\ HeapOK'
    BY <1>1, <1>2, <1>3, <1>5, <2>1 DEF HandOK, HeapOK, Granted, Elsewhere
  <2>. QED BY <1>1, <2>1, <2>2, <2>3, PassesTidy
<1>. QED BY <1>4, <1>5

LEMMA NoSlotTidy ==
    ASSUME Settled, Tidy, NoSlot, g.op # "load"
    PROVE  Tidy'
<1>1. /\ g.pc = "submit" /\ g' = Idle
      /\ Elsewhere /\ UNCHANGED <<allocs, pend, count, loading, staging>>
  BY DEF NoSlot, Local, sifVars, iopVars, histVars, brokerVars, Elsewhere
<1>2. g.op \in AsyncOps /\ g.op \notin {"close", "free"}
  BY <1>1 DEF Settled, SlotsOK, AsyncOps
<1>3. Book' = Book /\ (BookOK => BookOK')
  BY <1>1, BookSame DEF Elsewhere
<1>4. Books => heap = Book
  BY <1>1, <1>2 DEF Books, HandOK, HeapOK, Granted
<1>. QED BY <1>1, <1>2, <1>3, <1>4, ReturnTidy DEF Books

LEMMA CloseFreedTidy ==
    ASSUME Settled, Tidy, CloseFreed
    PROVE  Tidy'
<1>1. /\ g.pc = "polled" /\ g.kind # "heapbind" /\ g.ret = "closing" /\ g \in Guests
      /\ allocs' = allocs \ {g.word} /\ g' = [g EXCEPT !.pc = "body"]
      /\ Elsewhere /\ UNCHANGED <<pend, count, loading, staging>>
  BY DEF CloseFreed, Back, Local, sifVars, iopVars, histVars, brokerVars, Elsewhere, Settled, Shapes
<1>2. g.op = "close" /\ g.want = "heapfree" /\ g.masked
  BY <1>1 DEF Tidy, RoutesOK
<1>3. /\ g'.pc = "body" /\ g'.kind = g.kind /\ g'.op = g.op /\ g'.ret = g.ret /\ g'.want = g.want
      /\ g'.masked = g.masked /\ g'.blk = g.blk
  BY <1>1 DEF Guests
<1>4. RoutesOK'
  BY <1>1, <1>2, <1>3 DEF Tidy, RoutesOK
<1>5. Closing => Closing'
  BY <1>1, <1>3 DEF Closing, Elsewhere
<1>6. ASSUME Books
      PROVE  Books'
  <2>1. WorkOK'
    BY <1>1, <1>3, <1>6, WorkKeeps DEF Books, Elsewhere, Busy
  <2>2. PollOK'
    <3>1. Way' = Way
      BY <1>1, WaySame DEF Elsewhere
    <3>. QED BY <1>1, <1>3, <1>6, <3>1, QuietKeeps DEF Books
  <2>3. QueueOK'
    <3>1. count = 0
      BY <1>1, <1>6 DEF Books, QueueOK
    <3>. QED BY <1>1, <1>3, <1>6, <3>1 DEF Books, QueueOK, Elsewhere
  <2>4. g.kind = "heapfree" /\ heap = Book \ {g.word} /\ g.word \in allocs
    BY <1>1, <1>2, <1>6 DEF Books, HandOK, HeapOK, Tidy, RoutesOK
  <2>5. PendingBlocks' = PendingBlocks /\ StagingBlock' = StagingBlock
    BY <1>1 DEF PendingBlocks, StagingBlock
  <2>6. Book' = Book \ {g.word}
    BY <1>1, <1>6, <2>4, <2>5 DEF Book, Books, BookOK, Elsewhere
  <2>7. BookOK'
    BY <1>1, <1>6, <2>5, <2>6 DEF BookOK, Books, Elsewhere
  <2>8. HandOK'
    BY <1>2, <1>3, <1>6 DEF HandOK, Books
  <2>9. HeapOK'
    BY <1>1, <1>3, <2>4, <2>6 DEF HeapOK, Elsewhere
  <2>. QED BY <2>1, <2>2, <2>3, <2>7, <2>8, <2>9 DEF Books
<1>. QED BY <1>1, <1>4, <1>5, <1>6, LocalKeeps DEF Elsewhere

-----------------------------------------------------------------------------
(* Calls, sessions and handlers.                                           *)

LEMMA CallTidy ==
    ASSUME SyncAlone, Settled, Tidy,
           NEW op \in Ops, NEW c \in Clients \cup {None}, NEW blk \in Words,
           Call(op, c, blk), op = "free" => blk \in allocs, op # "free" => blk = NoBlock
    PROVE  Tidy'
<1>1. /\ g = Idle /\ Admits(op, c) /\ Careful(op)
      /\ g' = [g EXCEPT !.pc = "drain", !.op = op, !.c = c, !.blk = blk]
      /\ Elsewhere /\ UNCHANGED <<allocs, pend, count, loading, staging>>
  BY DEF Call, brokerVars, sifVars, iopVars, histVars, Elsewhere
<1>2. /\ g'.pc = "drain" /\ g'.op = op /\ g'.blk = blk /\ g'.ret = "idle"
      /\ g.pc = "idle" /\ g.op = "none"
  BY <1>1 DEF Idle
<1>3. RoutesOK'
  BY <1>2 DEF RoutesOK
<1>4. ~Closing
  BY <1>2 DEF Closing
<1>5. Book' = Book /\ (BookOK => BookOK')
  BY <1>1, BookSame DEF Elsewhere
<1>6. ASSUME Books
      PROVE  Books'
  <2>1. op \in PollOps \cup {"load", "path"} => \A s \in Slots : slots[s] = None
    <3>1. CASE op \in {"load", "path"}
      <4>1. ~loading
        BY <1>1, <3>1 DEF Admits
      <4>2. loading \/ ~AnyInFlight
        BY <1>1, <3>1 DEF Careful
      <4>. QED BY <4>1, <4>2 DEF AnyInFlight
    <3>2. CASE op \in PollOps
      <4>1. op \notin {"load", "path"}
        BY <3>2 DEF PollOps
      <4>. QED BY <1>1, <3>2, <4>1 DEF Careful, AnyInFlight
    <3>. QED BY <3>1, <3>2
  <2>2. ~loading
    <3>1. CASE op \in PollOps \cup {"load", "path"}
      BY <1>6, <2>1, <3>1 DEF Books, WorkOK
    <3>2. CASE op \notin PollOps \cup {"load", "path"}
      BY <1>1, <3>2 DEF Careful
    <3>. QED BY <3>1, <3>2
  <2>3. op # "none"
    BY DEF Ops, AsyncOps, PollOps
  <2>4. WorkOK'
    BY <1>1, <1>2, <1>6, <2>1, <2>2, <2>3 DEF Books, WorkOK, Elsewhere, Busy
  <2>5. PollOK'
    <3>1. Way' = Way
      BY <1>1, WaySame DEF Elsewhere
    <3>. QED BY <1>2, <1>6, <3>1, QuietKeeps DEF Books
  <2>6. QueueOK'
    BY <1>1, <1>2, <1>6 DEF Books, QueueOK, Elsewhere
  <2>7. HandOK'
    BY <1>1, <1>2 DEF HandOK, Busy
  <2>8. HeapOK'
    BY <1>1, <1>2, <1>5, <1>6 DEF Books, HeapOK, Elsewhere
  <2>. QED BY <1>5, <1>6, <2>4, <2>5, <2>6, <2>7, <2>8 DEF Books
<1>. QED BY <1>1, <1>3, <1>4, <1>6, LocalKeeps DEF Elsewhere

LEMMA CallsTidy ==
    ASSUME SyncAlone, Settled, Tidy, CallAsync \/ CallSync \/ CallFree
    PROVE  Tidy'
<1>1. allocs \subseteq Words
  BY DEF Settled, Shapes, TypeOK, Words
<1>2. CASE CallAsync
  BY <1>2, CallTidy, Clock DEF CallAsync, Ops, AsyncOps
<1>3. CASE CallSync
  BY <1>3, CallTidy, Clock DEF CallSync, Ops, AsyncOps, PollOps
<1>4. CASE CallFree
  BY <1>1, <1>4, CallTidy, Clock DEF CallFree, Ops, AsyncOps, PollOps
<1>. QED BY <1>2, <1>3, <1>4

LEMMA RegisterTidy ==
    ASSUME Settled, Tidy, Crash \/ Register
    PROVE  Tidy'
<1>1. /\ g = Idle /\ g' \in {Idle, [Idle EXCEPT !.pc = "boot"]}
      /\ Elsewhere /\ UNCHANGED <<allocs, pend, count, loading, staging>>
  BY DEF Crash, Register, brokerVars, sifVars, iopVars, histVars, Elsewhere
<1>2. /\ g'.pc \in {"idle", "boot"} /\ g'.op = "none" /\ g'.blk = NoBlock /\ g'.ret = "idle"
      /\ g.pc = "idle" /\ g.op = "none"
  BY <1>1 DEF Idle
<1>3. RoutesOK'
  <2>1. "idle" # [Idle EXCEPT !.pc = "boot"].pc /\ Idle.pc # "boot"
    BY DEF Idle
  <2>. QED BY <1>1, <1>2, <2>1 DEF RoutesOK
<1>4. ~Closing
  BY <1>2 DEF Closing
<1>5. Book' = Book /\ (BookOK => BookOK')
  BY <1>1, BookSame DEF Elsewhere
<1>6. ASSUME Books
      PROVE  Books'
  <2>1. WorkOK'
    BY <1>1, <1>2, <1>6, WorkKeeps DEF Books, Elsewhere, Busy
  <2>2. PollOK'
    <3>1. Way' = Way
      BY <1>1, WaySame DEF Elsewhere
    <3>. QED BY <1>2, <1>6, <3>1, QuietKeeps DEF Books
  <2>3. QueueOK'
    BY <1>1, <1>2, <1>6 DEF Books, QueueOK, Elsewhere
  <2>4. HandOK'
    BY <1>2 DEF HandOK, Busy
  <2>5. HeapOK'
    BY <1>1, <1>2, <1>5, <1>6 DEF Books, HeapOK, Elsewhere
  <2>. QED BY <1>5, <1>6, <2>1, <2>2, <2>3, <2>4, <2>5 DEF Books
<1>. QED BY <1>1, <1>3, <1>4, <1>6, LocalKeeps DEF Elsewhere

\* open() and close() hand the blocks the broker forgets to nobody; if they drop
\* no client, none is in a slot.
LEMMA DroppedNone ==
    ASSUME Settled, Dropped = {}
    PROVE  /\ \A s \in Slots : slots[s] = None
           /\ ~Lost
BY DEF Dropped, Lost

LEMMA OpenTidy ==
    ASSUME Settled, Tidy, Open
    PROVE  Tidy'
<1>1. /\ g.pc = "boot" \/ g = Idle
      /\ g' = Idle /\ allocs' = {} /\ loading' = FALSE /\ staging' = NoBlock
      /\ slots' = [s \in Slots |-> None]
      /\ abandoned' = abandoned \cup Dropped
      /\ orphans' = orphans \cup allocs \cup StagingBlock
      /\ UNCHANGED <<pend, count, reqs, iopq, rx, heap, heapbound, heaparg>>
  BY DEF Open, sifVars, iopVars
<1>2. /\ g'.pc = "idle" /\ g'.op = "none" /\ g'.blk = NoBlock /\ g'.ret = "idle"
      /\ g.pc \in {"idle", "boot"} /\ g.op = "none"
  BY <1>1 DEF Idle, Tidy, RoutesOK
<1>3. RoutesOK'
  BY <1>1, <1>2 DEF RoutesOK
<1>4. Coming' = Coming /\ Way' = Way
  BY <1>1, WaySame
<1>5. KindsOK'
  BY <1>1, <1>4 DEF Tidy, KindsOK, Matched
<1>6. ~Lost'
  BY <1>1 DEF Lost
<1>7. ASSUME abandoned' = {}
      PROVE  Books'
  <2>1. abandoned = {} /\ Dropped = {} /\ Books /\ \A s \in Slots : slots[s] = None
    BY <1>1, <1>2, <1>7, DroppedNone DEF Tidy, Closing
  <2>2. \A r \in reqs : r.kind # "load"
    <3>1. ASSUME NEW r \in reqs, r.kind = "load"
          PROVE  FALSE
      <4>1. r.cd \in Clients
        BY <3>1 DEF Tidy, KindsOK, Matched, Way, AsyncOps
      <4>2. \E s \in Slots : slots[s] = r.cd
        BY <2>1, <4>1 DEF Settled, OwnOK, Awaited
      <4>. QED BY <2>1, <4>1, <4>2, Clock
    <3>. QED BY <3>1
  <2>3. WorkOK'
    BY <1>1, <1>2, <2>2 DEF WorkOK, Busy
  <2>4. PollOK'
    BY <1>2, <1>4, <2>1, QuietKeeps DEF Books
  <2>5. QueueOK'
    BY <1>1, <1>2, <2>1 DEF Books, QueueOK
  <2>6. HandOK'
    BY <1>2 DEF HandOK, Busy
  <2>7. PendingBlocks' = PendingBlocks /\ StagingBlock' = {}
    BY <1>1 DEF PendingBlocks, StagingBlock
  <2>8. Book' = Book
    BY <1>1, <2>7 DEF Book
  <2>9. HeapOK'
    BY <1>1, <1>2, <2>1, <2>8 DEF Books, HeapOK
  <2>10. BookOK'
    BY <1>1, <2>1, <2>7, <2>8 DEF Books, BookOK
  <2>. QED BY <2>3, <2>4, <2>5, <2>6, <2>9, <2>10 DEF Books
<1>. QED BY <1>3, <1>5, <1>6, <1>7 DEF Tidy

LEMMA CloseTidy ==
    ASSUME Settled, Tidy, CloseEnds
    PROVE  Tidy'
<1>1. /\ g.pc = "body" /\ g.op = "close" /\ allocs = {}
      /\ g' = Idle /\ allocs' = allocs /\ loading' = FALSE /\ staging' = NoBlock
      /\ slots' = [s \in Slots |-> None]
      /\ abandoned' = abandoned \cup Dropped
      /\ orphans' = orphans \cup StagingBlock
      /\ UNCHANGED <<pend, count, reqs, iopq, rx, heap, heapbound, heaparg>>
  BY DEF CloseEnds, AtBody, sifVars, iopVars
<1>2. g'.pc = "idle" /\ g'.op = "none" /\ g'.blk = NoBlock /\ g'.ret = "idle"
  BY <1>1 DEF Idle
<1>3. RoutesOK'
  BY <1>1, <1>2 DEF RoutesOK
<1>4. Coming' = Coming /\ Way' = Way
  BY <1>1, WaySame
<1>5. KindsOK'
  BY <1>1, <1>4 DEF Tidy, KindsOK, Matched
<1>6. ~Lost'
  BY <1>1 DEF Lost
<1>7. ASSUME abandoned' = {}
      PROVE  Books'
  <2>1. abandoned = {} /\ Dropped = {} /\ Books /\ \A s \in Slots : slots[s] = None
    BY <1>1, <1>7, DroppedNone DEF Tidy
  <2>2. ~loading /\ (\A r \in reqs : r.kind # "load") /\ count = 0
    BY <1>1, <2>1 DEF Books, WorkOK, Busy, QueueOK
  <2>3. WorkOK'
    BY <1>1, <1>2, <2>2 DEF WorkOK, Busy
  <2>4. PollOK'
    BY <1>1, <1>2, <1>4, <2>1, QuietKeeps DEF Books
  <2>5. QueueOK'
    BY <1>1, <1>2, <2>1, <2>2 DEF Books, QueueOK
  <2>6. HandOK'
    BY <1>2 DEF HandOK, Busy
  <2>7. PendingBlocks' = PendingBlocks /\ StagingBlock' = {} /\ StagingBlock = {}
    BY <1>1, <2>2 DEF PendingBlocks, StagingBlock
  <2>8. Book' = Book
    BY <1>1, <2>7 DEF Book
  <2>9. HeapOK'
    BY <1>1, <1>2, <2>1, <2>8 DEF Books, HeapOK
  <2>10. BookOK'
    BY <1>1, <2>1, <2>7, <2>8 DEF Books, BookOK
  <2>. QED BY <2>3, <2>4, <2>5, <2>6, <2>9, <2>10 DEF Books
<1>. QED BY <1>3, <1>5, <1>6, <1>7 DEF Tidy

-----------------------------------------------------------------------------
(* Steps of the guest that send a request and poll for the reply.          *)

\* What is sent.
Sending(want, cd) == IF cd = HeapClient /\ ~heapbound THEN "heapbind" ELSE want

\* The route that a call takes, and the block it is made with.
Routed(want, ret, masked) ==
    /\ ret = "alloc" => g.op \in {"alloc", "load"} /\ want = "heapalloc" /\ masked = TRUE
    /\ ret = "end" => g.op \in {"alloc", "load"} /\ want = "heapfree" /\ masked = TRUE
    /\ ret = "freed" => g.op = "free" /\ want = "heapfree" /\ masked = TRUE
    /\ ret = "closing" => g.op = "close" /\ want = "heapfree" /\ masked = TRUE
    /\ ret = "bound" => g.op \in {"load", "path"} /\ want = "lfbind" /\ masked = TRUE
    /\ ret = "drained" => want = "heapfree"
Booked(want, word, ret) ==
    /\ want = "heapfree" => heapbound /\ word # NoBlock /\ heap = Book \cup {word}
    /\ want # "heapfree" => heap = Book
    /\ ret = "drained" => g.i = 1 /\ g.n = 1 /\ count = 1 /\ word = pend[1]
    /\ ret # "drained" => count = 0
    /\ ret = "freed" => word = g.blk
    /\ ret = "closing" => word \in allocs
    /\ ret = "end" => word \notin Book
    /\ g.op = "free" => g.blk \in allocs
    /\ g.op = "load" => g.blk = NoBlock \/ ret = "end"

LEMMA RpcTidy ==
    ASSUME Settled, Tidy,
           NEW want \in {"heapalloc", "heapfree", "lfbind"}, NEW cd \in {HeapClient, LoadClient},
           cd = LoadClient <=> want = "lfbind",
           NEW word \in Words, NEW masked \in BOOLEAN,
           NEW ret \in {"drained", "alloc", "end", "freed", "bound", "closing"},
           Rpc(want, cd, word, masked, ret),
           UNCHANGED <<brokerVars, heapbound, rx, iopq, heap, orphans, abandoned>>,
           g.pc \in {"rpc", "draining", "body", "stage", "polled", "submit"},
           Routed(want, ret, masked), Books => Booked(want, word, ret)
    PROVE  Tidy'
<1>. DEFINE kind == Sending(want, cd)
            new == Request(kind, cd, word)
<1>1. /\ kind \in SyncKinds /\ kind \in {want, "heapbind"}
      /\ (kind \in HeapKinds => heapbound) /\ (want = "lfbind" => kind = "lfbind")
      /\ (heapbound => kind = want)
      /\ cd \notin Clients /\ kind \notin AsyncOps /\ kind \notin {"none", "note"}
  BY Clock DEF Sending, SyncKinds, HeapKinds, AsyncOps, HeapClient, LoadClient
<1>2. new.id = nextid + 1 /\ new.kind = kind /\ new.cd = cd /\ new.blk = word
  BY DEF Request
<1>3. /\ reqs' = reqs \cup {new} /\ UNCHANGED <<iopq, rx>>
      /\ g' = [g EXCEPT !.pc = "poll", !.want = want, !.kind = kind, !.req = nextid + 1,
                        !.word = word, !.ret = ret, !.masked = masked]
  BY <1>2 DEF Rpc, Send, Sending
<1>4. /\ UNCHANGED <<allocs, pend, count, loading, staging, orphans, slots, priv, abandoned>>
      /\ UNCHANGED <<heap, heapbound>>
  BY DEF brokerVars
<1>. HIDE DEF kind, new
<1>5. Coming' = Coming /\ Way' = Way \cup {new} /\ nextid \in Nat /\ g \in Guests
  BY <1>3, WaySent DEF Settled, Shapes
<1>6. /\ g'.pc = "poll" /\ g'.want = want /\ g'.kind = kind /\ g'.req = nextid + 1 /\ g'.word = word
      /\ g'.ret = ret /\ g'.masked = masked /\ g'.op = g.op /\ g'.blk = g.blk
      /\ g'.i = g.i /\ g'.n = g.n
  BY <1>3, <1>5 DEF Guests
<1>7. KindsOK'
  BY <1>1, <1>2, <1>3, <1>4, <1>5 DEF Tidy, KindsOK, Matched
<1>8. RoutesOK'
  BY <1>1, <1>4, <1>5, <1>6 DEF RoutesOK, Routed
<1>9. Lost' <=> Lost
  <2>1. Lost' => Lost
    BY <1>4, <1>5, FoundKeeps
  <2>2. Lost => Lost'
    BY <1>1, <1>2, <1>4, <1>5, LostKeeps
  <2>. QED BY <2>1, <2>2
<1>10. Closing => Closing'
  BY <1>1, <1>2, <1>3, <1>4, <1>6 DEF Closing, SyncKinds, HeapKinds
<1>11. ASSUME Books
       PROVE  Books'
  <2>1. Booked(want, word, ret)
    BY <1>11
  <2>2. Book' = Book /\ BookOK'
    BY <1>4, <1>11, BookSame DEF Books
  <2>3. WorkOK'
    BY <1>1, <1>2, <1>3, <1>4, <1>6, <1>11, WorkKeeps DEF Books, Busy, SyncKinds, HeapKinds
  <2>4. QueueOK'
    BY <1>4, <1>6, <1>11, <2>1 DEF Books, QueueOK, Booked
  <2>5. HandOK'
    <3>1. kind = "heapbind" => ret = "alloc"
      BY <1>1, <2>1 DEF Booked, Routed
    <3>. QED BY <1>4, <1>6, <1>11, <2>1, <2>2, <3>1 DEF Books, HandOK, Busy, Booked, Routed
  <2>6. PollOK'
    <3>1. \A x \in Way : x.kind \notin SyncKinds /\ x.id # nextid + 1
      BY <1>5, <1>11, WayTypes DEF Books, PollOK, Mine, Way
    <3>2. (\A x \in Way : Mine(x))'
      BY <1>1, <1>2, <1>5, <1>6, <3>1 DEF Mine
    <3>3. ~(\A x \in Way' : x.id # g'.req)
      BY <1>2, <1>5, <1>6
    <3>4. /\ \A x \in Coming' : x.kind \notin HeapKinds
          /\ rx' # None => rx'.kind \notin HeapKinds
      BY <1>3, <1>5, <3>1 DEF Way, Coming, SyncKinds
    <3>5. \A r \in reqs' : r.kind \in HeapKinds => r = new
      BY <1>3, <3>1 DEF Way, SyncKinds
    <3>6. /\ kind = "heapalloc" => heap = Book
          /\ kind = "heapfree" => word # NoBlock /\ heap = Book \cup {word}
      BY <1>1, <2>1 DEF Booked
    <3>. QED BY <1>2, <1>4, <1>6, <2>2, <3>2, <3>3, <3>4, <3>5, <3>6 DEF PollOK, HeapKinds
  <2>7. HeapOK'
    <3>1. kind \notin HeapKinds => heap = Book
      BY <1>1, <2>1 DEF HeapKinds, Booked
    <3>. QED BY <1>4, <1>6, <2>2, <3>1 DEF HeapOK
  <2>. QED BY <2>2, <2>3, <2>4, <2>5, <2>6, <2>7 DEF Books
<1>. QED BY <1>4, <1>7, <1>8, <1>9, <1>10, <1>11 DEF Tidy

\* The block that an allocation came back with.
LEMMA GrantedBlock ==
    ASSUME Settled, Tidy, Books, g.pc = "polled", g.ret = "alloc", g.kind # "heapbind"
    PROVE  /\ HeapResult = heaparg /\ Granted(heaparg) /\ count = 0
           /\ heaparg # NoBlock => heapbound
<1>1. g.kind = "heapalloc" /\ HeapResult = heaparg /\ count = 0
  BY DEF Books, HandOK, QueueOK, HeapResult, Tidy, RoutesOK
<1>2. Granted(heaparg)
  BY <1>1 DEF Books, HeapOK
<1>3. heaparg # NoBlock => heap # {}
  BY <1>2 DEF Granted
<1>. QED BY <1>1, <1>2, <1>3 DEF Tidy, KindsOK

LEMMA CallingKeeps ==
    ASSUME Calling
    PROVE  UNCHANGED <<brokerVars, heapbound, rx, iopq, heap, orphans, abandoned>>
BY DEF Calling

\* A call of the heap's functions.
LEMMA HeapCallTidy ==
    ASSUME Settled, Tidy,
           NEW want \in {"heapalloc", "heapfree"}, NEW word \in Words, NEW masked \in BOOLEAN,
           NEW ret \in {"drained", "alloc", "end", "freed", "closing"},
           Rpc(want, HeapClient, word, masked, ret),
           UNCHANGED <<brokerVars, heapbound, rx, iopq, heap, orphans, abandoned>>,
           g.pc \in {"rpc", "draining", "body", "stage", "polled", "submit"},
           Routed(want, ret, masked), Books => Booked(want, word, ret)
    PROVE  Tidy'
<1>1. want \in {"heapalloc", "heapfree", "lfbind"} /\ HeapClient \in {HeapClient, LoadClient}
      /\ (HeapClient = LoadClient <=> want = "lfbind")
      /\ ret \in {"drained", "alloc", "end", "freed", "bound", "closing"}
  BY DEF HeapClient, LoadClient
<1>. QED BY <1>1, RpcTidy

LEMMA HeapPollsTidy ==
    ASSUME Settled, Tidy, HeapCalls \/ DrainFree \/ AllocCalls \/ LoadBinds
    PROVE  Tidy'
<1>1. /\ g \in Guests /\ NoBlock \in Words /\ g.word \in Words /\ g.masked \in BOOLEAN
      /\ UNCHANGED <<brokerVars, heapbound, rx, iopq, heap, orphans, abandoned>>
  BY CallingKeeps, Clock DEF HeapCalls, DrainFree, AllocCalls, LoadBinds, Settled, Shapes, Guests
<1>2. CASE HeapCalls
  <2>1. g.pc = "rpc" /\ Rpc(g.want, HeapClient, g.word, g.masked, g.ret) /\ heapbound
    BY <1>2 DEF HeapCalls, Tidy, RoutesOK
  <2>2. /\ g.ret \in {"drained", "alloc", "end", "freed", "closing"}
        /\ g.want \in {"heapalloc", "heapfree"}
    BY <1>1, <2>1 DEF Guests, Tidy, RoutesOK
  <2>3. Routed(g.want, g.ret, g.masked)
    BY <1>1, <2>1 DEF Tidy, RoutesOK, Routed
  <2>4. Books => Booked(g.want, g.word, g.ret)
    <3>1. SUFFICES ASSUME Books
                   PROVE  Booked(g.want, g.word, g.ret)
      OBVIOUS
    <3>2. g.ret = "alloc" /\ g.want = "heapalloc"
      BY <2>1, <3>1 DEF Books, HandOK, Tidy, RoutesOK
    <3>3. heap = Book /\ count = 0 /\ (g.op = "load" => g.blk = NoBlock) /\ g.op # "free"
      BY <2>1, <3>1, <3>2 DEF Books, HeapOK, QueueOK, HandOK, Tidy, RoutesOK
    <3>. QED BY <3>2, <3>3 DEF Booked
  <2>. QED BY <1>1, <2>1, <2>2, <2>3, <2>4, HeapCallTidy
<1>3. CASE DrainFree
  <2>1. /\ g.pc = "draining" /\ Rpc("heapfree", HeapClient, pend[g.i], FALSE, "drained")
        /\ g.i <= g.n /\ g.i \in 1 .. MaxPending
    <3>1. g.i \in Nat \ {0} /\ g.n \in 0 .. MaxPending /\ g.i <= g.n
      BY <1>1, <1>3 DEF DrainFree, Guests
    <3>2. g.i \in 1 .. MaxPending
      BY <3>1, Clock
    <3>. QED BY <1>3, <3>1, <3>2 DEF DrainFree
  <2>2. pend[g.i] \in Words
    BY <2>1 DEF Settled, Shapes, TypeOK, Words
  <2>3. Routed("heapfree", "drained", FALSE)
    BY DEF Routed
  <2>4. Books => Booked("heapfree", pend[g.i], "drained")
    <3>1. SUFFICES ASSUME Books
                   PROVE  Booked("heapfree", pend[g.i], "drained")
      OBVIOUS
    <3>2. g.i = 1 /\ g.n = 1 /\ count = 1 /\ pend[1] # NoBlock
      BY <1>1, <2>1, <3>1 DEF Books, QueueOK, Guests
    <3>3. heap = Book /\ pend[1] \in Book
      BY <2>1, <3>1, <3>2, QueueBlocks DEF Books, HeapOK, Book
    <3>4. heapbound /\ heap = Book \cup {pend[1]}
      BY <3>3 DEF Tidy, KindsOK
    <3>5. (g.op = "free" => g.blk \in allocs) /\ (g.op = "load" => g.blk = NoBlock)
      BY <2>1, <3>1 DEF Books, HandOK, Busy
    <3>. QED BY <3>2, <3>4, <3>5 DEF Booked
  <2>. QED BY <1>1, <2>1, <2>2, <2>3, <2>4, HeapCallTidy
<1>4. CASE AllocCalls
  <2>1. /\ (g.pc = "body" /\ g.op = "alloc") \/ (g.pc = "stage" /\ g.op = "load")
        /\ Rpc("heapalloc", HeapClient, NoBlock, TRUE, "alloc")
    BY <1>4 DEF AllocCalls, AtBody, Tidy, RoutesOK
  <2>2. Routed("heapalloc", "alloc", TRUE)
    BY <2>1 DEF Routed
  <2>3. Books => Booked("heapalloc", NoBlock, "alloc")
    BY <2>1 DEF Books, HeapOK, QueueOK, HandOK, Booked
  <2>. QED BY <1>1, <2>1, <2>2, <2>3, HeapCallTidy
<1>5. CASE LoadBinds
  <2>1. /\ g.pc = "body" /\ g.op \in {"load", "path"}
        /\ Rpc("lfbind", LoadClient, NoBlock, TRUE, "bound")
    BY <1>5 DEF LoadBinds, AtBody
  <2>2. Routed("lfbind", "bound", TRUE)
    BY <2>1 DEF Routed
  <2>3. Books => Booked("lfbind", NoBlock, "bound")
    BY <2>1 DEF Books, HeapOK, QueueOK, HandOK, Booked
  <2>. QED BY <1>1, <2>1, <2>2, <2>3, RpcTidy DEF HeapClient, LoadClient
<1>. QED BY <1>2, <1>3, <1>4, <1>5

LEMMA FreePollsTidy ==
    ASSUME Settled, Tidy, FreeCalls \/ CloseFrees \/ AllocFull \/ StageFails \/ (NoSlot /\ g.op = "load")
    PROVE  Tidy'
<1>1. /\ g \in Guests /\ g.blk \in Words /\ HeapResult \in Words /\ allocs \subseteq Blocks \cup {Argument}
      /\ UNCHANGED <<brokerVars, heapbound, rx, iopq, heap, orphans, abandoned>>
  BY CallingKeeps, ResultType
     DEF FreeCalls, CloseFrees, AllocFull, StageFails, NoSlot, Settled, Shapes, TypeOK, Guests
<1>2. CASE FreeCalls
  <2>1. g.pc = "body" /\ g.op = "free" /\ Rpc("heapfree", HeapClient, g.blk, TRUE, "freed")
    BY <1>2 DEF FreeCalls, AtBody
  <2>2. Routed("heapfree", "freed", TRUE)
    BY <2>1 DEF Routed
  <2>3. Books => Booked("heapfree", g.blk, "freed")
    <3>1. SUFFICES ASSUME Books
                   PROVE  Booked("heapfree", g.blk, "freed")
      OBVIOUS
    <3>2. heap = Book /\ g.blk \in allocs /\ count = 0
      BY <2>1, <3>1 DEF Books, HeapOK, HandOK, QueueOK, Busy
    <3>3. g.blk \in Book /\ g.blk \in Blocks
      BY <3>1, <3>2 DEF Book, Books, BookOK
    <3>4. heapbound /\ g.blk # NoBlock
      BY <3>2, <3>3, Clock DEF Tidy, KindsOK
    <3>5. heap = Book \cup {g.blk}
      BY <3>2, <3>3
    <3>. QED BY <2>1, <3>2, <3>4, <3>5 DEF Booked
  <2>. QED BY <1>1, <2>1, <2>2, <2>3, HeapCallTidy
<1>3. CASE CloseFrees
  <2>. DEFINE b == Lowest(allocs)
  <2>1. /\ g.pc = "body" /\ g.op = "close" /\ allocs # {}
        /\ Rpc("heapfree", HeapClient, b, TRUE, "closing")
    BY <1>3 DEF CloseFrees, AtBody
  <2>2. b \in allocs /\ b \in Words
    <3>1. allocs \in SUBSET (Nat \cup {Argument})
      BY <1>1, Clock
    <3>2. b \in allocs
      BY <2>1, <3>1, LowestMember
    <3>. QED BY <1>1, <3>2 DEF Words
  <2>. HIDE DEF b
  <2>3. Routed("heapfree", "closing", TRUE)
    BY <2>1 DEF Routed
  <2>4. Books => Booked("heapfree", b, "closing")
    <3>1. SUFFICES ASSUME Books
                   PROVE  Booked("heapfree", b, "closing")
      OBVIOUS
    <3>2. heap = Book /\ count = 0
      BY <2>1, <3>1 DEF Books, HeapOK, QueueOK
    <3>3. b \in Book /\ b \in Blocks
      BY <2>2, <3>1 DEF Book, Books, BookOK
    <3>4. heapbound /\ b # NoBlock
      BY <3>2, <3>3, Clock DEF Tidy, KindsOK
    <3>5. heap = Book \cup {b}
      BY <3>2, <3>3
    <3>. QED BY <2>1, <2>2, <3>2, <3>4, <3>5 DEF Booked
  <2>. QED BY <1>1, <2>1, <2>2, <2>3, <2>4, HeapCallTidy
<1>4. CASE AllocFull \/ StageFails
  <2>1. /\ g.pc = "polled" /\ g.ret = "alloc" /\ g.kind # "heapbind" /\ g.op \in {"alloc", "load"}
        /\ HeapResult # NoBlock
        /\ Rpc("heapfree", HeapClient, HeapResult, TRUE, "end")
    BY <1>4 DEF AllocFull, StageFails, Back, GiveBack
  <2>2. Routed("heapfree", "end", TRUE)
    BY <2>1 DEF Routed
  <2>3. Books => Booked("heapfree", HeapResult, "end")
    <3>1. SUFFICES ASSUME Books
                   PROVE  Booked("heapfree", HeapResult, "end")
      OBVIOUS
    <3>2. /\ heapbound /\ heap = Book \cup {HeapResult} /\ count = 0
          /\ HeapResult \notin Book
      BY <2>1, <3>1, GrantedBlock DEF Granted
    <3>. QED BY <2>1, <3>2 DEF Booked
  <2>. QED BY <1>1, <2>1, <2>2, <2>3, HeapCallTidy
<1>5. CASE NoSlot /\ g.op = "load"
  <2>1. g.pc = "submit" /\ g.op = "load" /\ Rpc("heapfree", HeapClient, g.blk, TRUE, "end")
    BY <1>5 DEF NoSlot, GiveBack
  <2>2. Routed("heapfree", "end", TRUE)
    BY <2>1 DEF Routed
  <2>3. Books => Booked("heapfree", g.blk, "end")
    <3>1. SUFFICES ASSUME Books
                   PROVE  Booked("heapfree", g.blk, "end")
      OBVIOUS
    <3>2. Granted(g.blk) /\ g.blk # NoBlock /\ count = 0
      BY <2>1, <3>1 DEF Books, HeapOK, HandOK, QueueOK
    <3>3. heapbound /\ heap = Book \cup {g.blk} /\ g.blk \notin Book
      BY <3>2 DEF Granted, Tidy, KindsOK
    <3>. QED BY <2>1, <3>2, <3>3 DEF Booked
  <2>. QED BY <1>1, <2>1, <2>2, <2>3, HeapCallTidy
<1>. QED BY <1>2, <1>3, <1>4, <1>5

-----------------------------------------------------------------------------
(* Reads.                                                                  *)

LEMMA ReadCallsTidy ==
    ASSUME Settled, Tidy, ReadCalls
    PROVE  Tidy'
<1>. DEFINE new == Request("other", None, NoBlock)
<1>1. /\ g.pc = "body" /\ g.op = "read" /\ reqs' = reqs \cup {new} /\ rx' = None
      /\ g' = [g EXCEPT !.pc = "reading", !.masked = TRUE, !.req = nextid + 1]
      /\ UNCHANGED <<allocs, slots, priv, pend, count, loading, staging, orphans, abandoned>>
      /\ UNCHANGED <<heapbound, heaparg, iopq, heap>>
  BY DEF ReadCalls, AtBody, Request, Rearmed, Send, brokerVars
<1>2. new.kind = "other" /\ new.cd = None /\ new.id = nextid + 1 /\ g \in Guests /\ nextid \in Nat
  BY DEF Request, Settled, Shapes
<1>. HIDE DEF new
<1>3. /\ g'.pc = "reading" /\ g'.op = "read" /\ g'.ret = g.ret /\ g'.blk = g.blk /\ g'.want = g.want
      /\ g'.kind = g.kind /\ g'.masked = TRUE
  BY <1>1, <1>2 DEF Guests
<1>4. Coming' \subseteq Coming /\ Way' \subseteq Way \cup {new}
  BY <1>1 DEF Way, Coming
<1>5. KindsOK'
  BY <1>1, <1>2, <1>4, Clock DEF Tidy, KindsOK, Matched, AsyncOps, HeapKinds, Way
<1>6. RoutesOK'
  BY <1>1, <1>3 DEF Tidy, RoutesOK
<1>7. ~Closing
  BY <1>1 DEF Closing
<1>8. ASSUME abandoned' = {}
      PROVE  ~Lost' /\ Books'
  <2>1. abandoned = {} /\ Books
    BY <1>1, <1>7, <1>8 DEF Tidy
  <2>2. \A s \in Slots : slots[s] = None
    BY <1>1, <2>1 DEF Books, WorkOK, Busy, PollOps
  <2>3. ~Lost'
    BY <1>1, <2>2 DEF Lost
  <2>4. Book' = Book /\ BookOK'
    BY <1>1, <2>1, BookSame DEF Books
  <2>5. WorkOK'
    BY <1>1, <1>2, <1>3, <2>1, WorkKeeps DEF Books, Busy
  <2>6. QueueOK'
    BY <1>1, <1>3, <2>1 DEF Books, QueueOK
  <2>7. PollOK'
    BY <1>1, <1>2, <1>3, <1>4, <2>1, QuietKeeps DEF Books, SyncKinds, HeapKinds
  <2>8. HandOK'
    BY <1>1, <1>3, <2>1 DEF Books, HandOK, Busy
  <2>9. HeapOK'
    BY <1>1, <1>3, <2>1, <2>4 DEF Books, HeapOK
  <2>. QED BY <2>3, <2>4, <2>5, <2>6, <2>7, <2>8, <2>9 DEF Books
<1>. QED BY <1>5, <1>6, <1>8 DEF Tidy

LEMMA ReadEndsTidy ==
    ASSUME Settled, Tidy, ReadReturns \/ ReadTimesOut
    PROVE  Tidy'
<1>1. /\ g.pc = "reading" /\ g' = Idle
      /\ UNCHANGED <<allocs, slots, priv, pend, count, loading, staging, orphans>>
      /\ UNCHANGED <<heapbound, heaparg, iopq, reqs, heap>>
      /\ rx' = None \/ rx' = rx
  BY DEF ReadReturns, ReadTimesOut, Rearmed, brokerVars, iopVars, sifVars
<1>2. abandoned' = {} => abandoned = {} /\ rx' = None
  BY DEF ReadReturns, ReadTimesOut, Rearmed
<1>3. g'.pc = "idle" /\ g'.op = "none" /\ g'.blk = NoBlock /\ g'.ret = "idle"
  BY <1>1, IdleFields
<1>4. Coming' \subseteq Coming /\ Way' \subseteq Way
  BY <1>1 DEF Way, Coming
<1>5. KindsOK'
  BY <1>1, <1>4 DEF Tidy, KindsOK, Matched
<1>6. RoutesOK'
  BY <1>1, <1>3 DEF RoutesOK
<1>7. ~Closing /\ g.op = "read"
  BY <1>1 DEF Closing, Tidy, RoutesOK
<1>8. ASSUME abandoned' = {}
      PROVE  ~Lost' /\ Books'
  <2>1. abandoned = {} /\ Books
    BY <1>2, <1>7, <1>8 DEF Tidy
  <2>2. \A s \in Slots : slots[s] = None
    BY <1>1, <1>7, <2>1 DEF Books, WorkOK, Busy, PollOps
  <2>3. ~Lost'
    BY <1>1, <2>2 DEF Lost
  <2>4. Book' = Book /\ BookOK'
    BY <1>1, <2>1, BookSame DEF Books
  <2>5. WorkOK'
    BY <1>1, <1>3, <2>1, WorkKeeps DEF Books, Busy
  <2>6. QueueOK'
    BY <1>1, <1>3, <2>1 DEF Books, QueueOK
  <2>7. PollOK'
    BY <1>1, <1>3, <1>4, <2>1, QuietKeeps DEF Books
  <2>8. HandOK'
    BY <1>3 DEF HandOK, Busy
  <2>9. HeapOK'
    BY <1>1, <1>3, <2>1, <2>4 DEF Books, HeapOK
  <2>. QED BY <2>3, <2>4, <2>5, <2>6, <2>7, <2>8, <2>9 DEF Books
<1>. QED BY <1>5, <1>6, <1>8 DEF Tidy

-----------------------------------------------------------------------------
(* Submitting.                                                             *)

LEMMA SubmitTidy ==
    ASSUME Settled, Tidy, Submit
    PROVE  Tidy'
<1>. DEFINE s == Lowest(Free(slots))
            new == Request(g.op, g.c, g.blk)
<1>1. /\ g.pc = "submit" /\ s \in Slots /\ slots[s] = None
      /\ g.op \in AsyncOps /\ g.c \in Clients /\ ~InFlight(g.c) /\ g.c # None
  BY FreeSlot, Clock DEF Submit, Settled, SlotsOK
<1>2. /\ slots' = [slots EXCEPT ![s] = g.c] /\ reqs' = reqs \cup {new} /\ g' = Idle
      /\ priv' = [priv EXCEPT ![g.c] = [priv[g.c] EXCEPT !.status = "inflight", !.op = g.op]]
      /\ loading' = (loading \/ g.op \in {"load", "path"})
      /\ staging' = CASE g.op = "load" -> g.blk [] g.op = "path" -> NoBlock [] OTHER -> staging
      /\ UNCHANGED <<allocs, pend, count, orphans, abandoned>>
      /\ UNCHANGED <<heapbound, heaparg, iopq, rx, heap>>
  BY DEF Submit, Submitted, Send, sifVars
<1>3. new.kind = g.op /\ new.cd = g.c /\ new.blk = g.blk
  BY DEF Request
<1>. HIDE DEF s, new
<1>4. g'.pc = "idle" /\ g'.op = "none" /\ g'.blk = NoBlock /\ g'.ret = "idle"
  BY <1>2, IdleFields
<1>5. Coming' = Coming /\ Way' = Way \cup {new}
  BY <1>2, WaySent
<1>6. KindsOK'
  BY <1>1, <1>2, <1>3, <1>5 DEF Tidy, KindsOK, Matched, AsyncOps, HeapKinds
<1>7. RoutesOK'
  BY <1>2, <1>4 DEF RoutesOK
<1>8. ~Closing
  BY <1>1 DEF Closing, AsyncOps
<1>9. /\ slots \in [Slots -> Clients \cup {None}] /\ priv \in [Clients -> States]
      /\ \A t \in Slots : slots[t] # g.c
  BY <1>1 DEF Settled, Shapes, TypeOK, SlotsOK
<1>10. /\ \A t \in Slots : slots'[t] = IF t = s THEN g.c ELSE slots[t]
       /\ \A d \in Clients : priv'[d].op = IF d = g.c THEN g.op ELSE priv[d].op
  BY <1>1, <1>2, <1>9 DEF States
<1>11. ASSUME abandoned' = {}
       PROVE  ~Lost' /\ Books'
  <2>1. abandoned = {} /\ Books /\ ~Lost
    BY <1>2, <1>8, <1>11 DEF Tidy
  <2>2. ~Lost'
    BY <1>3, <1>5, <1>10, <2>1 DEF Lost
  <2>3. /\ ~loading /\ count = 0 /\ Granted(g.blk)
        /\ g.op \in {"load", "path"} => \A t \in Slots : slots[t] = None
        /\ \A t \in Slots : slots[t] # None => priv[slots[t]].op \notin {"load", "path"}
        /\ \A r \in reqs : r.kind # "load"
        /\ g.op = "load" => g.blk # NoBlock
        /\ g.op # "load" => g.blk = NoBlock
    BY <1>1, <2>1 DEF Books, WorkOK, Busy, QueueOK, HeapOK, HandOK, AsyncOps
  <2>4. WorkOK'
    <3>1. ~Busy'
      BY <1>4 DEF Busy
    <3>2. loading' <=> g.op \in {"load", "path"}
      BY <1>2, <2>3
    <3>3. loading' => \E t \in Slots : slots'[t] # None
      BY <1>1, <1>10
    <3>4. \A t, u \in Slots : loading' /\ slots'[t] # None /\ slots'[u] # None => t = u
      BY <1>10, <2>3, <3>2
    <3>5. \A t \in Slots : slots'[t] # None => (priv'[slots'[t]].op \in {"load", "path"} <=> loading')
      BY <1>1, <1>9, <1>10, <2>3, <3>2
    <3>6. \A r \in reqs' : r.kind = "load" => loading' /\ r.blk = staging' /\ staging' # NoBlock
      BY <1>2, <1>3, <2>3, <3>2
    <3>. QED BY <3>1, <3>3, <3>4, <3>5, <3>6 DEF WorkOK
  <2>5. StagingBlock = {} /\ StagingBlock' = {g.blk} \ {NoBlock} /\ PendingBlocks' = PendingBlocks
    <3>1. CASE g.op = "load"
      BY <1>2, <2>3, <3>1 DEF StagingBlock, PendingBlocks
    <3>2. CASE g.op = "path"
      BY <1>2, <2>3, <3>2 DEF StagingBlock, PendingBlocks
    <3>3. CASE g.op \notin {"load", "path"}
      BY <1>2, <2>3, <3>3 DEF StagingBlock, PendingBlocks
    <3>. QED BY <3>1, <3>2, <3>3
  <2>6. Book' = Book \cup ({g.blk} \ {NoBlock}) /\ heap' = Book'
    BY <1>2, <2>3, <2>5 DEF Book, Granted
  <2>7. BookOK'
    <3>1. heap \subseteq Blocks
      BY DEF Settled, Shapes, TypeOK
    <3>2. g.blk \notin Book /\ BookOK
      BY <2>1, <2>3 DEF Granted, Books
    <3>. QED BY <1>2, <2>5, <2>6, <3>1, <3>2 DEF BookOK, Book
  <2>8. QueueOK'
    BY <1>2, <1>4, <2>1, <2>3 DEF Books, QueueOK
  <2>9. PollOK'
    BY <1>1, <1>3, <1>4, <1>5, <2>1, QuietKeeps DEF Books, SyncKinds, HeapKinds, AsyncOps
  <2>10. HandOK'
    BY <1>4 DEF HandOK, Busy
  <2>11. HeapOK'
    BY <1>4, <2>6 DEF HeapOK
  <2>. QED BY <2>2, <2>4, <2>7, <2>8, <2>9, <2>10, <2>11 DEF Books
<1>. QED BY <1>6, <1>7, <1>11 DEF Tidy

LEMMA SubmitFailsTidy ==
    ASSUME Settled, Tidy, SubmitFails
    PROVE  Tidy'
<1>1. /\ g.pc = "submit" /\ g.op \in AsyncOps /\ g.c \in Clients /\ ~InFlight(g.c)
  BY DEF SubmitFails, Settled, SlotsOK
<1>2. /\ priv' = [priv EXCEPT ![g.c].op = g.op, ![g.c].status = "idle"] /\ g' = Idle
      /\ loading' = IF g.op \in {"load", "path"} THEN FALSE ELSE loading
      /\ IF g.op = "load" THEN Pushed(g.blk) ELSE UNCHANGED <<pend, count>>
      /\ UNCHANGED <<allocs, slots, orphans, abandoned>>
      /\ UNCHANGED <<heapbound, heaparg, reqs, iopq, rx, heap>>
  BY DEF SubmitFails, sifVars, iopVars, histVars
<1>3. g'.pc = "idle" /\ g'.op = "none" /\ g'.blk = NoBlock /\ g'.ret = "idle"
  BY <1>2, IdleFields
<1>4. Coming' = Coming /\ Way' = Way
  BY <1>2, WaySame
<1>5. RoutesOK'
  BY <1>2, <1>3 DEF RoutesOK
<1>6. ~Closing
  BY <1>1 DEF Closing, AsyncOps
<1>7. /\ slots \in [Slots -> Clients \cup {None}] /\ priv \in [Clients -> States]
      /\ \A t \in Slots : slots[t] # g.c
      /\ pend \in [1 .. MaxPending -> Blocks \cup {NoBlock, Argument}]
      /\ 1 \in 1 .. MaxPending /\ 0 < MaxPending
  BY <1>1, Clock DEF Settled, Shapes, TypeOK, SlotsOK
<1>8. \A d \in Clients : d # g.c => priv'[d].op = priv[d].op
  BY <1>1, <1>2, <1>7 DEF States
<1>9. ASSUME Books
      PROVE  Books'
  <2>1. /\ ~loading /\ count = 0 /\ Granted(g.blk)
        /\ g.op \in {"load", "path"} => \A t \in Slots : slots[t] = None
        /\ \A i \in 1 .. MaxPending : pend[i] = NoBlock
        /\ g.op = "load" => g.blk # NoBlock
        /\ g.op # "load" => g.blk = NoBlock
    BY <1>1, <1>9 DEF Books, WorkOK, Busy, QueueOK, HeapOK, HandOK, AsyncOps
  <2>2. ~loading'
    BY <1>2, <2>1
  <2>3. WorkOK'
    BY <1>2, <1>3, <1>7, <1>8, <1>9, <2>1, <2>2 DEF Books, WorkOK, Busy
  <2>4. /\ g.op = "load" => count' = 1 /\ pend' = [pend EXCEPT ![1] = g.blk]
        /\ g.op # "load" => count' = 0 /\ pend' = pend
    BY <1>2, <1>7, <2>1 DEF Pushed
  <2>5. \A i \in 1 .. MaxPending : pend'[i] = IF i = 1 THEN g.blk ELSE NoBlock
    BY <1>7, <2>1, <2>4
  <2>6. QueueOK'
    BY <1>2, <1>3, <1>7, <2>1, <2>4, <2>5 DEF QueueOK
  <2>7. /\ PendingBlocks = {} /\ PendingBlocks' = {g.blk} \ {NoBlock}
        /\ StagingBlock = {} /\ StagingBlock' = {}
    BY <1>7, <2>1, <2>2, <2>5 DEF PendingBlocks, StagingBlock
  <2>8. Book' = Book \cup ({g.blk} \ {NoBlock}) /\ heap' = Book'
    BY <1>2, <2>1, <2>7 DEF Book, Granted
  <2>9. BookOK'
    <3>1. heap \subseteq Blocks
      BY DEF Settled, Shapes, TypeOK
    <3>2. g.blk \notin Book /\ BookOK
      BY <1>9, <2>1 DEF Granted, Books
    <3>. QED BY <1>2, <2>7, <2>8, <3>1, <3>2 DEF BookOK, Book
  <2>10. PollOK'
    BY <1>1, <1>3, <1>4, <1>9, QuietKeeps DEF Books
  <2>11. HandOK'
    BY <1>3 DEF HandOK, Busy
  <2>12. HeapOK'
    BY <1>3, <2>8 DEF HeapOK
  <2>. QED BY <2>3, <2>6, <2>9, <2>10, <2>11, <2>12 DEF Books
<1>. QED BY <1>2, <1>5, <1>6, <1>9, LocalKeeps

-----------------------------------------------------------------------------
(* The answer to a poll.                                                   *)

\* A command of the IOP, or nothing, is in the buffer: the poll goes on.
LEMMA PollGoesOnTidy ==
    ASSUME Settled, Tidy, PollReturns, rx = None \/ rx.p # "end"
    PROVE  Tidy'
<1>1. /\ g.pc = "poll" /\ g' = g /\ rx' = None
      /\ UNCHANGED <<allocs, slots, priv, pend, count, loading, staging, orphans, abandoned>>
      /\ UNCHANGED <<heapbound, heaparg, iopq, reqs, heap>>
  BY DEF PollReturns, Rearmed, brokerVars, iopVars, histVars
<1>2. /\ Coming' \subseteq Coming /\ Way' \subseteq Way
      /\ \A x \in Way : x \in Way' \/ (x = rx /\ rx # None)
  BY <1>1, WayCleared
<1>3. rx # None => rx \in Coming /\ rx.kind = "note" /\ rx \in Way
  BY WayTypes DEF Tidy, KindsOK, Settled, Shapes, Packets, Way
<1>4. rx # None => rx.cd \notin Clients
  BY <1>3 DEF Tidy, KindsOK, Matched, AsyncOps
<1>5. KindsOK' /\ RoutesOK'
  BY <1>1, <1>2 DEF Tidy, KindsOK, Matched, RoutesOK
<1>6. (Lost' <=> Lost) /\ (Closing' <=> Closing)
  <2>1. \A x \in Way : x \in Way' \/ x.cd \notin Clients
    BY <1>2, <1>3, <1>4
  <2>. QED BY <1>1, <1>2, <2>1, LostKeeps, FoundKeeps DEF Closing
<1>7. ASSUME Books
      PROVE  Books'
  <2>1. Book' = Book /\ BookOK'
    BY <1>1, <1>7, BookSame DEF Books
  <2>2. WorkOK' /\ QueueOK'
    BY <1>1, <1>7 DEF Books, WorkOK, QueueOK, Busy
  <2>3. HandOK' /\ HeapOK'
    BY <1>1, <1>7, <2>1 DEF Books, HandOK, HeapOK, Granted, Busy
  <2>4. PollOK'
    <3>1. rx # None => rx.id # g.req
      BY <1>1, <1>3, <1>7 DEF Books, PollOK, Mine, SyncKinds, HeapKinds
    <3>2. (\A x \in Way' : x.id # g.req) => (\A x \in Way : x.id # g.req)
      BY <1>2, <1>3, <3>1
    <3>3. (\A x \in Way : Mine(x))'
      BY <1>1, <1>2, <1>7 DEF Books, PollOK, Mine
    <3>4. (\A x \in Coming : /\ x.kind = "heapalloc" => Granted(x.blk)
                             /\ x.kind = "heapfree" => heap = Book \ {g.word} /\ x.blk = g.word)'
      BY <1>1, <1>2, <1>7, <2>1 DEF Books, PollOK, Granted
    <3>. QED BY <1>1, <1>7, <2>1, <3>2, <3>3, <3>4 DEF Books, PollOK
  <2>. QED BY <2>1, <2>2, <2>3, <2>4 DEF Books
<1>. QED BY <1>1, <1>5, <1>6, <1>7 DEF Tidy

\* The reply of a call that is polled for: what the heap's function returns.
LEMMA PollAnsweredTidy ==
    ASSUME Settled, Tidy, PollReturns, rx # None, rx.p = "end", Books,
           rx.kind \in SyncKinds
    PROVE  Books' /\ (Lost' => Lost)
<1>1. /\ g.pc = "poll" /\ rx' = None
      /\ g' = [g EXCEPT !.pc = "polled", !.rc = IF IsBind(g.kind) /\ ~IsBind(rx.kind) THEN -4 ELSE 0]
      /\ UNCHANGED <<allocs, slots, priv, pend, count, loading, staging, orphans, abandoned>>
      /\ UNCHANGED <<heapbound, heaparg, iopq, reqs, heap>>
  BY DEF PollReturns, Rearmed, brokerVars, iopVars, histVars
<1>2. rx \in Coming /\ rx \in Way /\ g \in Guests
  BY WayTypes DEF Way, Settled, Shapes
<1>3. rx.id = g.req /\ rx.kind = g.kind /\ g.req # 0
  BY <1>1, <1>2 DEF Books, PollOK, Mine, Tidy, RoutesOK
<1>4. /\ Way' \subseteq Way /\ (\A x \in Way : x \in Way' \/ x = rx)
      /\ \A x \in Way' : x.id # g.req
  BY <1>1, <1>3, WayCleared
<1>5. rx.cd \notin Clients
  BY <1>2 DEF Tidy, KindsOK, Matched, AsyncOps, SyncKinds, HeapKinds
<1>6. Lost' => Lost
  <2>1. \A x \in Way : x \in Way' \/ x.cd \notin Clients
    BY <1>4, <1>5
  <2>. QED BY <1>1, <2>1, FoundKeeps
<1>7. /\ g'.pc = "polled" /\ g'.rc = 0 /\ g'.op = g.op /\ g'.ret = g.ret /\ g'.blk = g.blk
      /\ g'.kind = g.kind /\ g'.word = g.word /\ g'.i = g.i /\ g'.n = g.n
  BY <1>1, <1>2, <1>3 DEF Guests
<1>8. Book' = Book /\ BookOK'
  BY <1>1, BookSame DEF Books
<1>9. WorkOK'
  BY <1>1, <1>7, WorkKeeps DEF Books, Busy
<1>10. QueueOK'
  BY <1>1, <1>7 DEF Books, QueueOK
<1>11. HandOK'
  BY <1>1, <1>3, <1>7, <1>8 DEF Books, HandOK, Busy, SyncKinds, HeapKinds
<1>12. PollOK'
  <2>1. \A x \in Way' : x.kind \notin SyncKinds
    BY <1>4 DEF Books, PollOK, Mine
  <2>. QED BY <1>7, <2>1, QuietNow
<1>13. HeapOK'
  <2>1. g.kind = "heapalloc" => Granted(heaparg)
    BY <1>2, <1>3 DEF Books, PollOK, HeapKinds
  <2>2. g.kind = "heapfree" => heap = Book \ {g.word} /\ heaparg = g.word
    BY <1>2, <1>3 DEF Books, PollOK, HeapKinds
  <2>3. g.kind = "heapfree" /\ g.ret # "drained" => g.word # NoBlock
    <3>1. Book \subseteq Blocks /\ NoBlock \notin Book
      BY Clock DEF Books, BookOK
    <3>2. g.kind = "heapfree" => g.ret \in {"drained", "end", "freed", "closing"}
      BY <1>1, <1>2 DEF Tidy, RoutesOK, Guests
    <3>3. g.ret = "freed" => g.blk \in allocs /\ g.word = g.blk
      BY <1>1 DEF Books, HandOK, Tidy, RoutesOK, Busy
    <3>. QED BY <1>1, <3>1, <3>2, <3>3 DEF Books, HandOK, Book
  <2>4. g.kind \notin HeapKinds => heap = Book
    BY <1>1 DEF Books, HeapOK
  <2>. QED BY <1>1, <1>7, <1>8, <2>1, <2>2, <2>3, <2>4 DEF HeapOK, Granted, HeapKinds
<1>. QED BY <1>6, <1>8, <1>9, <1>10, <1>11, <1>12, <1>13 DEF Books

\* The reply of a client goes to a poll: one of close().
LEMMA PollStealsTidy ==
    ASSUME Settled, Tidy, PollReturns, rx # None, rx.p = "end", Books, abandoned = {},
           rx.kind \notin SyncKinds
    PROVE  Lost' /\ Closing'
<1>1. /\ g.pc = "poll" /\ rx' = None
      /\ g' = [g EXCEPT !.pc = "polled", !.rc = IF IsBind(g.kind) /\ ~IsBind(rx.kind) THEN -4 ELSE 0]
      /\ UNCHANGED <<allocs, slots, priv, pend, count, loading, staging, orphans, abandoned>>
      /\ UNCHANGED <<heapbound, heaparg, iopq, reqs, heap>>
  BY DEF PollReturns, Rearmed, brokerVars, iopVars, histVars
<1>2. rx \in Coming /\ rx \in Way /\ rx \in Packets /\ g \in Guests
  BY WayTypes DEF Way, Settled, Shapes
<1>3. rx.kind \in AsyncOps /\ rx.cd \in Clients
  <2>1. rx.kind # "note" /\ rx.kind # "none" /\ rx.kind # "other"
    BY <1>1, <1>2 DEF Tidy, KindsOK, Matched, Settled, ReadOK
  <2>2. rx.kind \in AsyncOps
    BY <1>2, <2>1 DEF Packets, Kinds, Wants, SyncKinds, HeapKinds
  <2>. QED BY <1>2, <2>2 DEF Tidy, KindsOK, Matched
<1>4. PICK s \in Slots : slots[s] = rx.cd
  BY <1>3 DEF Settled, OwnOK, Awaited
<1>5. slots[s] # None
  BY <1>3, <1>4, Clock
<1>6. g.op = "close" /\ ~loading /\ (\A r \in reqs : r.kind # "load")
  <2>1. ~loading /\ g.op # "none" /\ g.op \notin PollOps \cup {"load", "path"}
    BY <1>1, <1>5 DEF Books, WorkOK, Busy
  <2>2. count = 0 /\ g.ret # "drained"
    BY <1>1, <1>5 DEF Books, QueueOK
  <2>3. g.ret \in {"alloc", "end", "freed", "bound", "closing"}
    BY <1>1, <1>2, <2>2 DEF Tidy, RoutesOK, Guests
  <2>4. g.op = "close"
    BY <2>1, <2>3 DEF Tidy, RoutesOK, PollOps
  <2>. QED BY <2>1, <2>4 DEF Books, WorkOK
<1>7. Closing'
  BY <1>1, <1>2, <1>6 DEF Closing, Guests
<1>8. Lost'
  <2>1. \A x \in Way : x.cd = rx.cd => x.id = rx.id
    <3>1. rx.cd \in Clients \ abandoned
      BY <1>3
    <3>2. \A x \in Way : x.cd = rx.cd => x.id = subm[rx.cd]
      BY <3>1 DEF Settled, OwnOK, Awaited, Way, Coming
    <3>. QED BY <1>2, <3>2
  <2>2. rx.id # 0
    BY <1>2, <1>3, WayTypes, Clock
  <2>3. \A x \in Way' : x \in Way /\ x.id # rx.id
    BY <1>1, <2>2, WayCleared
  <2>. QED BY <1>1, <1>4, <1>5, <2>1, <2>3 DEF Lost
<1>. QED BY <1>7, <1>8

LEMMA PollReturnsTidy ==
    ASSUME Settled, Tidy, PollReturns
    PROVE  Tidy'
<1>1. CASE rx = None \/ rx.p # "end"
  BY <1>1, PollGoesOnTidy
<1>2. CASE rx # None /\ rx.p = "end"
  <2>1. /\ g.pc = "poll" /\ rx' = None
        /\ g' = [g EXCEPT !.pc = "polled", !.rc = IF IsBind(g.kind) /\ ~IsBind(rx.kind) THEN -4 ELSE 0]
        /\ UNCHANGED <<allocs, slots, priv, pend, count, loading, staging, orphans, abandoned>>
        /\ UNCHANGED <<heapbound, heaparg, iopq, reqs, heap>>
    BY <1>2 DEF PollReturns, Rearmed, brokerVars, iopVars, histVars
  <2>2. Coming' \subseteq Coming /\ Way' \subseteq Way
    BY <2>1, WayCleared
  <2>3. /\ g \in Guests /\ g'.pc = "polled" /\ g'.op = g.op /\ g'.ret = g.ret /\ g'.blk = g.blk
        /\ g'.want = g.want /\ g'.kind = g.kind /\ g'.req = g.req /\ g'.masked = g.masked
    BY <2>1 DEF Guests, Settled, Shapes
  <2>4. KindsOK' /\ RoutesOK'
    <3>1. KindsOK'
      BY <2>1, <2>2 DEF Tidy, KindsOK, Matched
    <3>2. RoutesOK'
      BY <2>1, <2>3 DEF Tidy, RoutesOK
    <3>. QED BY <3>1, <3>2
  <2>5. Lost /\ Closing => Lost' /\ Closing'
    BY <2>1, <2>2, <2>3, LostKeeps DEF Closing
  <2>. QED BY <1>2, <2>1, <2>4, <2>5, PollAnsweredTidy, PollStealsTidy DEF Tidy
<1>. QED BY <1>1, <1>2

LEMMA PollTimesOutTidy ==
    ASSUME Settled, Tidy, PollTimesOut
    PROVE  Tidy'
<1>1. /\ g.pc = "poll" /\ Gone(g.req) /\ g' = [g EXCEPT !.pc = "polled", !.rc = -2]
      /\ IF IsBind(g.kind) THEN rx' = None ELSE rx' = rx
      /\ UNCHANGED <<allocs, slots, priv, pend, count, loading, staging, orphans, abandoned>>
      /\ UNCHANGED <<heapbound, heaparg, iopq, reqs, heap>>
  BY DEF PollTimesOut, Rearmed, brokerVars, iopVars, histVars
<1>2. /\ g \in Guests /\ g'.pc = "polled" /\ g'.op = g.op /\ g'.ret = g.ret /\ g'.blk = g.blk
      /\ g'.want = g.want /\ g'.kind = g.kind /\ g'.req = g.req /\ g'.masked = g.masked
      /\ g'.word = g.word /\ g'.i = g.i /\ g'.n = g.n
  BY <1>1 DEF Guests, Settled, Shapes
<1>3. Coming' \subseteq Coming /\ Way' \subseteq Way
  BY <1>1 DEF Coming, Way
<1>4. KindsOK'
  BY <1>1, <1>3 DEF Tidy, KindsOK, Matched
<1>5. RoutesOK'
  BY <1>1, <1>2 DEF Tidy, RoutesOK
<1>6. Lost /\ Closing => Lost' /\ Closing'
  BY <1>1, <1>2, <1>3, LostKeeps DEF Closing
<1>7. ASSUME Books
      PROVE  Books' /\ (Lost' <=> Lost)
  <2>1. \A x \in Way : x.id # g.req
    BY <1>1 DEF Gone, Way, Coming
  <2>2. g.ret = "drained" /\ heap = Book \ {g.word} /\ g.kind = "heapfree"
    BY <1>1, <1>7, <2>1 DEF Books, PollOK, HandOK, Tidy, RoutesOK
  <2>3. rx' = rx /\ Way' = Way
    BY <1>1, <2>2, WaySame DEF IsBind
  <2>4. Book' = Book /\ BookOK'
    BY <1>1, <1>7, BookSame DEF Books
  <2>5. WorkOK'
    BY <1>1, <1>2, <1>7, WorkKeeps DEF Books, Busy
  <2>6. QueueOK'
    BY <1>1, <1>2, <1>7 DEF Books, QueueOK
  <2>7. HandOK'
    BY <1>1, <1>2, <1>7, <2>2, <2>4 DEF Books, HandOK, Busy
  <2>8. PollOK'
    <3>1. \A x \in Way' : x.kind \notin SyncKinds
      BY <1>7, <2>1, <2>3 DEF Books, PollOK, Mine
    <3>. QED BY <1>2, <3>1, QuietNow
  <2>9. HeapOK'
    BY <1>1, <1>2, <2>2, <2>4 DEF HeapOK, HeapKinds
  <2>10. Lost' <=> Lost
    BY <1>1, <2>3 DEF Lost
  <2>. QED BY <2>4, <2>5, <2>6, <2>7, <2>8, <2>9, <2>10 DEF Books
<1>. QED BY <1>1, <1>4, <1>5, <1>6, <1>7 DEF Tidy

-----------------------------------------------------------------------------
(* The interrupt.                                                          *)

\* The packet in the buffer is taken: not one that is polled for, but that of
\* pending_free_drain.
LEMMA TakenPoll ==
    ASSUME Settled, PollOK, rx' = None, UNCHANGED <<g, reqs, iopq, heap>>, Book' = Book,
           rx # None /\ rx.kind \in SyncKinds => g.ret = "drained" /\ heap = Book \ {g.word}
    PROVE  PollOK'
<1>1. /\ Coming' \subseteq Coming /\ Way' \subseteq Way
      /\ \A x \in Way : x \in Way' \/ (x = rx /\ rx # None)
  BY WayCleared
<1>2. rx # None => rx \in Way
  BY WayTypes DEF Way
<1>3. (\A x \in Way : Mine(x))'
  BY <1>1 DEF PollOK, Mine
<1>4. ASSUME g.pc = "poll", \A x \in Way' : x.id # g.req
      PROVE  g.ret = "drained" /\ heap = Book \ {g.word}
  <2>1. CASE \A x \in Way : x.id # g.req
    BY <1>4, <2>1 DEF PollOK
  <2>2. CASE rx # None /\ rx.id = g.req
    BY <1>2, <1>4, <2>2 DEF PollOK, Mine
  <2>. QED BY <1>1, <1>4, <2>1, <2>2
<1>5. (\A x \in Coming : /\ x.kind = "heapalloc" => Granted(x.blk)
                         /\ x.kind = "heapfree" => heap = Book \ {g.word} /\ x.blk = g.word)'
  BY <1>1 DEF PollOK, Granted
<1>. QED BY <1>3, <1>4, <1>5 DEF PollOK

LEMMA IsrOtherTidy ==
    ASSUME Settled, Tidy, Interrupts, IsrOther, ~Masked, UNCHANGED <<heapbound, orphans>>,
           rx = None \/ rx.p # "end" \/ rx.cd = None \/ (\A s \in Slots : slots[s] # rx.cd)
    PROVE  Tidy'
<1>1. /\ rx' = None /\ UNCHANGED <<g, heapbound, reqs, iopq, heap, heaparg>>
      /\ UNCHANGED <<allocs, slots, priv, pend, count, loading, staging, orphans, abandoned>>
  BY DEF Interrupts, IsrOther, Rearmed
<1>2. /\ Coming' \subseteq Coming /\ Way' \subseteq Way
      /\ \A x \in Way : x \in Way' \/ (x = rx /\ rx # None)
  BY <1>1, WayCleared
<1>3. rx # None => rx \in Coming /\ rx \in Way /\ rx \in Packets
  BY WayTypes DEF Way
<1>4. KindsOK' /\ RoutesOK'
  BY <1>1, <1>2 DEF Tidy, KindsOK, Matched, RoutesOK
<1>5. Lost => Lost'
  BY <1>1, <1>2, LostKeeps
<1>6. ASSUME abandoned = {}
      PROVE  Lost' => Lost
  <2>1. ASSUME rx # None, rx.cd \in Clients
        PROVE  FALSE
    <3>1. rx.p = "end"
      BY <1>3, <2>1 DEF Tidy, KindsOK, Matched, AsyncOps, Packets
    <3>2. \E s \in Slots : slots[s] = rx.cd
      BY <1>6, <2>1 DEF Settled, OwnOK, Awaited
    <3>. QED BY <2>1, <3>1, <3>2, Clock
  <2>2. \A x \in Way : x \in Way' \/ x.cd \notin Clients
    BY <1>2, <2>1
  <2>. QED BY <1>1, <2>2, FoundKeeps
<1>7. ASSUME Books
      PROVE  Books'
  <2>1. Book' = Book /\ BookOK'
    BY <1>1, <1>7, BookSame DEF Books
  <2>2. WorkOK' /\ QueueOK'
    BY <1>1, <1>7 DEF Books, WorkOK, QueueOK, Busy
  <2>3. HandOK' /\ HeapOK'
    BY <1>1, <1>7, <2>1 DEF Books, HandOK, HeapOK, Granted, Busy
  <2>4. ASSUME rx # None, rx.kind \in SyncKinds
        PROVE  g.ret = "drained" /\ heap = Book \ {g.word}
    <3>1. g.pc = "poll" /\ rx.kind = g.kind
      BY <1>3, <1>7, <2>4 DEF Books, PollOK, Mine
    <3>2. g.ret = "drained"
      BY <3>1 DEF Masked, Tidy, RoutesOK, Settled, Shapes, Guests
    <3>3. g.kind = "heapfree"
      BY <1>7, <3>1, <3>2 DEF Books, HandOK, Tidy, RoutesOK
    <3>. QED BY <1>3, <1>7, <2>4, <3>1, <3>2, <3>3 DEF Books, PollOK
  <2>5. PollOK'
    BY <1>1, <1>7, <2>1, <2>4, TakenPoll DEF Books
  <2>. QED BY <2>1, <2>2, <2>3, <2>5 DEF Books
<1>. QED BY <1>1, <1>4, <1>5, <1>6, <1>7 DEF Tidy, Closing

\* The client whose reply it is leaves its slot.
LEMMA IsrEndTidy ==
    ASSUME Settled, Tidy, Interrupts, rx # None, rx.p = "end",
           NEW s \in Slots, slots[s] = rx.cd, rx.cd # None, IsrEnd(s),
           UNCHANGED <<heapbound, orphans>>
    PROVE  Tidy'
<1>. DEFINE c == slots[s]
<1>1. /\ slots \in [Slots -> Clients \cup {None}] /\ priv \in [Clients -> States]
      /\ pend \in [1 .. MaxPending -> Blocks \cup {NoBlock, Argument}]
      /\ 1 \in 1 .. MaxPending /\ 0 < MaxPending
      /\ rx \in Coming /\ rx \in Way /\ rx \in Packets
  BY Clock, WayTypes DEF Settled, Shapes, TypeOK, Way
<1>2. c \in Clients /\ c # None /\ rx.cd = c /\ rx.id # 0
  <2>1. c \in Clients /\ rx.cd = c
    BY <1>1
  <2>. QED BY <1>1, <2>1, WayTypes, Clock
<1>3. /\ slots' = [slots EXCEPT ![s] = None] /\ Complete(c) /\ rx' = None
      /\ UNCHANGED <<g, heapbound, reqs, iopq, heap, heaparg>>
      /\ UNCHANGED <<allocs, orphans, abandoned>>
  BY DEF Interrupts, IsrEnd, Rearmed
<1>. HIDE DEF c
<1>4. /\ \A t \in Slots : slots'[t] = IF t = s THEN None ELSE slots[t]
      /\ \A t \in Slots : slots[t] = c => t = s
      /\ slots[s] = c
  BY <1>1, <1>2, <1>3 DEF Settled, SlotsOK, c
<1>5. \A d \in Clients : priv'[d].op = priv[d].op
  <2>1. PICK b : priv' = [priv EXCEPT ![c].status = "done", ![c].bound = b]
    BY <1>1, <1>2, <1>3 DEF Complete, States
  <2>. QED BY <1>1, <1>2, <2>1 DEF States
<1>6. /\ Coming' \subseteq Coming /\ Way' \subseteq Way
      /\ \A x \in Way : x \in Way' \/ (x = rx /\ rx # None)
      /\ \A x \in Way' : x.id # rx.id
  BY <1>2, <1>3, WayCleared
<1>7. KindsOK' /\ RoutesOK'
  BY <1>3, <1>6 DEF Tidy, KindsOK, Matched, RoutesOK
<1>8. Lost' <=> Lost
  BY <1>1, <1>2, <1>4, <1>6 DEF Lost
<1>9. rx.kind \in AsyncOps
  BY <1>1, <1>2 DEF Tidy, KindsOK, Matched
<1>10. Closing => Closing'
  BY <1>3 DEF Closing, Complete
<1>11. ASSUME Books, abandoned = {}
       PROVE  Books'
  <2>1. priv[c].op \in {"load", "path"} <=> loading
    BY <1>2, <1>4, <1>11 DEF Books, WorkOK
  <2>2. CASE ~loading
    <3>1. UNCHANGED <<loading, staging, pend, count>>
      BY <1>3, <2>1, <2>2 DEF Complete
    <3>2. Book' = Book /\ BookOK'
      BY <1>3, <1>11, <3>1, BookSame DEF Books
    <3>3. WorkOK'
      BY <1>1, <1>3, <1>4, <1>5, <1>11, <2>2, <3>1 DEF Books, WorkOK, Busy
    <3>4. QueueOK'
      BY <1>3, <1>4, <1>11, <3>1 DEF Books, QueueOK
    <3>5. HandOK' /\ HeapOK'
      BY <1>3, <1>11, <3>2 DEF Books, HandOK, HeapOK, Granted, Busy
    <3>6. PollOK'
      BY <1>3, <1>9, <1>11, <3>2, TakenPoll DEF Books, SyncKinds, HeapKinds, AsyncOps
    <3>. QED BY <3>2, <3>3, <3>4, <3>5, <3>6 DEF Books
  <2>3. CASE loading
    <3>1. /\ loading' = FALSE /\ staging' = NoBlock
          /\ IF staging # NoBlock THEN Pushed(staging) ELSE UNCHANGED <<pend, count>>
      BY <1>3, <2>1, <2>3 DEF Complete
    <3>2. g.pc \in {"idle", "boot"} /\ count = 0 /\ (\A t \in Slots : slots'[t] = None)
      <4>1. count = 0
        BY <1>2, <1>4, <1>11 DEF Books, QueueOK
      <4>. QED BY <1>2, <1>4, <1>11, <2>3, <4>1 DEF Books, WorkOK, Busy
    <3>3. g'.pc \in {"idle", "boot"} /\ g'.op = "none" /\ g'.blk = NoBlock
      BY <1>3, <3>2, IdleFields DEF Tidy, RoutesOK, Idle
    <3>4. \A i \in 1 .. MaxPending : pend[i] = NoBlock
      BY <1>11, <3>2 DEF Books, QueueOK
    <3>5. /\ staging # NoBlock => count' = 1 /\ pend' = [pend EXCEPT ![1] = staging]
          /\ staging = NoBlock => count' = 0 /\ pend' = pend
      BY <1>1, <3>1, <3>2 DEF Pushed
    <3>6. \A i \in 1 .. MaxPending : pend'[i] = IF i = 1 THEN staging ELSE NoBlock
      BY <1>1, <3>4, <3>5
    <3>7. /\ PendingBlocks = {} /\ PendingBlocks' = {staging} \ {NoBlock}
          /\ StagingBlock = {staging} \ {NoBlock} /\ StagingBlock' = {}
      BY <1>1, <2>3, <3>1, <3>4, <3>6 DEF PendingBlocks, StagingBlock
    <3>8. Book' = Book
      BY <1>3, <3>7 DEF Book
    <3>9. BookOK'
      BY <1>3, <1>11, <3>7, <3>8 DEF Books, BookOK
    <3>10. \A r \in reqs' : r.kind # "load"
      <4>1. SUFFICES ASSUME NEW r \in reqs, r.kind = "load"
                     PROVE  FALSE
        BY <1>3
      <4>2. r \in Way /\ r.cd \in Clients
        BY <4>1 DEF Tidy, KindsOK, Matched, AsyncOps, Way
      <4>3. r.id = subm[r.cd] /\ (\E t \in Slots : slots[t] = r.cd)
        BY <1>11, <4>2 DEF Settled, OwnOK, Awaited
      <4>4. r.cd = c
        BY <1>2, <1>4, <1>11, <2>3, <4>2, <4>3, Clock DEF Books, WorkOK
      <4>5. rx.id = subm[c]
        BY <1>2, <1>11 DEF Settled, OwnOK, Awaited
      <4>. QED BY <1>1, <4>3, <4>4, <4>5, WayTypes
    <3>11. WorkOK'
      BY <3>1, <3>2, <3>3, <3>10 DEF WorkOK, Busy
    <3>12. QueueOK'
      BY <1>1, <1>3, <3>2, <3>3, <3>5, <3>6 DEF QueueOK
    <3>13. HandOK'
      BY <3>3 DEF HandOK, Busy
    <3>14. HeapOK'
      BY <1>3, <1>11, <3>2, <3>3, <3>8 DEF Books, HeapOK
    <3>15. PollOK'
      BY <1>3, <1>6, <1>11, <3>2, QuietKeeps DEF Books
    <3>. QED BY <3>9, <3>11, <3>12, <3>13, <3>14, <3>15 DEF Books
  <2>. QED BY <2>2, <2>3
<1>. QED BY <1>3, <1>7, <1>8, <1>10, <1>11 DEF Tidy

LEMMA IsrTidy ==
    ASSUME Settled, Tidy, Isr
    PROVE  Tidy'
<1>. DEFINE hit == IF rx = None THEN {}
                   ELSE {s \in SlotOf(rx.cd) : rx.p = "end" /\ rx.cd # None}
<1>1. /\ Interrupts /\ ~Masked /\ UNCHANGED <<heapbound, orphans>>
      /\ IF hit # {} THEN IsrEnd(Lowest(hit)) ELSE IsrOther
  BY DEF Isr, Interrupts, IsrAck, iopVars
<1>2. CASE hit = {}
  <2>1. rx = None \/ rx.p # "end" \/ rx.cd = None \/ (\A s \in Slots : slots[s] # rx.cd)
    BY <1>2 DEF SlotOf
  <2>. QED BY <1>1, <1>2, <2>1, IsrOtherTidy
<1>3. CASE hit # {}
  <2>1. hit \in SUBSET (Nat \cup {Argument})
    BY Clock DEF SlotOf
  <2>2. Lowest(hit) \in hit
    BY <1>3, <2>1, LowestMember
  <2>. QED BY <1>1, <1>3, <2>2, IsrEndTidy DEF SlotOf
<1>. QED BY <1>2, <1>3

-----------------------------------------------------------------------------
(* The IOP.                                                                *)

\* What the IOP leaves alone when it puts a packet on its way.
OfIop == /\ UNCHANGED <<g, rx, heapbound, heaparg>>
           /\ UNCHANGED <<allocs, slots, priv, pend, count, loading, staging, orphans, abandoned>>

LEMMA OfIopKeeps ==
    ASSUME Settled, OfIop, Books, reqs' \subseteq reqs
    PROVE  WorkOK' /\ QueueOK' /\ HandOK' /\ BookOK' /\ Book' = Book
<1>1. Book' = Book /\ BookOK'
  BY BookSame DEF OfIop, Books
<1>2. WorkOK' /\ QueueOK'
  BY DEF OfIop, Books, WorkOK, QueueOK, Busy
<1>3. HandOK'
  BY <1>1 DEF OfIop, Books, HandOK, Busy
<1>. QED BY <1>1, <1>2, <1>3

\* The reply takes the place of the request.
LEMMA ReplyWay ==
    ASSUME Settled, NEW r \in reqs, NEW x \in Packets, x.id = r.id,
           reqs' = reqs \ {r}, iopq' = Append(iopq, x), rx' = rx
    PROVE  /\ Coming' = Coming \cup {x} /\ Way' \subseteq Way \cup {x}
           /\ \A y \in Way : y \in Way' \/ y = r
           /\ x \in Way' /\ r \in Way
           /\ \A y \in Way' : y.id = r.id => y = x
<1>1. Coming' = Coming \cup {x}
  BY QueueMember DEF Settled, Shapes, Coming
<1>2. /\ Way' \subseteq Way \cup {x} /\ x \in Way' /\ r \in Way
      /\ \A y \in Way : y \in Way' \/ y = r
  BY <1>1 DEF Way
<1>3. \A y \in Way' : y.id = r.id => y = x
  <2>1. \A y \in Coming : y.id # r.id
    BY WayTypes
  <2>2. \A y \in reqs' : y.id # r.id
    BY WayTypes
  <2>. QED BY <1>1, <2>1, <2>2 DEF Way
<1>. QED BY <1>1, <1>2, <1>3

\* The heap's function allocates or frees, and answers the poll.
LEMMA ServedHeap ==
    ASSUME Settled, Tidy, Books, OfIop, NEW r \in reqs, NEW x \in Packets,
           x.id = r.id, x.kind = r.kind, reqs' = reqs \ {r}, iopq' = Append(iopq, x),
           r.kind \in HeapKinds,
           r.kind = "heapalloc" => \/ x.blk \notin heap \cup {NoBlock} /\ heap' = heap \cup {x.blk}
                                   \/ x.blk = NoBlock /\ heap' = heap,
           r.kind = "heapfree" => /\ heap' = heap \ {r.blk}
                                  /\ x.blk = IF r.blk \in heap THEN r.blk ELSE NoBlock
    PROVE  PollOK' /\ HeapOK'
<1>1. /\ Coming' = Coming \cup {x} /\ Way' \subseteq Way \cup {x} /\ x \in Way' /\ r \in Way
      /\ \A y \in Way' : y.id = r.id => y = x
  BY ReplyWay DEF OfIop
<1>2. /\ g.pc = "poll" /\ r.id = g.req /\ r.kind = g.kind
      /\ g' = g /\ heaparg' = heaparg /\ rx' = rx /\ Book' = Book /\ NoBlock \notin Book
  BY <1>1, OfIopKeeps, Clock DEF Books, BookOK, PollOK, Mine, SyncKinds, HeapKinds, OfIop
<1>3. \A y \in Way' : y = x \/ (y \in Way /\ y.id # g.req /\ y.kind \notin SyncKinds)
  BY <1>1, <1>2 DEF Books, PollOK, Mine
<1>4. r.kind = "heapalloc" => Granted(x.blk)'
  BY <1>2 DEF Books, PollOK, Granted
<1>5. r.kind = "heapfree" => heap' = Book' \ {g'.word} /\ x.blk = g'.word
  <2>1. r.kind = "heapfree" => r.blk = g.word /\ heap = Book \cup {g.word}
    BY DEF Books, PollOK
  <2>. QED BY <1>2, <2>1
<1>6. (\A y \in Way : Mine(y))'
  BY <1>2, <1>3 DEF Mine, SyncKinds
<1>7. ~(\A y \in Way : y.id # g.req)'
  BY <1>1, <1>2
<1>8. (\A q \in reqs : q.kind \notin HeapKinds)'
  <2>1. \A q \in reqs' : q \in Way' /\ q # x
    BY <1>1, <1>2, WayTypes DEF Way
  <2>. QED BY <1>3, <2>1 DEF SyncKinds
<1>9. \A y \in Coming' : y = x \/ y.kind \notin HeapKinds
  BY <1>3 DEF SyncKinds, Way
<1>10. (rx # None => rx.kind \notin HeapKinds)'
  <2>1. rx # None => rx \in Coming /\ rx.id # r.id
    BY WayTypes
  <2>2. rx' # None => rx' \in Coming' /\ rx' # x
    BY <1>1, <1>2, <2>1
  <2>. QED BY <1>9, <2>2
<1>11. PollOK'
  BY <1>4, <1>5, <1>6, <1>7, <1>8, <1>9, <1>10 DEF PollOK, HeapKinds
<1>12. HeapOK'
  BY <1>2 DEF HeapOK
<1>. QED BY <1>11, <1>12

\* Any other request, or a command of the IOP's own.
LEMMA ServedOther ==
    ASSUME Settled, Tidy, Books, OfIop, heap' = heap, reqs' \subseteq reqs,
           NEW x, Coming' = Coming \cup {x}, x.kind \notin HeapKinds,
           \A y \in Way : y \in Way' \/ y.id = x.id, Mine(x)
    PROVE  PollOK' /\ HeapOK'
<1>1. /\ Book' = Book /\ UNCHANGED <<g, rx, heaparg>> /\ Way' \subseteq Way \cup {x} /\ x \in Way'
  BY OfIopKeeps DEF OfIop, Way
<1>2. (\A y \in Way : Mine(y))'
  BY <1>1 DEF Books, PollOK, Mine
<1>3. (\A y \in Way' : y.id # g.req) => (\A y \in Way : y.id # g.req)
  BY <1>1
<1>4. (\A y \in Coming : /\ y.kind = "heapalloc" => Granted(y.blk)
                         /\ y.kind = "heapfree" => heap = Book \ {g.word} /\ y.blk = g.word)'
  BY <1>1 DEF Books, PollOK, Granted, HeapKinds
<1>5. PollOK'
  BY <1>1, <1>2, <1>3, <1>4 DEF Books, PollOK
<1>6. HeapOK'
  BY <1>1 DEF Books, HeapOK, Granted
<1>. QED BY <1>5, <1>6

LEMMA ServesTidy ==
    ASSUME Settled, Tidy, NEW r \in reqs, IopServes(r)
    PROVE  Tidy'
<1>1. reqs' = reqs \ {r} /\ OfIop
  BY DEF IopServes, brokerVars, sifVars, histVars, OfIop
<1>2. PICK b \in Blocks \cup {0, 1} :
        /\ iopq' = Append(iopq, Packet("end", r, b))
        /\ r.kind = "heapalloc" => \/ b \notin heap \cup {NoBlock} /\ heap' = heap \cup {b}
                                   \/ b = NoBlock /\ heap' = heap
        /\ r.kind = "heapfree" => heap' = heap \ {r.blk} /\ b = IF r.blk \in heap THEN r.blk ELSE NoBlock
        /\ r.kind \notin HeapKinds => heap' = heap
  <2>0. heap \subseteq Blocks
    BY DEF Settled, Shapes, TypeOK
  <2>1. CASE r.kind = "heapalloc"
    BY <2>1, Clock DEF IopServes, NoBlock, HeapKinds
  <2>2. CASE r.kind = "heapfree"
    BY <2>0, <2>2 DEF IopServes, NoBlock, HeapKinds
  <2>3. CASE r.kind \notin HeapKinds
    BY <2>3 DEF IopServes, HeapKinds
  <2>. QED BY <2>1, <2>2, <2>3 DEF HeapKinds
<1>. DEFINE x == Packet("end", r, b)
<1>3. /\ x \in Packets /\ x.p = "end" /\ x.id = r.id /\ x.cd = r.cd /\ x.kind = r.kind /\ x.blk = b
  BY DEF Packet, Packets, Requests, Settled, Shapes
<1>4. iopq' = Append(iopq, x)
  BY <1>2
<1>. HIDE DEF x
<1>5. /\ Coming' = Coming \cup {x} /\ Way' \subseteq Way \cup {x}
      /\ \A y \in Way : y \in Way' \/ y = r
      /\ x \in Way' /\ r \in Way
  BY <1>1, <1>3, <1>4, ReplyWay DEF OfIop
<1>6. KindsOK'
  <2>1. Matched(r) /\ r.kind # "note"
    BY <1>5 DEF Tidy, KindsOK
  <2>2. (\A y \in Way : Matched(y))'
    BY <1>1, <1>3, <1>5, <2>1 DEF Tidy, KindsOK, Matched, OfIop
  <2>3. (heap # {} => heapbound)'
    BY <1>1, <1>2, <2>1 DEF Tidy, KindsOK, Matched, OfIop, HeapKinds
  <2>4. (\A y \in Coming : y.kind = "note" <=> y.p = "cmd")'
    BY <1>3, <1>5, <2>1 DEF Tidy, KindsOK
  <2>. QED BY <1>1, <2>2, <2>3, <2>4 DEF Tidy, KindsOK
<1>7. RoutesOK'
  BY <1>1 DEF Tidy, RoutesOK, OfIop
<1>8. (Lost' <=> Lost) /\ (Closing => Closing')
  BY <1>1, <1>3, <1>5 DEF Lost, Closing, OfIop
<1>9. ASSUME Books
      PROVE  Books'
  <2>1. WorkOK' /\ QueueOK' /\ HandOK' /\ BookOK' /\ Book' = Book
    BY <1>1, <1>9, OfIopKeeps
  <2>2. PollOK' /\ HeapOK'
    <3>1. CASE r.kind \in HeapKinds
      BY <1>1, <1>2, <1>3, <1>4, <1>9, <3>1, ServedHeap
    <3>2. CASE r.kind \notin HeapKinds
      <4>1. Mine(x)
        BY <1>3, <1>5, <1>9 DEF Books, PollOK, Mine
      <4>2. \A y \in Way : y \in Way' \/ y.id = x.id
        BY <1>3, <1>5
      <4>. QED BY <1>1, <1>2, <1>3, <1>5, <1>9, <3>2, <4>1, <4>2, ServedOther
    <3>. QED BY <3>1, <3>2
  <2>. QED BY <2>1, <2>2 DEF Books
<1>. QED BY <1>1, <1>6, <1>7, <1>8, <1>9 DEF Tidy, OfIop

LEMMA NotesTidy ==
    ASSUME Settled, Tidy, IopNotifies
    PROVE  Tidy'
<1>. DEFINE x == Packet("cmd", Note, NoBlock)
<1>1. /\ x \in Packets /\ x.p = "cmd" /\ x.id = 0 /\ x.cd = None /\ x.kind = "note"
  BY Clock DEF Packet, Packets, Note, Kinds, Owners, NoBlock
<1>2. iopq' = Append(iopq, x) /\ reqs' = reqs /\ heap' = heap /\ OfIop
  BY DEF IopNotifies, brokerVars, sifVars, histVars, OfIop
<1>. HIDE DEF x
<1>3. Coming' = Coming \cup {x} /\ Way' = Way \cup {x}
  <2>1. Coming' = Coming \cup {x}
    BY <1>1, <1>2, QueueMember DEF Settled, Shapes, Coming, OfIop
  <2>. QED BY <1>2, <2>1 DEF Way
<1>4. KindsOK'
  BY <1>1, <1>2, <1>3, Clock DEF Tidy, KindsOK, Matched, OfIop, AsyncOps, HeapKinds
<1>5. RoutesOK'
  BY <1>2 DEF Tidy, RoutesOK, OfIop
<1>6. (Lost' <=> Lost) /\ (Closing => Closing')
  BY <1>1, <1>2, <1>3 DEF Lost, Closing, OfIop
<1>7. ASSUME Books
      PROVE  Books'
  <2>1. Mine(x)
    BY <1>1 DEF Tidy, RoutesOK, Mine, SyncKinds, HeapKinds
  <2>2. PollOK' /\ HeapOK'
    BY <1>1, <1>2, <1>3, <1>7, <2>1, ServedOther DEF HeapKinds
  <2>. QED BY <1>2, <1>7, <2>2, OfIopKeeps DEF Books
<1>. QED BY <1>2, <1>4, <1>5, <1>6, <1>7 DEF Tidy, OfIop

LEMMA DeliverTidy ==
    ASSUME Settled, Tidy, Deliver
    PROVE  Tidy'
<1>. DEFINE x == Head(iopq)
<1>1. /\ iopq # <<>> /\ iopq' = Tail(iopq) /\ rx' = x /\ rx = None
      /\ heaparg' = IF x.kind \in HeapKinds THEN x.blk ELSE heaparg
      /\ UNCHANGED <<g, heapbound, reqs, heap>>
      /\ UNCHANGED <<allocs, slots, priv, pend, count, loading, staging, orphans, abandoned>>
  BY DEF Deliver, HeapKinds, brokerVars, histVars, Settled, Shapes, TypeOK
<1>2. /\ iopq \in Seq(Packets) /\ Len(iopq) \in Nat \ {0} /\ iopq[1] = x
      /\ Len(iopq') = Len(iopq) - 1
      /\ \A k \in 1 .. Len(iopq') : k + 1 \in 2 .. Len(iopq) /\ iopq'[k] = iopq[k + 1]
  BY <1>1 DEF Settled, Shapes
<1>. HIDE DEF x
<1>3. Coming' \subseteq Coming /\ x \in Coming
  BY <1>1, <1>2 DEF Coming
<1>4. x # None
  <2>1. x \in Packets /\ x.kind # "none"
    BY <1>2, <1>3 DEF Tidy, KindsOK, Matched, Way
  <2>. DEFINE K == AsyncOps \cup {"heapbind", "heapalloc", "heapfree", "lfbind", "other", "note"}
              O == Clients \cup {None, HeapClient, LoadClient}
  <2>2. x.kind \in K
    BY <2>1 DEF Packets, Kinds, Wants
  <2>3. x.p \in {"end", "cmd"} /\ x.id \in Nat /\ x.blk \in Nat /\ x.cd \in O
    <3>1. x.p \in {"end", "cmd"} /\ x.id \in Nat /\ x.blk \in Blocks \cup {0, 1} /\ x.cd \in Owners
      BY <2>1 DEF Packets
    <3>2. x.blk \in Nat
      <4>1. \A b \in Blocks : b \in Nat
        BY Clock
      <4>2. CASE x.blk \in Blocks
        BY <4>1, <4>2
      <4>3. CASE x.blk \in {0, 1}
        BY <4>3
      <4>. QED BY <3>1, <4>2, <4>3
    <3>3. x.cd \in O
      BY <3>1 DEF Owners
    <3>. QED BY <3>1, <3>2, <3>3
  <2>4. x = [p |-> x.p, id |-> x.id, kind |-> x.kind, cd |-> x.cd, blk |-> x.blk]
    BY <2>1 DEF Packets
  <2>5. x \in [p : {"end", "cmd"}, id : Nat, kind : K, cd : O, blk : Nat]
    <3>. HIDE DEF K, O
    <3>. QED BY <2>2, <2>3, <2>4
  <2>. QED BY <2>5, SifBrokerAssumption
<1>5. Coming \subseteq Coming'
  <2>1. SUFFICES ASSUME NEW k \in 1 .. Len(iopq)
                 PROVE  iopq[k] \in Coming'
    BY <1>1 DEF Coming
  <2>2. CASE k = 1
    BY <1>1, <1>2, <1>4, <2>2 DEF Coming
  <2>3. CASE k # 1
    <3>1. k - 1 \in 1 .. Len(iopq') /\ iopq'[k - 1] = iopq[k]
      BY <1>2, <2>3
    <3>. QED BY <3>1 DEF Coming
  <2>. QED BY <2>2, <2>3
<1>6. Coming' = Coming /\ Way' = Way
  BY <1>1, <1>3, <1>5 DEF Way, Coming
<1>7. KindsOK' /\ RoutesOK'
  BY <1>1, <1>6 DEF Tidy, KindsOK, Matched, RoutesOK
<1>8. (Lost' <=> Lost) /\ (Closing' <=> Closing)
  BY <1>1, <1>6 DEF Lost, Closing
<1>9. ASSUME Books
      PROVE  Books'
  <2>1. Book' = Book /\ BookOK'
    BY <1>1, <1>9, BookSame DEF Books
  <2>2. WorkOK' /\ QueueOK'
    BY <1>1, <1>9 DEF Books, WorkOK, QueueOK, Busy
  <2>3. HandOK'
    BY <1>1, <1>9, <2>1 DEF Books, HandOK, Busy
  <2>4. g.pc # "poll" => heaparg' = heaparg
    BY <1>1, <1>3, <1>9 DEF Books, PollOK, Mine, SyncKinds, Way
  <2>5. HeapOK'
    BY <1>1, <1>9, <2>1, <2>4 DEF Books, HeapOK, Granted
  <2>6. PollOK'
    BY <1>1, <1>6, <1>9, <2>1 DEF Books, PollOK, Mine, Granted
  <2>. QED BY <2>1, <2>2, <2>3, <2>5, <2>6 DEF Books
<1>. QED BY <1>1, <1>7, <1>8, <1>9 DEF Tidy

-----------------------------------------------------------------------------
(* The books are kept.                                                     *)

LEMMA TidyStutter ==
    ASSUME Settled, Tidy, UNCHANGED vars
    PROVE  Tidy'
<1>1. /\ UNCHANGED <<g, slots, abandoned, reqs, iopq, rx, heap, orphans, priv, heaparg, heapbound>>
      /\ UNCHANGED <<allocs, pend, count, loading, staging>>
  BY DEF vars, brokerVars, sifVars, iopVars, histVars
<1>2. RoutesOK' /\ (Closing => Closing')
  BY <1>1 DEF Tidy, RoutesOK, Closing
<1>3. ASSUME Books
      PROVE  Books'
  <2>1. Book' = Book /\ BookOK' /\ Coming' = Coming /\ Way' = Way
    BY <1>1, <1>3, BookSame, WaySame DEF Books
  <2>2. WorkOK' /\ QueueOK'
    BY <1>1, <1>3 DEF Books, WorkOK, QueueOK, Busy
  <2>3. HandOK' /\ HeapOK'
    BY <1>1, <1>3, <2>1 DEF Books, HandOK, HeapOK, Granted, Busy
  <2>4. PollOK'
    BY <1>1, <1>3, <2>1 DEF Books, PollOK, Mine, Granted
  <2>. QED BY <2>1, <2>2, <2>3, <2>4 DEF Books
<1>. QED BY <1>1, <1>2, <1>3, LocalKeeps

LEMMA TidyStep ==
    ASSUME SyncAlone, Settled, Tidy, [Next]_vars
    PROVE  Tidy'
<1>1. ASSUME InBroker
      PROVE  Tidy'
  BY <1>1, PollReturnsTidy, PollTimesOutTidy, HeapBoundTidy, HeapPollsTidy, DrainTidy, AllocTidy,
     FreePollsTidy, EndsTidy, FreeTidy, ReadCallsTidy, ReadEndsTidy, BoundTidy, SkipsTidy,
     StagedTidy, NoSlotTidy, SubmitTidy, CloseFreedTidy, CloseTidy
     DEF InBroker
<1>. QED BY <1>1, TidyStutter, CallsTidy, OpenTidy, RegisterTidy, FreePollsTidy, SubmitFailsTidy,
            IsrTidy, ServesTidy, NotesTidy, DeliverTidy DEF Next

LEMMA TidyBegins ==
    ASSUME Init
    PROVE  Tidy
<1>1. /\ g = [Idle EXCEPT !.pc = "boot"] /\ allocs = {} /\ loading = FALSE /\ staging = NoBlock
      /\ pend = [i \in 1 .. MaxPending |-> NoBlock] /\ count = 0 /\ orphans = {}
      /\ slots = [s \in Slots |-> None] /\ rx = None /\ reqs = {} /\ iopq = <<>> /\ heap = {}
  BY DEF Init
<1>2. /\ g.pc = "boot" /\ g.op = "none" /\ g.ret = "idle" /\ g.blk = NoBlock
  BY <1>1 DEF Idle
<1>3. Coming = {} /\ Way = {}
  BY <1>1 DEF Coming, Way
<1>4. KindsOK
  BY <1>1, <1>3 DEF KindsOK
<1>5. RoutesOK
  BY <1>1, <1>2 DEF RoutesOK
<1>6. ~Lost
  BY <1>1 DEF Lost
<1>7. PendingBlocks = {} /\ StagingBlock = {} /\ Book = {}
  BY <1>1 DEF PendingBlocks, StagingBlock, Book
<1>8. WorkOK /\ QueueOK
  BY <1>1, <1>2 DEF WorkOK, QueueOK, Busy
<1>9. HandOK /\ HeapOK /\ BookOK
  BY <1>1, <1>2, <1>7 DEF HandOK, HeapOK, BookOK, Busy
<1>10. PollOK
  BY <1>1, <1>2, <1>3 DEF PollOK
<1>. QED BY <1>4, <1>5, <1>6, <1>8, <1>9, <1>10 DEF Tidy, Books

LEMMA TidyAccounts ==
    ASSUME Settled, Tidy
    PROVE  BrokerInv
<1>1. HeapAccounts
  <2>1. SUFFICES ASSUME g = Idle, abandoned = {}
                 PROVE  /\ heap = Owned \cup orphans
                        /\ PendingBlocks \cap (allocs \cup StagingBlock) = {}
    BY DEF HeapAccounts
  <2>2. g.op = "none" /\ g.pc = "idle"
    BY <2>1, IdleFields
  <2>3. Books
    BY <2>1, <2>2 DEF Tidy, Closing
  <2>. QED BY <2>2, <2>3 DEF Books, HeapOK, BookOK, Book, Owned
<1>2. ImageKept
  <2>1. SUFFICES ASSUME abandoned = {}, NEW r \in reqs, r.kind = "load"
                 PROVE  r.blk \in heap
    BY DEF ImageKept
  <2>2. Books
    BY <2>1 DEF Tidy, Closing
  <2>3. loading /\ r.blk = staging /\ staging # NoBlock /\ g.pc \in {"idle", "boot"}
    BY <2>1, <2>2 DEF Books, WorkOK, Busy
  <2>4. staging \in Book /\ heap = Book
    BY <2>2, <2>3 DEF Books, HeapOK, Book, StagingBlock
  <2>. QED BY <2>3, <2>4
<1>. QED BY <1>1, <1>2 DEF BrokerInv, Settled, Shapes, GuestsOK, NoDeadCallback

(***************************************************************************)
(* For a guest that polls only while nothing is in flight: every block of  *)
(* the IOP heap is the guest's, queued to be freed, the image being loaded *)
(* or one that open() or close() dropped, none of them twice; and the      *)
(* image of a module stays allocated until LOADFILE has answered           *)
(* (broker_iop_alloc, broker_load_module_buffer, broker_complete,          *)
(* pending_free_push, pending_free_drain, broker_close).  Both are said    *)
(* until an operation is dropped or a read gives up; that the interrupt    *)
(* calls no guest that is gone holds without this.                         *)
(***************************************************************************)
THEOREM BooksKept == SyncAlone => (Spec => []BrokerInv)
<1>. SUFFICES ASSUME SyncAlone PROVE Spec => []BrokerInv
  OBVIOUS
<1>1. Settled /\ Tidy /\ [Next]_vars => (Settled /\ Tidy)'
  BY SettledStep, TidyStep
<1>2. Init => Settled /\ Tidy
  BY SettledBegins, TidyBegins
<1>3. Settled /\ Tidy => BrokerInv
  BY TidyAccounts
<1>. QED BY <1>1, <1>2, <1>3, PTL DEF Spec
=============================================================================
