---------------------------- MODULE SmapRingProofs ----------------------------
(***************************************************************************)
(* Proofs about SmapRing, for rings of any size, any number of frames and  *)
(* any number of remote calls that fail.                                   *)
(***************************************************************************)
EXTENDS SmapRing, SequenceTheorems, FiniteSetTheorems, NaturalsInduction,
        WellFoundedInduction, TLAPS

Places == {"boot", "poll", "failed", "loop", "release", "batch", "single", "wait"}
Lists  == Seq(Entries) \cup Seq(Submits)
Calls  == [at : {"none", "release", "submit", "done"}, entries : Lists,
           rc : {"ok", "refused", "failed"}]
Pumps  == [at : {"sleep", "tx", "stall", "rx", "head"}, slot : TxSlot, dirty : BOOLEAN,
           progress : BOOLEAN, waiting : BOOLEAN]
Chips  == [rx : Seq(AllKinds), next : 1 .. MaxRx + 1, tx : Seq(Nat), used : 0 .. Fifo,
           error : BOOLEAN]

(* The shapes of all variables.                                            *)
Shapes ==
    /\ irx \in {"absent", "starting", "resident", "registered"} /\ ready \in BOOLEAN
    /\ ee \in [at : Places, i : Nat, frame : Nat, then : Places]
    /\ rxTail \in Nat /\ nextSlot \in TxSlot
    /\ rel \in Seq(Entries) /\ sub \in Seq(Submits) /\ eeSeq \in [TxSlot -> Nat]
    /\ rpc \in Calls /\ mem \in Words /\ vis \in Words
    /\ rxSeq \in [RxSlot -> Nat] /\ txSeq \in [TxSlot -> Nat]
    /\ txData \in [TxSlot -> 0 .. MaxTx] /\ pump \in Pumps /\ stall \in 0 .. StallLimit - 1
    /\ chip \in Chips /\ Len(chip.tx) <= chip.used
    /\ faults \in Nat /\ read \in Seq(Nat)
    /\ staged \in SUBSET Nat /\ wire \in SUBSET Nat /\ dropped \in SUBSET Nat

(* The ready word of a previous loader's module does not outlive the       *)
(* reset.                                                                  *)
BootOK ==
    /\ ee.at = "boot" => irx = "absent"
    /\ ee.at # "boot" /\ ready => irx = "registered"
    /\ BindsRegistered

(* The remote call under way is the one the EE waits for.                  *)
CallOK ==
    /\ rpc.at = "release" => ee.at = "release"
    /\ rpc.at = "submit" => ee.at \in {"batch", "single"}
    /\ ee.at = "release" => rpc.at # "none" /\ rpc.entries = rel /\ ee.then = "loop"
    /\ ee.at \in {"batch", "single"} =>
          /\ rpc.at # "none" /\ sub # << >> /\ rpc.entries \in Seq(Submits)
          /\ Range(rpc.entries) \subseteq Range(sub) /\ ee.then \in {"loop", "wait"}
    /\ ee.at = "batch" => rpc.entries = sub
    /\ ee.at = "single" => ee.i \in 1 .. Len(sub)
    /\ ee.at \notin {"release", "batch", "single"} => rpc.at = "none"
    /\ Len(rel) <= Watermark /\ (ee.at # "release" => Len(rel) < Watermark)
    /\ Len(sub) <= Batch /\ (ee.at \notin {"batch", "single"} => Len(sub) < Batch)

(* A frame is being copied into the slot at rx_head, or none.              *)
Filled == IF pump.at = "head" THEN mem.head + 1 ELSE mem.head
Pending == IF chip.rx = << >> \/ Head(chip.rx) = "error" THEN 0 ELSE 1

ArrivalsOK ==
    /\ Len(chip.rx) <= 1 /\ mem.head + Pending < chip.next
    /\ pump.at = "head" => Pending = 1

(* The slots between rx_tail_iop_view and rx_head hold the frames of those *)
(* numbers, with the numbers the slots have had last; what the EE sees of  *)
(* them, as far as it has not read it, is no different.                    *)
Holds(words, n) ==
    /\ words.ring[RxSlotOf(n)].frame = n + 1
    /\ words.ring[RxSlotOf(n)].seq = rxSeq[RxSlotOf(n)]

RxOK ==
    /\ mem.tail <= rxTail /\ rxTail <= vis.head /\ vis.head <= mem.head
    /\ Filled - mem.tail < RxSlots
    /\ \A n \in mem.tail .. Filled - 1 : Holds(mem, n)
    /\ \A n \in rxTail .. vis.head - 1 : Holds(vis, n)
    /\ \A s \in RxSlot : rxSeq[s] <= Filled
    /\ Len(read) = rxTail /\ \A i \in 1 .. rxTail : read[i] = i

(* What is staged for release are the last frames read, and their slots    *)
(* have not been filled again, until the IOP has answered.                 *)
Released == ee.at = "release" /\ rpc.at = "done"
Gone == rxTail - mem.tail - (IF Released THEN 0 ELSE Len(rel))

RelOK ==
    /\ ~Released =>
          /\ mem.tail + Len(rel) <= rxTail
          /\ \A i \in 1 .. Len(rel) :
                LET s == RxSlotOf(rxTail - Len(rel) + i - 1)
                IN  rel[i].slot = s /\ rel[i].seq = rxSeq[s]
    /\ Gone <= Watermark * faults

(* The frames accepted so far are numbered without gaps, and one more is   *)
(* wanted while ps2_smap_send waits for a slot.                            *)
Waiting == ee.at = "wait" \/ (ee.at \in {"batch", "single"} /\ ee.then = "wait")
StagedOK ==
    /\ IsFiniteSet(staged) /\ staged = 1 .. Cardinality(staged)
    /\ Cardinality(staged) <= MaxTx /\ (Waiting => Cardinality(staged) < MaxTx)

Out == wire \cup Range(chip.tx)

(* A staged submission the IOP has not taken (its slot's number says so)   *)
(* is in a free slot, and nowhere else.                                    *)
SubOK(e) ==
    /\ eeSeq[e.slot] = e.seq + 1 /\ txData[e.slot] = e.frame /\ e.frame \in staged
    /\ txSeq[e.slot] <= e.seq => mem.tx[e.slot] = "FREE" /\ e.frame \notin Out

Live == Busy \cup Claimed

TxOK ==
    /\ Out \subseteq staged
    /\ \A s \in TxSlot : vis.tx[s] = "FREE" => mem.tx[s] = "FREE"
    /\ \A s \in TxSlot : txSeq[s] <= eeSeq[s]
    /\ \A i \in 1 .. Len(sub) : SubOK(sub[i])
    /\ \A i, j \in 1 .. Len(sub) : sub[i].slot = sub[j].slot => i = j
    /\ \A s, t \in Live : txData[s] = txData[t] => s = t
    /\ \A s \in Busy : txData[s] \in staged \ Out

(* As long as no call has failed, the slots' numbers agree on both sides   *)
(* but for the submissions under way, and no submission is refused.        *)
Taken == ee.at = "batch" /\ rpc.at = "done"
Handed == Out \cup {txData[s] : s \in Busy} \cup dropped
Frames == {sub[i].frame : i \in DOMAIN sub}

CalmOK ==
    faults = 0 =>
        /\ ee.at # "single" /\ rpc.rc = "ok"
        /\ \A s \in TxSlot \ Claimed : txSeq[s] = eeSeq[s]
        /\ ~Taken => \A i \in 1 .. Len(sub) : txSeq[sub[i].slot] = sub[i].seq
        /\ Taken => /\ Frames \subseteq Handed
                    /\ \A i \in 1 .. Len(sub) : txSeq[sub[i].slot] = eeSeq[sub[i].slot]
        /\ staged = Handed \cup Frames

InStep == Shapes /\ BootOK /\ CallOK /\ ArrivalsOK /\ RxOK /\ RelOK /\ StagedOK /\ TxOK /\ CalmOK

-----------------------------------------------------------------------------
(* Arithmetic of the receive ring                                          *)

LEMMA Consts ==
    /\ RxSlots \in Nat \ {0, 1} /\ TxSlots \in Nat \ {0} /\ Watermark \in Nat \ {0}
    /\ Batch \in Nat \ {0} /\ Fifo \in Nat \ {0} /\ StallLimit \in Nat \ {0}
    /\ MaxRx \in Nat /\ MaxTx \in Nat /\ MaxFaults \in Nat
    /\ Kinds \subseteq AllKinds
BY SmapAssumption

LEMMA Division ==
    \A n \in Nat \ {0} : \A a \in Nat :
        /\ a = n * (a \div n) + (a % n)
        /\ a \div n \in Int /\ a % n \in 0 .. n - 1
OBVIOUS

LEMMA Multiple ==
    \A n \in Nat \ {0}, d \in Int :
        /\ n * d \in Int /\ (d >= 1 => n * d >= n) /\ (d <= 0 => n * d <= 0)
        /\ d <= -1 => n * d <= -n
OBVIOUS

\* Numbers that are less than n apart have different remainders.
LEMMA Remainders ==
    ASSUME NEW n \in Nat \ {0}, NEW a \in Nat, NEW b \in Nat, a < b, b - a < n
    PROVE  a % n # b % n
<1>1. a = n * (a \div n) + (a % n) /\ a \div n \in Int /\ a % n \in 0 .. n - 1
  BY Division
<1>2. b = n * (b \div n) + (b % n) /\ b \div n \in Int /\ b % n \in 0 .. n - 1
  BY Division
<1>. DEFINE x == n * (b \div n)
            y == n * (a \div n)
            r == a % n
            t == b % n
            d == (b \div n) - (a \div n)
            z == n * d
<1>3. z = x - y /\ d \in Int /\ x \in Int /\ y \in Int
  BY <1>1, <1>2
<1>4. z \in Int /\ (d >= 1 => z >= n) /\ (d <= 0 => z <= 0)
  BY <1>3, Multiple
<1>5. a = y + r /\ b = x + t /\ r \in Int
  BY <1>1, <1>2
<1>6. r # t
  <2>. HIDE DEF x, y, z, r, t, d
  <2>. QED BY <1>3, <1>4, <1>5
<1>. QED BY <1>6 DEF r, t

LEMMA OnceAround ==
    ASSUME NEW n \in Nat \ {0}, NEW a \in Nat
    PROVE  (a + n) % n = a % n
<1>1. SUFFICES ASSUME NEW b \in Nat, b = a + n PROVE b % n = a % n
  OBVIOUS
<1>2. a = n * (a \div n) + (a % n) /\ a \div n \in Int /\ a % n \in 0 .. n - 1
  BY Division
<1>3. b = n * (b \div n) + (b % n) /\ b \div n \in Int /\ b % n \in 0 .. n - 1
  BY Division
<1>. DEFINE x == n * (b \div n)
            y == n * (a \div n)
            r == a % n
            t == b % n
            d == (b \div n) - (a \div n) - 1
            z == n * d
<1>4. z = x - y - n /\ d \in Int /\ x \in Int /\ y \in Int
  BY <1>2, <1>3
<1>5. /\ z \in Int /\ (d >= 1 => z >= n) /\ (d <= -1 => z <= -n)
      /\ d = 0 => z = 0
  BY <1>4, Multiple
<1>6. a = y + r /\ b = x + t /\ r \in 0 .. n - 1 /\ t \in 0 .. n - 1
  BY <1>2, <1>3
<1>7. r = t
  <2>. HIDE DEF x, y, z, r, t, d
  <2>. QED BY <1>1, <1>4, <1>5, <1>6
<1>. QED BY <1>7 DEF r, t

LEMMA SlotType ==
    ASSUME NEW n \in Nat
    PROVE  RxSlotOf(n) \in RxSlot
BY Consts, Division DEF RxSlotOf, RxSlot

LEMMA SlotApart ==
    ASSUME NEW a \in Nat, NEW b \in Nat, a # b, a - b < RxSlots, b - a < RxSlots
    PROVE  RxSlotOf(a) # RxSlotOf(b)
<1>1. CASE a < b
  BY <1>1, Consts, Remainders DEF RxSlotOf
<1>2. CASE b < a
  <2>1. b % RxSlots # a % RxSlots
    BY <1>2, Consts, Remainders
  <2>. QED BY <2>1 DEF RxSlotOf
<1>. QED BY <1>1, <1>2

LEMMA RoomLeft ==
    ASSUME Shapes, mem.tail <= mem.head, mem.head - mem.tail < RxSlots, ~RingFull
    PROVE  mem.head + 1 - mem.tail < RxSlots
<1>1. mem.head \in Nat /\ mem.tail \in Nat
  BY Consts DEF Shapes, Words
<1>2. SUFFICES ASSUME mem.head = mem.tail + (RxSlots - 1) PROVE FALSE
  BY <1>1, Consts
<1>3. mem.head + 1 = mem.tail + RxSlots
  BY <1>1, <1>2, Consts
<1>4. (mem.head + 1) % RxSlots = mem.tail % RxSlots
  BY <1>1, <1>3, OnceAround, Consts
<1>. QED BY <1>1, <1>2, <1>4, Consts DEF RingFull

\* tx_scan_free_slot finds one.
LEMMA ScannedFree ==
    ASSUME Shapes, FreeSlots # {}
    PROVE  Scanned \in FreeSlots /\ Scanned \in TxSlot
<1>1. \A n \in Nat \ {0} : \A x \in Int : x % n \in Nat
  OBVIOUS
<1>2. nextSlot \in Int /\ \A s \in FreeSlots : s \in Int
  BY Consts DEF Shapes, TxSlot, FreeSlots
<1>. DEFINE Off(s) == (s - nextSlot) % TxSlots
            Offs   == {Off(s) : s \in FreeSlots}
<1>3. \A s \in FreeSlots : Off(s) \in Nat
  BY <1>1, <1>2, Consts
<1>4. Offs \in SUBSET Nat /\ Offs # {}
  BY <1>3
<1>5. PICK m \in Offs : \A y \in Offs : ~ <<y, m>> \in OpToRel(<, Nat)
  <2>. HIDE DEF Offs
  <2>. QED BY <1>4, NatLessThanWellFounded, WFMin
<1>6. \A y \in Offs : ~(y < m)
  <2>. HIDE DEF Offs
  <2>. QED BY <1>4, <1>5 DEF OpToRel
<1>7. \A y \in Offs : m <= y
  <2>. HIDE DEF Offs
  <2>. QED BY <1>4, <1>6
<1>8. PICK s \in FreeSlots : m = Off(s)
  OBVIOUS
<1>9. \A t \in FreeSlots : Off(s) <= Off(t)
  BY <1>7, <1>8
<1>. QED BY <1>9 DEF Scanned, FreeSlots

-----------------------------------------------------------------------------
(* The shapes                                                              *)

LEMMA CallTypes ==
    ASSUME NEW fno \in {"release", "submit"}, NEW e \in Lists,
           Call(fno, e), Shapes
    PROVE  /\ rpc' \in Calls /\ rpc'.entries = e /\ rpc'.at \in {fno, "done"}
           /\ faults' \in {faults, faults + 1} /\ faults' \in Nat
           /\ faults' = faults => rpc'.at = fno /\ rpc'.rc = "ok"
           /\ rpc'.at = "done" => faults' = faults + 1
<1>1. faults \in Nat
  BY DEF Shapes
<1>2. /\ [at |-> fno, entries |-> e, rc |-> "ok"] \in Calls
      /\ [at |-> "done", entries |-> e, rc |-> "failed"] \in Calls
  BY DEF Calls
<1>3. CASE /\ rpc' = [at |-> fno, entries |-> e, rc |-> "ok"]
           /\ faults' = faults
  BY <1>1, <1>2, <1>3
<1>4. CASE /\ rpc' = [at |-> "done", entries |-> e, rc |-> "failed"]
           /\ faults' = faults + 1
  BY <1>1, <1>2, <1>4
<1>. QED BY <1>3, <1>4 DEF Call

LEMMA AtTypes ==
    ASSUME NEW w \in Places, NEW t \in Places
    PROVE  /\ At(w) \in [at : Places, i : Nat, frame : Nat, then : Places]
           /\ [At(w) EXCEPT !.then = t] \in [at : Places, i : Nat, frame : Nat, then : Places]
           /\ At(w).at = w
           /\ [At(w) EXCEPT !.then = t].at = w /\ [At(w) EXCEPT !.then = t].then = t
BY DEF At

LEMMA IdleType == Idle \in Calls /\ Idle.at = "none" /\ Idle.rc = "ok" /\ Idle.entries = << >>
BY DEF Idle, Calls, Lists

LEMMA FlushShapes ==
    ASSUME Shapes, NEW subs \in Seq(Submits), NEW t \in {"loop", "wait"}, FlushTx(subs, t)
    PROVE  /\ ee' \in [at : Places, i : Nat, frame : Nat, then : Places]
           /\ rpc' \in Calls /\ faults' \in Nat
<1>1. t \in Places /\ "batch" \in Places
  BY DEF Places
<1>2. CASE subs = << >>
  <2>1. ee' = At(t) /\ rpc' = Idle /\ faults' = faults /\ faults \in Nat
    BY <1>2 DEF FlushTx, Shapes
  <2>. QED BY <1>1, <2>1, AtTypes, IdleType
<1>3. CASE subs # << >>
  <2>1. Call("submit", subs) /\ ee' = [At("batch") EXCEPT !.then = t]
    BY <1>3 DEF FlushTx
  <2>. QED BY <1>1, <2>1, AtTypes, CallTypes DEF Lists
<1>. QED BY <1>2, <1>3

LEMMA ReleaseShapes ==
    ASSUME Shapes, NEW rels \in Seq(Entries), ReleasePending(rels)
    PROVE  /\ ee' \in [at : Places, i : Nat, frame : Nat, then : Places]
           /\ rpc' \in Calls /\ faults' \in Nat
<1>1. "loop" \in Places /\ "release" \in Places
  BY DEF Places
<1>2. CASE rels = << >>
  BY <1>2, FlushShapes DEF ReleasePending, Shapes
<1>3. CASE rels # << >>
  <2>1. Call("release", rels) /\ ee' = [At("release") EXCEPT !.then = "loop"]
    BY <1>3 DEF ReleasePending
  <2>. QED BY <1>1, <2>1, AtTypes, CallTypes DEF Lists
<1>. QED BY <1>2, <1>3

LEMMA AnswerTypes ==
    ASSUME Shapes, NEW r \in {"ok", "refused"}, Answer(r)
    PROVE  /\ rpc' \in Calls /\ rpc'.at = "done" /\ rpc'.entries = rpc.entries
           /\ faults' \in {faults, faults + 1} /\ faults' \in Nat
           /\ faults' = faults => rpc'.rc = r
<1>. DEFINE p == [rpc EXCEPT !.at = "done", !.rc = r]
            q == [rpc EXCEPT !.at = "done", !.rc = "failed"]
<1>1. faults \in Nat /\ rpc \in Calls
  BY DEF Shapes
<1>2. p \in Calls /\ p.entries = rpc.entries /\ p.at = "done" /\ p.rc = r
  BY <1>1 DEF Calls
<1>3. q \in Calls /\ q.entries = rpc.entries /\ q.at = "done"
  BY <1>1 DEF Calls
<1>4. \/ rpc' = p /\ faults' = faults
      \/ rpc' = q /\ faults' = faults + 1
  BY DEF Answer
<1>. HIDE DEF p, q
<1>. QED BY <1>1, <1>2, <1>3, <1>4

-----------------------------------------------------------------------------
(* What a step leaves alone                                                *)

LEMMA Numbers ==
    ASSUME Shapes
    PROVE  /\ mem.head \in Nat /\ mem.tail \in Nat /\ vis.head \in Nat /\ rxTail \in Nat
           /\ rxSeq \in [RxSlot -> Nat] /\ Filled \in Nat /\ RxSlots \in Nat /\ Len(rel) \in Nat
<1>1. mem \in Words /\ vis \in Words /\ rxTail \in Nat /\ rxSeq \in [RxSlot -> Nat]
      /\ rel \in Seq(Entries)
  BY DEF Shapes
<1>2. mem.head \in Nat /\ mem.tail \in Nat /\ vis.head \in Nat
  BY <1>1, Consts DEF Words
<1>. QED BY <1>1, <1>2, Consts DEF Filled

LEMMA ArrivalsSame ==
    ASSUME ArrivalsOK, UNCHANGED <<chip, mem>>, pump'.at = "head" => pump.at = "head"
    PROVE  ArrivalsOK'
BY DEF ArrivalsOK, Pending

LEMMA RxSame ==
    ASSUME RxOK, UNCHANGED <<mem.head, mem.tail, mem.ring, vis.head, vis.ring, rxTail, rxSeq, read>>,
           pump'.at = "head" <=> pump.at = "head"
    PROVE  RxOK'
BY DEF RxOK, Filled, Holds

\* Every failed call adds a batch to what may be lost.
LEMMA MoreFaults ==
    ASSUME Shapes, faults' \in {faults, faults + 1}
    PROVE  /\ faults \in Nat /\ faults' \in Nat /\ Watermark * faults \in Nat
           /\ Watermark * faults' \in Nat /\ Watermark * faults <= Watermark * faults'
           /\ faults' = faults + 1 => Watermark * faults' = Watermark * faults + Watermark
<1>1. faults \in Nat /\ Watermark \in Nat
  BY Consts DEF Shapes
<1>. DEFINE P(f) == Watermark * f
<1>2. P(faults) \in Nat /\ P(faults + 1) = P(faults) + Watermark
  BY <1>1
<1>3. faults' = faults \/ faults' = faults + 1
  OBVIOUS
<1>4. P(faults') = P(faults) \/ (faults' = faults + 1 /\ P(faults') = P(faults) + Watermark)
  BY <1>2, <1>3
<1>. HIDE DEF P
<1>5. /\ faults' \in Nat /\ P(faults') \in Nat /\ P(faults) <= P(faults')
      /\ faults' = faults + 1 => P(faults') = P(faults) + Watermark
  BY <1>1, <1>2, <1>3, <1>4
<1>. QED BY <1>1, <1>2, <1>5 DEF P

LEMMA RelSame ==
    ASSUME Shapes, RelOK, UNCHANGED <<mem.tail, rxTail, rel, rxSeq>>,
           Released' = Released, faults' \in {faults, faults + 1}
    PROVE  RelOK'
<1>1. Gone' = Gone /\ Gone \in Int
  BY DEF Gone, Shapes, Words
<1>2. Gone' <= Watermark * faults'
  BY <1>1, MoreFaults DEF RelOK
<1>. QED BY <1>2 DEF RelOK

LEMMA StagedSame ==
    ASSUME StagedOK, staged' = staged, Waiting' => Waiting
    PROVE  StagedOK'
BY DEF StagedOK

LEMMA TxSame ==
    ASSUME TxOK, UNCHANGED <<mem.tx, vis.tx, txSeq, eeSeq, txData, sub, wire, staged, chip.tx>>
    PROVE  TxOK'
<1>1. Out' = Out /\ Busy' = Busy /\ Live' = Live
  BY DEF Out, Busy, Live, Claimed
<1>2. ASSUME NEW i \in 1 .. Len(sub) PROVE SubOK(sub[i])'
  BY <1>1 DEF TxOK, SubOK
<1>. QED BY <1>1, <1>2 DEF TxOK

\* The EE sees the IOP's words as they are, when slots may have been released.
LEMMA RxSees ==
    ASSUME Shapes, RxOK, vis'.head = mem.head, vis'.ring = mem.ring,
           UNCHANGED <<mem.head, mem.ring, rxTail, rxSeq, read>>,
           mem'.tail \in mem.tail .. rxTail, pump'.at = "head" <=> pump.at = "head"
    PROVE  RxOK'
<1>1. /\ mem.head \in Nat /\ mem.tail \in Nat /\ rxTail \in Nat /\ Filled \in Nat
      /\ vis.head \in Nat /\ mem.head <= Filled /\ RxSlots \in Nat
  BY Numbers DEF Filled
<1>2. /\ mem.tail <= rxTail /\ rxTail <= mem.head /\ Filled - mem.tail < RxSlots
      /\ mem.tail <= mem'.tail /\ mem'.tail <= rxTail /\ mem'.tail \in Nat
  BY <1>1 DEF RxOK
<1>3. Filled' = Filled
  BY DEF Filled
<1>4. ASSUME NEW n \in mem.tail .. Filled - 1 PROVE Holds(mem, n)' /\ Holds(vis, n)'
  BY DEF RxOK, Holds
<1>5. /\ \A n \in mem'.tail .. Filled' - 1 : Holds(mem, n)'
      /\ \A n \in rxTail' .. vis'.head - 1 : Holds(vis, n)'
  BY <1>1, <1>2, <1>3, <1>4
<1>6. /\ mem'.tail <= rxTail' /\ rxTail' <= vis'.head /\ vis'.head <= mem'.head
      /\ Filled' - mem'.tail < RxSlots
  BY <1>1, <1>2, <1>3
<1>7. /\ \A s \in RxSlot : rxSeq'[s] <= Filled'
      /\ Len(read') = rxTail' /\ \A i \in 1 .. rxTail' : read'[i] = i
  BY <1>3 DEF RxOK
<1>. QED BY <1>5, <1>6, <1>7 DEF RxOK

LEMMA TxSees ==
    ASSUME TxOK, vis'.tx = mem.tx,
           UNCHANGED <<mem.tx, txSeq, eeSeq, txData, sub, wire, staged, chip.tx>>
    PROVE  TxOK'
<1>1. Out' = Out /\ Busy' = Busy /\ Live' = Live
  BY DEF Out, Busy, Live, Claimed
<1>2. ASSUME NEW i \in 1 .. Len(sub) PROVE SubOK(sub[i])'
  BY <1>1 DEF TxOK, SubOK
<1>. QED BY <1>1, <1>2 DEF TxOK

\* The EE sees the words as they are, or goes on seeing what it saw.
LEMMA Flushes ==
    ASSUME Shapes, RxOK, TxOK, vis' = mem \/ vis' = vis,
           UNCHANGED <<mem, rxTail, rxSeq, read, txSeq, eeSeq, txData, sub, wire, staged, chip.tx>>,
           pump'.at = "head" <=> pump.at = "head"
    PROVE  RxOK' /\ TxOK'
<1>1. CASE vis' = vis
  BY <1>1, RxSame, TxSame
<1>2. CASE vis' = mem
  <2>1. mem'.tail \in mem.tail .. rxTail
    BY Numbers DEF RxOK
  <2>. QED BY <1>2, <2>1, RxSees, TxSees
<1>. QED BY <1>1, <1>2

\* Frames move on from the slots to the chip, the network or nowhere.
LEMMA TxDrains ==
    ASSUME Shapes, TxOK, UNCHANGED <<vis.tx, txSeq, eeSeq, txData, sub, staged>>,
           \A s \in TxSlot : mem.tx[s] = "FREE" => mem'.tx[s] = "FREE",
           Busy' \subseteq Busy, Out' \subseteq Out \cup {txData[s] : s \in Busy \ Busy'}
    PROVE  TxOK'
<1>1. Claimed' = Claimed /\ Live' \subseteq Live
  BY DEF Claimed, Live
<1>2. \A s \in Busy \ Busy' : txData[s] \in staged
  BY DEF TxOK
<1>3. ASSUME NEW i \in 1 .. Len(sub) PROVE SubOK(sub[i])'
  <2>. DEFINE e == sub[i]
  <2>1. /\ SubOK(e) /\ e \in Submits /\ e.slot \in TxSlot /\ e.slot \in Claimed
        /\ e' = e
    <3>1. sub \in Seq(Submits) /\ sub' = sub
      BY DEF Shapes
    <3>2. e \in Submits
      BY <3>1
    <3>3. e.slot \in TxSlot
      BY <3>2 DEF Submits
    <3>4. e.slot \in Claimed
      BY <3>1 DEF Claimed
    <3>. QED BY <3>1, <3>2, <3>3, <3>4 DEF TxOK
  <2>2. ASSUME txSeq[e.slot] <= e.seq PROVE e.frame \notin Out'
    <3>1. mem.tx[e.slot] = "FREE" /\ e.frame \notin Out /\ txData[e.slot] = e.frame
      BY <2>1, <2>2 DEF SubOK
    <3>2. ASSUME NEW s \in Busy PROVE txData[s] # e.frame
      BY <2>1, <3>1 DEF TxOK, Live, Busy
    <3>. QED BY <3>1, <3>2
  <2>3. mem'.tx[e.slot] = "FREE" \/ ~(txSeq[e.slot] <= e.seq)
    BY <2>1 DEF SubOK
  <2>4. /\ eeSeq[e.slot] = e.seq + 1 /\ txData[e.slot] = e.frame /\ e.frame \in staged
    BY <2>1 DEF SubOK
  <2>5. SubOK(e)'
    <3>. HIDE DEF e
    <3>. QED BY <2>1, <2>2, <2>3, <2>4 DEF SubOK
  <2>. QED BY <2>5
<1>4. ASSUME NEW s \in Busy' PROVE txData[s] \in staged \ Out'
  <2>1. s \in Busy /\ txData[s] \in staged \ Out
    BY DEF TxOK
  <2>2. \A t \in Busy \ Busy' : txData[t] # txData[s]
    BY <2>1 DEF TxOK, Live
  <2>. QED BY <2>1, <2>2
<1>5. Out' \subseteq staged'
  BY <1>2 DEF TxOK
<1>6. \A s, t \in Live' : txData'[s] = txData'[t] => s = t
  BY <1>1 DEF TxOK
<1>7. /\ \A s \in TxSlot : vis'.tx[s] = "FREE" => mem'.tx[s] = "FREE"
      /\ \A s \in TxSlot : txSeq'[s] <= eeSeq'[s]
      /\ \A i, j \in 1 .. Len(sub') : sub'[i].slot = sub'[j].slot => i = j
  BY DEF TxOK
<1>. QED BY <1>3, <1>4, <1>5, <1>6, <1>7 DEF TxOK

LEMMA CalmDrains ==
    ASSUME Shapes, CalmOK, UNCHANGED <<txSeq, eeSeq, sub, staged>>, Handed' = Handed,
           faults' \in {faults, faults + 1}, Taken' = Taken,
           faults' = 0 /\ faults = 0 => ee'.at # "single" /\ rpc'.rc = "ok"
    PROVE  CalmOK'
<1>1. Claimed' = Claimed /\ Frames' = Frames
  BY DEF Claimed, Frames
<1>2. faults' = 0 => faults = 0
  BY DEF Shapes
<1>. QED BY <1>1, <1>2 DEF CalmOK

LEMMA CalmSame ==
    ASSUME Shapes, CalmOK,
           UNCHANGED <<mem.tx, txSeq, eeSeq, txData, sub, wire, staged, dropped, chip.tx>>,
           faults' \in {faults, faults + 1}, Taken' = Taken,
           faults' = 0 /\ faults = 0 => ee'.at # "single" /\ rpc'.rc = "ok"
    PROVE  CalmOK'
<1>1. Out' = Out /\ Busy' = Busy
  BY DEF Out, Busy
<1>2. Handed' = Handed
  BY <1>1 DEF Handed
<1>. QED BY <1>2, CalmDrains

-----------------------------------------------------------------------------
(* Coming up                                                               *)

Calling == {"release", "batch", "single"}

LEMMA Boots ==
    ASSUME InStep, Irx \/ BootLoads \/ EeBinds \/ EeGivesUp
    PROVE  InStep'
<1>1. /\ Shapes /\ BootOK /\ CallOK /\ Untouched
      /\ ee \in [at : Places, i : Nat, frame : Nat, then : Places]
  BY DEF InStep, Shapes, Irx, IrxStart, IrxRegister, IrxReady, BootLoads, EeBinds, EeGivesUp
<1>2. \/ ee' = ee
      \/ /\ ee.at \in {"boot", "poll"} /\ ee' = At(ee'.at) /\ ee'.at \in {"poll", "loop", "failed"}
  BY AtTypes DEF Irx, IrxStart, IrxRegister, IrxReady, BootLoads, EeBinds, EeGivesUp, Places
<1>3. ee' \in [at : Places, i : Nat, frame : Nat, then : Places]
  BY <1>1, <1>2, AtTypes DEF Places
<1>4. /\ irx' \in {"absent", "starting", "resident", "registered"} /\ ready' \in BOOLEAN
  BY <1>1 DEF Irx, IrxStart, IrxRegister, IrxReady, BootLoads, EeBinds, EeGivesUp, Shapes
<1>5. Shapes'
  BY <1>1, <1>3, <1>4 DEF Shapes, Untouched, eeVars, iopVars, hist
<1>6. BootOK'
  <2>1. CASE Irx
    BY <1>1, <2>1 DEF Irx, IrxStart, IrxRegister, IrxReady, BootOK, BindsRegistered, Shapes
  <2>2. CASE BootLoads
    BY <1>1, <2>2 DEF BootLoads, BootOK, BindsRegistered, At
  <2>3. CASE EeBinds \/ EeGivesUp
    BY <1>1, <2>3 DEF EeBinds, EeGivesUp, BootOK, BindsRegistered, At
  <2>. QED BY <2>1, <2>2, <2>3
<1>7. /\ ee'.at \in Calling <=> ee.at \in Calling
      /\ ee'.at \in Calling \/ ee'.at = "wait" => ee' = ee
  BY <1>2 DEF Calling
<1>8. CallOK'
  <2>1. rpc' = rpc /\ rel' = rel /\ sub' = sub
    BY <1>1 DEF Untouched, eeVars
  <2>2. CASE ee' = ee
    BY <1>1, <2>1, <2>2 DEF CallOK
  <2>3. CASE ee.at \in {"boot", "poll"} /\ ee'.at \in {"poll", "loop", "failed"}
    BY <1>1, <2>1, <2>3 DEF CallOK
  <2>. QED BY <1>2, <2>2, <2>3
<1>9. Released' = Released /\ Taken' = Taken /\ (Waiting' => Waiting)
  BY <1>1, <1>2 DEF Released, Taken, Waiting, Untouched
<1>10. ArrivalsOK' /\ RxOK'
  BY <1>1, ArrivalsSame, RxSame DEF InStep, Untouched, eeVars, iopVars, hist
<1>11. RelOK' /\ StagedOK' /\ TxOK'
  BY <1>1, <1>9, RelSame, StagedSame, TxSame DEF InStep, Untouched, eeVars, iopVars, hist
<1>12. CalmOK'
  <2>1. ee'.at = "single" => ee.at = "single"
    BY <1>2
  <2>2. faults = 0 => ee.at # "single" /\ rpc.rc = "ok"
    BY DEF InStep, CalmOK
  <2>. QED BY <1>1, <1>9, <2>1, <2>2, CalmSame DEF InStep, Untouched, eeVars, iopVars, hist
<1>. QED BY <1>5, <1>6, <1>8, <1>10, <1>11, <1>12 DEF InStep

-----------------------------------------------------------------------------
(* The pump thread                                                         *)

LEMMA PumpKeeps ==
    ASSUME InStep, IopKeeps
    PROVE  /\ BootOK' /\ CallOK' /\ StagedOK' /\ faults' \in {faults, faults + 1}
           /\ Released' = Released /\ Taken' = Taken
           /\ faults' = 0 => ee'.at # "single" /\ rpc'.rc = "ok"
           /\ mem' \in Words /\ vis' \in Words /\ rxSeq' \in [RxSlot -> Nat]
              /\ stall' \in 0 .. StallLimit - 1 /\ chip' \in Chips
              /\ Len(chip'.tx) <= chip'.used /\ dropped' \in SUBSET Nat /\ pump' \in Pumps
              => Shapes'
BY DEF InStep, IopKeeps, BootOK, BindsRegistered, CallOK, StagedOK, Waiting, Released, Taken,
       CalmOK, Shapes, eeVars

LEMMA PumpTypes ==
    ASSUME Shapes
    PROVE  /\ pump \in Pumps /\ chip \in Chips /\ mem \in Words /\ vis \in Words
           /\ pump.slot \in TxSlot /\ chip.tx \in Seq(Nat) /\ chip.rx \in Seq(AllKinds)
           /\ mem.head \in 0 .. MaxRx /\ mem.tail \in 0 .. MaxRx
           /\ chip.next \in 1 .. MaxRx + 1 /\ chip.used \in 0 .. Fifo
           /\ Len(chip.tx) \in 0 .. chip.used
           /\ MaxRx \in Nat /\ Fifo \in Nat
<1>1. /\ pump \in Pumps /\ chip \in Chips /\ mem \in Words /\ vis \in Words
      /\ Len(chip.tx) <= chip.used
  BY DEF Shapes
<1>2. chip.tx \in Seq(Nat) /\ chip.used \in 0 .. Fifo
  BY <1>1 DEF Chips
<1>3. Len(chip.tx) \in 0 .. chip.used
  BY <1>1, <1>2, Consts
<1>. QED BY <1>1, <1>2, <1>3, Consts DEF Pumps, Chips, Words

LEMMA AsleepType ==
    /\ Asleep \in Pumps /\ Asleep.at = "sleep"
    /\ [Asleep EXCEPT !.at = "tx"] \in Pumps /\ [Asleep EXCEPT !.at = "tx"].at = "tx"
<1>1. 0 \in TxSlot
  BY Consts DEF TxSlot
<1>2. Asleep \in Pumps /\ Asleep.at = "sleep"
  BY <1>1 DEF Asleep, Pumps
<1>. QED BY <1>2 DEF Pumps

LEMMA Starts ==
    ASSUME InStep, PumpStarts
    PROVE  InStep'
<1>1. Shapes /\ IopKeeps /\ UNCHANGED <<mem, vis, rxSeq, stall, dropped>>
  BY DEF InStep, PumpStarts
<1>2. pump.at = "sleep" /\ pump' \in Pumps /\ pump'.at = "tx"
  <2>1. pump.at = "sleep" /\ pump' = [Asleep EXCEPT !.at = "tx"]
    BY DEF PumpStarts
  <2>. QED BY <2>1, AsleepType
<1>3. /\ chip' \in Chips /\ chip'.used = Len(chip.tx) /\ chip'.tx = chip.tx /\ chip'.rx = chip.rx
      /\ chip'.next = chip.next
  <2>1. Len(chip.tx) \in 0 .. Fifo
    BY <1>1, PumpTypes
  <2>2. chip' = [chip EXCEPT !.used = Len(chip.tx), !.error = FALSE] /\ chip \in Chips
    BY <1>1, PumpTypes DEF PumpStarts
  <2>. QED BY <2>1, <2>2 DEF Chips
<1>4. Shapes'
  <2>1. Len(chip'.tx) <= chip'.used /\ rxSeq' \in [RxSlot -> Nat]
    BY <1>1, <1>3, PumpTypes DEF Shapes
  <2>2. stall' \in 0 .. StallLimit - 1 /\ dropped' \in SUBSET Nat
    BY <1>1 DEF Shapes
  <2>. QED BY <1>1, <1>2, <1>3, <2>1, <2>2, PumpKeeps, PumpTypes
<1>5. ArrivalsOK' /\ RxOK'
  BY <1>1, <1>2, <1>3, RxSame DEF InStep, ArrivalsOK, Pending, IopKeeps, eeVars
<1>6. RelOK' /\ TxOK' /\ CalmOK'
  BY <1>1, <1>3, PumpKeeps, RelSame, TxSame, CalmSame DEF InStep, IopKeeps, eeVars
<1>. QED BY <1>1, <1>4, <1>5, <1>6, PumpKeeps DEF InStep

LEMMA Ends ==
    ASSUME InStep, PumpEnds
    PROVE  InStep'
<1>1. Shapes /\ IopKeeps /\ UNCHANGED <<mem, rxSeq, stall, chip, dropped>>
  BY DEF InStep, PumpEnds
<1>2. pump.at = "rx" /\ pump' \in Pumps /\ pump'.at = "sleep"
  BY AsleepType DEF PumpEnds
<1>3. vis' = mem \/ vis' = vis
  BY DEF PumpEnds
<1>4. Shapes'
  BY <1>1, <1>2, <1>3, PumpKeeps, PumpTypes DEF Shapes
<1>5. ArrivalsOK'
  BY <1>1, <1>2, ArrivalsSame DEF InStep
<1>6. RxOK' /\ TxOK'
  BY <1>1, <1>2, <1>3, Flushes DEF InStep, IopKeeps, eeVars
<1>7. RelOK' /\ CalmOK'
  BY <1>1, PumpKeeps, RelSame, CalmSame DEF InStep, IopKeeps, eeVars
<1>. QED BY <1>1, <1>4, <1>5, <1>6, <1>7, PumpKeeps DEF InStep

LEMMA AfterType ==
    ASSUME NEW p \in Pumps
    PROVE  After(p) \in Pumps /\ (After(p).at = "head" => p.at = "head")
<1>1. p.slot + 1 # TxSlots => p.slot + 1 \in TxSlot
  BY Consts DEF Pumps, TxSlot
<1>. QED BY <1>1 DEF After, Pumps

LEMMA RangeAppends ==
    ASSUME NEW S, NEW q \in Seq(S), NEW x \in S
    PROVE  Range(Append(q, x)) = Range(q) \cup {x}
<1>. DEFINE r == Append(q, x)
<1>1. /\ r \in Seq(S) /\ DOMAIN r = 1 .. Len(q) + 1 /\ DOMAIN q = 1 .. Len(q)
      /\ Len(q) \in Nat /\ r[Len(q) + 1] = x /\ \A i \in 1 .. Len(q) : r[i] = q[i]
  OBVIOUS
<1>2. Range(r) = {r[i] : i \in 1 .. Len(q) + 1} /\ Range(q) = {q[i] : i \in 1 .. Len(q)}
  BY <1>1 DEF Range
<1>. HIDE DEF r
<1>3. Range(r) = Range(q) \cup {x}
  BY <1>1, <1>2
<1>. QED BY <1>3 DEF r

LEMMA Sends ==
    ASSUME InStep, PumpSends
    PROVE  InStep'
<1>. DEFINE slot == pump.slot
<1>1. /\ Shapes /\ IopKeeps /\ UNCHANGED <<vis, rxSeq, stall, dropped>> /\ pump.at = "tx"
  BY DEF InStep, PumpSends
<1>2. /\ [pump EXCEPT !.dirty = TRUE, !.progress = TRUE] \in Pumps
      /\ [pump EXCEPT !.dirty = TRUE, !.progress = TRUE].at = "tx"
      /\ [pump EXCEPT !.waiting = TRUE] \in Pumps /\ [pump EXCEPT !.waiting = TRUE].at = "tx"
      /\ pump \in Pumps
  BY <1>1, PumpTypes DEF Pumps
<1>3. pump' \in Pumps /\ pump'.at # "head" /\ pump.at # "head"
  BY <1>1, <1>2, AfterType DEF PumpSends
<1>4. CASE chip' = chip /\ mem' = mem
  <2>1. Shapes'
    BY <1>1, <1>3, <1>4, PumpKeeps, PumpTypes DEF Shapes
  <2>2. ArrivalsOK' /\ RxOK'
    BY <1>1, <1>3, <1>4, ArrivalsSame, RxSame DEF InStep, IopKeeps, eeVars
  <2>3. RelOK' /\ TxOK' /\ CalmOK'
    BY <1>1, <1>4, PumpKeeps, RelSame, TxSame, CalmSame DEF InStep, IopKeeps, eeVars
  <2>. QED BY <1>1, <2>1, <2>2, <2>3, PumpKeeps DEF InStep
<1>5. CASE /\ mem.tx[slot] = "BUSY" /\ chip.used < Fifo
           /\ chip' = [chip EXCEPT !.tx = Append(@, txData[slot]), !.used = @ + 1]
           /\ mem' = [mem EXCEPT !.tx[slot] = "FREE"]
  <2>1. slot \in TxSlot /\ txData[slot] \in Nat /\ chip \in Chips /\ mem \in Words
    BY <1>1, PumpTypes, Consts DEF Shapes
  <2>2. /\ chip'.tx = Append(chip.tx, txData[slot]) /\ chip'.used = chip.used + 1
        /\ chip'.rx = chip.rx /\ chip'.next = chip.next
    BY <1>5, <2>1 DEF Chips
  <2>3. chip' \in Chips /\ Len(chip'.tx) <= chip'.used
    <3>1. Append(chip.tx, txData[slot]) \in Seq(Nat) /\ chip.used + 1 \in 0 .. Fifo
      BY <1>1, <1>5, <2>1, PumpTypes
    <3>2. chip' \in Chips
      BY <1>5, <2>1, <3>1 DEF Chips
    <3>3. Len(chip'.tx) = Len(chip.tx) + 1
      BY <1>1, <2>1, <2>2, PumpTypes
    <3>. QED BY <1>1, <2>2, <3>2, <3>3, PumpTypes
  <2>4. /\ mem' \in Words /\ mem'.head = mem.head /\ mem'.tail = mem.tail /\ mem'.ring = mem.ring
        /\ mem'.tx = [mem.tx EXCEPT ![slot] = "FREE"]
    BY <1>5, <2>1 DEF Words
  <2>5. mem.tx \in [TxSlot -> {"FREE", "BUSY"}]
    BY <2>1 DEF Words
  <2>6. Busy' = Busy \ {slot} /\ slot \in Busy
    BY <1>5, <2>1, <2>4, <2>5 DEF Busy
  <2>7. Out' = Out \cup {txData[slot]}
    <3>1. Range(chip'.tx) = Range(chip.tx) \cup {txData[slot]}
      <4>1. chip.tx \in Seq(Nat)
        BY <1>1, PumpTypes
      <4>. QED BY <2>1, <2>2, <4>1, RangeAppends
    <3>. QED BY <1>1, <3>1 DEF Out, IopKeeps
  <2>8. Shapes'
    BY <1>1, <1>3, <2>3, <2>4, PumpKeeps, PumpTypes DEF Shapes
  <2>9. ArrivalsOK' /\ RxOK'
    BY <1>1, <1>3, <2>2, <2>4, RxSame DEF InStep, ArrivalsOK, Pending, IopKeeps, eeVars
  <2>10. TxOK'
    <3>1. \A s \in TxSlot : mem.tx[s] = "FREE" => mem'.tx[s] = "FREE"
      BY <2>1, <2>4, <2>5
    <3>2. Out' \subseteq Out \cup {txData[s] : s \in Busy \ Busy'}
      BY <2>6, <2>7
    <3>. QED BY <1>1, <2>6, <3>1, <3>2, TxDrains DEF InStep, IopKeeps, eeVars
  <2>11. Handed' = Handed
    BY <1>1, <2>6, <2>7 DEF Handed, IopKeeps
  <2>12. RelOK' /\ CalmOK'
    BY <1>1, <2>4, <2>11, PumpKeeps, RelSame, CalmDrains DEF InStep, IopKeeps, eeVars
  <2>. QED BY <1>1, <2>8, <2>9, <2>10, <2>12, PumpKeeps DEF InStep
<1>. QED BY <1>4, <1>5 DEF PumpSends

LEMMA Counts ==
    ASSUME InStep, PumpCounts
    PROVE  InStep'
<1>1. /\ Shapes /\ IopKeeps /\ UNCHANGED <<vis, rxSeq, chip>> /\ pump.at = "stall"
  BY DEF InStep, PumpCounts
<1>2. /\ [pump EXCEPT !.at = "rx"] \in Pumps /\ [pump EXCEPT !.at = "rx"].at = "rx"
      /\ [pump EXCEPT !.at = "rx", !.dirty = TRUE] \in Pumps
      /\ [pump EXCEPT !.at = "rx", !.dirty = TRUE].at = "rx"
  BY <1>1, PumpTypes DEF Pumps
<1>3. pump' \in Pumps /\ pump'.at = "rx"
  BY <1>2 DEF PumpCounts
<1>4. stall' \in 0 .. StallLimit - 1
  <2>1. stall \in Nat
    BY <1>1, Consts DEF Shapes
  <2>2. stall' = 0 \/ (stall' = stall + 1 /\ stall + 1 < StallLimit)
    BY DEF PumpCounts
  <2>. QED BY <2>1, <2>2, Consts
<1>5. CASE mem' = mem /\ dropped' = dropped
  <2>1. Shapes'
    BY <1>1, <1>3, <1>4, <1>5, PumpKeeps, PumpTypes DEF Shapes
  <2>2. ArrivalsOK' /\ RxOK'
    BY <1>1, <1>3, <1>5, ArrivalsSame, RxSame DEF InStep, IopKeeps, eeVars
  <2>3. RelOK' /\ TxOK' /\ CalmOK'
    BY <1>1, <1>5, PumpKeeps, RelSame, TxSame, CalmSame DEF InStep, IopKeeps, eeVars
  <2>. QED BY <1>1, <2>1, <2>2, <2>3, PumpKeeps DEF InStep
<1>6. CASE /\ mem' = [mem EXCEPT !.tx = [s \in TxSlot |-> "FREE"]]
           /\ dropped' = dropped \cup {txData[s] : s \in Busy}
  <2>1. mem \in Words /\ txData \in [TxSlot -> Nat] /\ dropped \in SUBSET Nat
    BY <1>1, Consts DEF Shapes
  <2>2. /\ mem' \in Words /\ mem'.head = mem.head /\ mem'.tail = mem.tail /\ mem'.ring = mem.ring
        /\ mem'.tx = [s \in TxSlot |-> "FREE"]
    BY <1>6, <2>1 DEF Words
  <2>3. Busy' = {}
    BY <2>2 DEF Busy
  <2>4. dropped' \in SUBSET Nat
    BY <1>6, <2>1 DEF Busy
  <2>5. Shapes'
    <3>1. Len(chip'.tx) <= chip'.used /\ chip' \in Chips /\ vis' \in Words
          /\ rxSeq' \in [RxSlot -> Nat]
      BY <1>1 DEF Shapes
    <3>. QED BY <1>1, <1>3, <1>4, <2>2, <2>4, <3>1, PumpKeeps
  <2>6. ArrivalsOK' /\ RxOK'
    BY <1>1, <1>3, <2>2, RxSame DEF InStep, ArrivalsOK, Pending, IopKeeps, eeVars
  <2>7. Out' = Out
    BY <1>1 DEF Out, IopKeeps
  <2>8. TxOK'
    <3>1. \A s \in TxSlot : mem.tx[s] = "FREE" => mem'.tx[s] = "FREE"
      BY <2>2
    <3>. QED BY <1>1, <2>3, <2>7, <3>1, TxDrains DEF InStep, IopKeeps, eeVars
  <2>9. Handed' = Handed
    BY <1>1, <1>6, <2>3, <2>7 DEF Handed, IopKeeps
  <2>10. RelOK' /\ CalmOK'
    BY <1>1, <2>2, <2>9, PumpKeeps, RelSame, CalmDrains DEF InStep, IopKeeps, eeVars
  <2>. QED BY <1>1, <2>5, <2>6, <2>8, <2>10, PumpKeeps DEF InStep
<1>. QED BY <1>5, <1>6 DEF PumpCounts

\* A frame in the ring is in no slot the pump may fill next.
LEMMA OwnSlot ==
    ASSUME Shapes, RxOK, ~RingFull, NEW n \in mem.tail .. mem.head - 1
    PROVE  RxSlotOf(n) # RxSlotOf(mem.head) /\ RxSlotOf(n) \in RxSlot
<1>1. mem.head \in Nat /\ mem.tail \in Nat /\ n \in Nat /\ mem.head - n < RxSlots
      /\ n - mem.head < RxSlots /\ n # mem.head
  BY Numbers DEF RxOK, Filled
<1>. QED BY <1>1, Numbers, SlotApart, SlotType

LEMMA RxFills ==
    ASSUME Shapes, RxOK, ArrivalsOK, ~RingFull, pump.at = "rx", pump'.at = "head",
           NEW long \in BOOLEAN,
           rxSeq' = [rxSeq EXCEPT ![RxSlotOf(mem.head)] = @ + 1],
           mem' = [mem EXCEPT !.ring[RxSlotOf(mem.head)] =
                      [frame |-> mem.head + 1, long |-> long,
                       seq |-> rxSeq[RxSlotOf(mem.head)] + 1]],
           Pending = 1, UNCHANGED <<vis, rxTail, read>>
    PROVE  /\ RxOK' /\ mem' \in Words /\ rxSeq' \in [RxSlot -> Nat]
           /\ UNCHANGED <<mem.head, mem.tail, mem.tx>>
<1>. DEFINE slot == RxSlotOf(mem.head)
            r == [frame |-> mem.head + 1, long |-> long, seq |-> rxSeq[slot] + 1]
<1>1. /\ mem.head \in Nat /\ mem.tail \in Nat /\ rxTail \in Nat /\ vis.head \in Nat
      /\ mem \in Words /\ rxSeq \in [RxSlot -> Nat] /\ slot \in RxSlot
      /\ mem.tail <= rxTail /\ rxTail <= vis.head /\ vis.head <= mem.head
  BY Numbers, PumpTypes, SlotType DEF RxOK
<1>2. Filled = mem.head /\ mem.head + 1 <= MaxRx
  BY PumpTypes DEF Filled, ArrivalsOK
<1>3. rxSeq[slot] <= mem.head
  BY <1>1, <1>2 DEF RxOK
<1>4. r \in [frame : 0 .. MaxRx, long : BOOLEAN, seq : 0 .. MaxRx]
  BY <1>1, <1>2, <1>3, Consts
<1>5. /\ mem' \in Words /\ mem'.head = mem.head /\ mem'.tail = mem.tail /\ mem'.tx = mem.tx
      /\ mem'.ring = [mem.ring EXCEPT ![slot] = r]
  <2>. HIDE DEF r, slot
  <2>1. mem' = [mem EXCEPT !.ring[slot] = r]
    BY DEF r, slot
  <2>2. mem.ring \in [RxSlot -> [frame : 0 .. MaxRx, long : BOOLEAN, seq : 0 .. MaxRx]]
    BY <1>1 DEF Words
  <2>3. [mem.ring EXCEPT ![slot] = r]
          \in [RxSlot -> [frame : 0 .. MaxRx, long : BOOLEAN, seq : 0 .. MaxRx]]
    BY <1>1, <1>4, <2>2
  <2>4. mem' = [mem EXCEPT !.ring = [mem.ring EXCEPT ![slot] = r]]
    BY <2>1
  <2>. QED BY <1>1, <2>3, <2>4 DEF Words
<1>6. /\ mem'.ring[slot] = r /\ rxSeq'[slot] = rxSeq[slot] + 1
      /\ \A s \in RxSlot \ {slot} : mem'.ring[s] = mem.ring[s] /\ rxSeq'[s] = rxSeq[s]
      /\ rxSeq' \in [RxSlot -> Nat]
  <2>1. mem.ring \in [RxSlot -> [frame : 0 .. MaxRx, long : BOOLEAN, seq : 0 .. MaxRx]]
    BY <1>1 DEF Words
  <2>. HIDE DEF r, slot
  <2>2. rxSeq' = [rxSeq EXCEPT ![slot] = @ + 1]
    BY DEF slot
  <2>. QED BY <1>1, <1>5, <2>1, <2>2
<1>7. Filled' = mem.head + 1
  BY <1>5 DEF Filled
<1>8. ASSUME NEW n \in mem.tail .. mem.head - 1 PROVE Holds(mem, n)'
  <2>1. RxSlotOf(n) \in RxSlot \ {slot} /\ Holds(mem, n)
    BY <1>2, OwnSlot DEF RxOK
  <2>. QED BY <1>6, <2>1 DEF Holds
<1>9. Holds(mem, mem.head)'
  BY <1>5, <1>6 DEF Holds
<1>10. \A n \in mem.tail .. mem.head : Holds(mem, n)'
  BY <1>1, <1>8, <1>9
<1>11. ASSUME NEW n \in rxTail .. vis.head - 1 PROVE Holds(vis, n)'
  <2>1. n \in mem.tail .. mem.head - 1 /\ Holds(vis, n)
    BY <1>1 DEF RxOK
  <2>2. RxSlotOf(n) \in RxSlot \ {slot}
    BY <2>1, OwnSlot
  <2>. QED BY <1>6, <2>1, <2>2 DEF Holds
<1>12. \A s \in RxSlot : rxSeq'[s] <= mem.head + 1
  BY <1>1, <1>2, <1>6 DEF RxOK
<1>13. mem.head + 1 - mem.tail < RxSlots
  BY <1>1, <1>2, RoomLeft DEF RxOK
<1>14. RxOK'
  <2>1. /\ mem'.tail <= rxTail' /\ rxTail' <= vis'.head /\ vis'.head <= mem'.head
        /\ Filled' - mem'.tail < RxSlots
    BY <1>1, <1>5, <1>7, <1>13
  <2>2. \A n \in mem'.tail .. Filled' - 1 : Holds(mem, n)'
    BY <1>1, <1>5, <1>7, <1>10
  <2>3. \A n \in rxTail' .. vis'.head - 1 : Holds(vis, n)'
    BY <1>11
  <2>4. \A s \in RxSlot : rxSeq'[s] <= Filled'
    BY <1>7, <1>12
  <2>5. Len(read') = rxTail' /\ \A i \in 1 .. rxTail' : read'[i] = i
    BY DEF RxOK
  <2>. QED BY <2>1, <2>2, <2>3, <2>4, <2>5 DEF RxOK
<1>. QED BY <1>5, <1>6, <1>14

\* At most one frame waits in the chip; it is gone once it has been looked at.
LEMMA ChipPops ==
    ASSUME Shapes, ArrivalsOK, chip.rx # << >>, chip' = [chip EXCEPT !.rx = Tail(@)]
    PROVE  /\ chip' \in Chips /\ chip'.rx = << >> /\ chip'.next = chip.next
           /\ chip'.tx = chip.tx /\ chip'.used = chip.used /\ Pending' = 0
<1>1. chip \in Chips /\ chip.rx \in Seq(AllKinds) /\ Len(chip.rx) = 1
  <2>1. chip \in Chips /\ chip.rx \in Seq(AllKinds)
    BY PumpTypes
  <2>2. Len(chip.rx) # 0 /\ Len(chip.rx) \in Nat
    BY <2>1, EmptySeq
  <2>3. Len(chip.rx) <= 1
    BY DEF ArrivalsOK
  <2>4. \A n \in Nat : n # 0 /\ n <= 1 => n = 1
    OBVIOUS
  <2>5. Len(chip.rx) = 1
    BY <2>2, <2>3, <2>4
  <2>. QED BY <2>1, <2>5
<1>2. Tail(chip.rx) \in Seq(AllKinds) /\ Tail(chip.rx) = << >>
  <2>1. Tail(chip.rx) \in Seq(AllKinds) /\ Len(Tail(chip.rx)) = 0
    BY <1>1, HeadTailProperties
  <2>. QED BY <2>1, EmptySeq
<1>3. /\ chip' \in Chips /\ chip'.rx = Tail(chip.rx) /\ chip'.next = chip.next
      /\ chip'.tx = chip.tx /\ chip'.used = chip.used
  BY <1>1, <1>2 DEF Chips
<1>. QED BY <1>2, <1>3 DEF Pending

\* The last l numbers below t, in a range that has room for them.
LEMMA LastOnes ==
    \A a, b, l, t \in Nat : \A i \in 1 .. l :
        a + l <= t /\ t <= b => t - l + i - 1 \in a .. b - 1
OBVIOUS

LEMMA RelFills ==
    ASSUME Shapes, RxOK, RelOK, ~RingFull, pump.at = "rx", pump'.at = "head",
           rxSeq' = [rxSeq EXCEPT ![RxSlotOf(mem.head)] = @ + 1],
           UNCHANGED <<mem.tail, rxTail, rel, faults>>, Released' = Released
    PROVE  RelOK'
<1>1. Gone' <= Watermark * faults'
  BY DEF RelOK, Gone
<1>2. ASSUME ~Released, NEW i \in 1 .. Len(rel)
      PROVE  LET s == RxSlotOf(rxTail - Len(rel) + i - 1)
             IN  rel[i].slot = s /\ rel[i].seq = rxSeq'[s]
  <2>. DEFINE n == rxTail - Len(rel) + i - 1
  <2>1. n \in mem.tail .. mem.head - 1
    <3>1. mem.tail + Len(rel) <= rxTail
      BY <1>2 DEF RelOK
    <3>2. rxTail <= mem.head
      <4>1. rxTail <= vis.head /\ vis.head <= mem.head
        BY DEF RxOK
      <4>. QED BY <4>1, Numbers
    <3>3. i \in 1 .. Len(rel)
      BY <1>2
    <3>. QED BY <3>1, <3>2, <3>3, Numbers, LastOnes
  <2>2. RxSlotOf(n) # RxSlotOf(mem.head) /\ RxSlotOf(n) \in RxSlot
    <3>. HIDE DEF n
    <3>. QED BY <2>1, OwnSlot
  <2>3. rel[i].slot = RxSlotOf(n) /\ rel[i].seq = rxSeq[RxSlotOf(n)]
    BY <1>2 DEF RelOK
  <2>4. rxSeq'[RxSlotOf(n)] = rxSeq[RxSlotOf(n)]
    <3>. HIDE DEF n
    <3>. QED BY <2>2, Numbers
  <2>. QED BY <2>3, <2>4
<1>. QED BY <1>1, <1>2 DEF RelOK

LEMMA Receives ==
    ASSUME InStep, PumpReceives
    PROVE  InStep'
<1>. DEFINE f == Head(chip.rx)
<1>1. /\ Shapes /\ RxOK /\ ArrivalsOK /\ RelOK /\ IopKeeps /\ UNCHANGED <<vis, stall, dropped>>
      /\ pump.at = "rx" /\ chip.rx # << >>
  BY DEF InStep, PumpReceives
<1>2. CASE UNCHANGED <<pump, mem, rxSeq>> /\ chip' = [chip EXCEPT !.rx = Tail(@)]
  <2>1. /\ chip' \in Chips /\ chip'.next = chip.next /\ chip'.rx = << >>
        /\ chip'.tx = chip.tx /\ chip'.used = chip.used /\ Pending' = 0
    BY <1>1, <1>2, ChipPops
  <2>2. Shapes'
    <3>1. Len(chip'.tx) <= chip'.used /\ pump' \in Pumps /\ mem' \in Words /\ vis' \in Words
          /\ rxSeq' \in [RxSlot -> Nat] /\ stall' \in 0 .. StallLimit - 1
          /\ dropped' \in SUBSET Nat
      BY <1>1, <1>2, <2>1 DEF Shapes
    <3>. QED BY <1>1, <2>1, <3>1, PumpKeeps
  <2>3. ArrivalsOK'
    <3>1. mem.head < chip.next
      BY <1>1, PumpTypes DEF ArrivalsOK, Pending
    <3>2. Len(chip'.rx) <= 1
      BY <2>1
    <3>. QED BY <1>1, <1>2, <2>1, <3>1, <3>2, PumpTypes DEF ArrivalsOK
  <2>4. RxOK' /\ RelOK' /\ TxOK' /\ CalmOK'
    BY <1>1, <1>2, <2>1, PumpKeeps, RxSame, RelSame, TxSame, CalmSame
       DEF InStep, IopKeeps, eeVars
  <2>. QED BY <1>1, <2>2, <2>3, <2>4, PumpKeeps DEF InStep
<1>3. CASE /\ f # "error" /\ ~RingFull
           /\ rxSeq' = [rxSeq EXCEPT ![RxSlotOf(mem.head)] = @ + 1]
           /\ mem' = [mem EXCEPT !.ring[RxSlotOf(mem.head)] =
                         [frame |-> mem.head + 1, long |-> f = "long",
                          seq |-> rxSeq[RxSlotOf(mem.head)] + 1]]
           /\ pump' = [pump EXCEPT !.at = "head"]
           /\ UNCHANGED chip
  <2>1. pump' \in Pumps /\ pump'.at = "head"
    BY <1>1, <1>3, PumpTypes DEF Pumps
  <2>2. Pending = 1
    BY <1>1, <1>3 DEF Pending
  <2>3. /\ RxOK' /\ mem' \in Words /\ rxSeq' \in [RxSlot -> Nat]
        /\ UNCHANGED <<mem.head, mem.tail, mem.tx>>
    <3>. DEFINE long == f = "long"
    <3>1. long \in BOOLEAN
      OBVIOUS
    <3>2. mem' = [mem EXCEPT !.ring[RxSlotOf(mem.head)] =
                      [frame |-> mem.head + 1, long |-> long,
                       seq |-> rxSeq[RxSlotOf(mem.head)] + 1]]
      BY <1>3
    <3>3. UNCHANGED <<vis, rxTail, read>>
      BY <1>1 DEF IopKeeps, eeVars
    <3>4. /\ ~RingFull /\ rxSeq' = [rxSeq EXCEPT ![RxSlotOf(mem.head)] = @ + 1]
      BY <1>3
    <3>. HIDE DEF long
    <3>. QED BY <1>1, <2>1, <2>2, <3>1, <3>2, <3>3, <3>4, RxFills
  <2>4. RelOK'
    BY <1>1, <1>3, <2>1, <2>3, RelFills, PumpKeeps DEF IopKeeps, eeVars
  <2>5. Shapes'
    <3>1. Len(chip'.tx) <= chip'.used /\ chip' \in Chips /\ vis' \in Words
          /\ stall' \in 0 .. StallLimit - 1 /\ dropped' \in SUBSET Nat
      BY <1>1, <1>3 DEF Shapes
    <3>. QED BY <1>1, <2>1, <2>3, <3>1, PumpKeeps
  <2>6. ArrivalsOK'
    <3>1. Pending' = Pending
      BY <1>3 DEF Pending
    <3>. QED BY <1>1, <1>3, <2>2, <2>3, <3>1 DEF ArrivalsOK
  <2>7. TxOK' /\ CalmOK'
    <3>1. chip'.tx = chip.tx
      BY <1>3
    <3>. QED BY <1>1, <2>3, <3>1, PumpKeeps, TxSame, CalmSame DEF InStep, IopKeeps, eeVars
  <2>. QED BY <1>1, <2>3, <2>4, <2>5, <2>6, <2>7, PumpKeeps DEF InStep
<1>. QED BY <1>2, <1>3 DEF PumpReceives

LEMMA Publishes ==
    ASSUME InStep, PumpPublishes
    PROVE  InStep'
<1>1. /\ Shapes /\ RxOK /\ ArrivalsOK /\ IopKeeps /\ UNCHANGED <<vis, rxSeq, stall, dropped>>
      /\ pump.at = "head" /\ Pending = 1
  BY DEF InStep, PumpPublishes, ArrivalsOK
<1>2. chip.rx # << >> /\ chip' = [chip EXCEPT !.rx = Tail(@)]
  BY <1>1 DEF Pending, PumpPublishes
<1>3. /\ chip' \in Chips /\ chip'.next = chip.next /\ chip'.rx = << >>
      /\ chip'.tx = chip.tx /\ chip'.used = chip.used /\ Pending' = 0
  BY <1>1, <1>2, ChipPops
<1>4. pump' \in Pumps /\ pump'.at = "rx"
  BY <1>1, PumpTypes DEF PumpPublishes, Pumps
<1>5. mem.head + 1 < chip.next /\ mem.head + 1 \in 0 .. MaxRx
  BY <1>1, PumpTypes DEF ArrivalsOK
<1>6. /\ mem' \in Words /\ mem'.head = mem.head + 1 /\ mem'.tail = mem.tail
      /\ mem'.tx = mem.tx /\ mem'.ring = mem.ring
  BY <1>1, <1>5, PumpTypes DEF PumpPublishes, Words
<1>7. Shapes'
  <2>1. Len(chip'.tx) <= chip'.used /\ vis' \in Words
        /\ rxSeq' \in [RxSlot -> Nat] /\ stall' \in 0 .. StallLimit - 1
        /\ dropped' \in SUBSET Nat
    BY <1>1, <1>3 DEF Shapes
  <2>. QED BY <1>1, <1>3, <1>4, <1>6, <2>1, PumpKeeps
<1>8. ArrivalsOK'
  <2>1. Len(chip'.rx) <= 1
    BY <1>3
  <2>. QED BY <1>3, <1>4, <1>5, <1>6, <2>1 DEF ArrivalsOK
<1>9. RxOK'
  <2>1. Filled' = Filled /\ Filled = mem.head + 1
    BY <1>1, <1>4, <1>6 DEF Filled
  <2>2. /\ mem'.tail <= rxTail' /\ rxTail' <= vis'.head /\ vis'.head <= mem'.head
        /\ Filled' - mem'.tail < RxSlots
    BY <1>1, <1>6, <2>1, Numbers DEF RxOK, IopKeeps, eeVars
  <2>3. \A n \in mem'.tail .. Filled' - 1 : Holds(mem, n)'
    BY <1>1, <1>6, <2>1 DEF RxOK, Holds
  <2>4. \A n \in rxTail' .. vis'.head - 1 : Holds(vis, n)'
    BY <1>1 DEF RxOK, Holds, IopKeeps, eeVars
  <2>5. \A s \in RxSlot : rxSeq'[s] <= Filled'
    BY <1>1, <2>1 DEF RxOK
  <2>6. Len(read') = rxTail' /\ \A i \in 1 .. rxTail' : read'[i] = i
    BY <1>1 DEF RxOK, IopKeeps, eeVars
  <2>. QED BY <2>2, <2>3, <2>4, <2>5, <2>6 DEF RxOK
<1>10. RelOK' /\ TxOK' /\ CalmOK'
  BY <1>1, <1>3, <1>6, PumpKeeps, RelSame, TxSame, CalmSame DEF InStep, IopKeeps, eeVars
<1>. QED BY <1>1, <1>7, <1>8, <1>9, <1>10, PumpKeeps DEF InStep

-----------------------------------------------------------------------------
(* The hardware                                                            *)

LEMMA HardwareKeeps ==
    ASSUME InStep, UNCHANGED <<irx, ready, ee, eeVars, rpc, mem, iopVars, txData, pump, stall,
                               faults, read, staged, dropped>>
    PROVE  /\ BootOK' /\ CallOK' /\ RelOK' /\ StagedOK' /\ Released' = Released
           /\ Taken' = Taken /\ faults' \in {faults, faults + 1}
           /\ faults' = 0 => ee'.at # "single" /\ rpc'.rc = "ok"
           /\ vis' \in Words /\ chip' \in Chips /\ Len(chip'.tx) <= chip'.used
              /\ wire' \in SUBSET Nat => Shapes'
<1>1. /\ BootOK' /\ CallOK' /\ StagedOK'
  BY DEF InStep, BootOK, BindsRegistered, CallOK, StagedOK, Waiting, eeVars
<1>2. Released' = Released /\ Taken' = Taken /\ faults' \in {faults, faults + 1}
  BY DEF Released, Taken
<1>3. RelOK'
  BY <1>2, RelSame DEF InStep, eeVars, iopVars
<1>4. faults' = 0 => ee'.at # "single" /\ rpc'.rc = "ok"
  BY DEF InStep, CalmOK
<1>5. vis' \in Words /\ chip' \in Chips /\ Len(chip'.tx) <= chip'.used
      /\ wire' \in SUBSET Nat => Shapes'
  BY DEF InStep, Shapes, eeVars, iopVars
<1>. QED BY <1>1, <1>2, <1>3, <1>4, <1>5

LEMMA WritesBack ==
    ASSUME InStep, WriteBack
    PROVE  InStep'
<1>1. /\ UNCHANGED <<irx, ready, ee, eeVars, rpc, mem, iopVars, txData, pump, stall, chip,
                     faults, hist>>
      /\ vis' = mem /\ Shapes
  BY DEF WriteBack, InStep
<1>2. Shapes' /\ BootOK' /\ CallOK' /\ RelOK' /\ StagedOK'
  <2>1. vis' \in Words /\ chip' \in Chips /\ Len(chip'.tx) <= chip'.used
        /\ wire' \in SUBSET Nat
    BY <1>1 DEF Shapes, hist
  <2>. QED BY <1>1, <2>1, HardwareKeeps DEF hist
<1>3. ArrivalsOK'
  BY <1>1, ArrivalsSame DEF InStep
<1>4. RxOK' /\ TxOK'
  BY <1>1, Flushes DEF InStep, eeVars, iopVars, hist
<1>5. CalmOK'
  BY <1>1, HardwareKeeps, CalmSame DEF InStep, eeVars, iopVars, hist
<1>. QED BY <1>2, <1>3, <1>4, <1>5 DEF InStep

LEMMA Arrives ==
    ASSUME InStep, Arrive
    PROVE  InStep'
<1>1. /\ UNCHANGED <<irx, ready, ee, eeVars, rpc, mem, vis, iopVars, txData, pump, stall,
                     faults, hist>>
      /\ Shapes /\ ArrivalsOK /\ pump.at = "rx" /\ chip.rx = << >> /\ chip.next <= MaxRx
  BY DEF Arrive, InStep
<1>2. PICK k \in Kinds :
          chip' = [chip EXCEPT !.rx = Append(@, k), !.error = @ \/ k = "error",
                               !.next = IF k = "error" THEN @ ELSE @ + 1]
  BY DEF Arrive
<1>. DEFINE b == chip.error \/ k = "error"
            n == IF k = "error" THEN chip.next ELSE chip.next + 1
<1>3. k \in AllKinds /\ b \in BOOLEAN /\ n \in 1 .. MaxRx + 1 /\ chip \in Chips
  BY <1>1, PumpTypes, Consts DEF Chips
<1>4. Append(chip.rx, k) \in Seq(AllKinds) /\ Append(chip.rx, k) = <<k>>
  BY <1>1, <1>3
<1>5. chip' = [chip EXCEPT !.rx = Append(chip.rx, k), !.error = b, !.next = n]
  BY <1>2
<1>6. /\ chip' \in Chips /\ chip'.rx = <<k>> /\ chip'.next = n /\ chip'.tx = chip.tx
      /\ chip'.used = chip.used
  <2>. HIDE DEF b, n
  <2>. QED BY <1>3, <1>4, <1>5 DEF Chips
<1>7. Shapes' /\ BootOK' /\ CallOK' /\ RelOK' /\ StagedOK'
  <2>1. vis' \in Words /\ Len(chip'.tx) <= chip'.used /\ wire' \in SUBSET Nat
    BY <1>1, <1>6 DEF Shapes, hist
  <2>. QED BY <1>1, <1>6, <2>1, HardwareKeeps DEF hist
<1>8. ArrivalsOK'
  <2>1. Head(<<k>>) = k /\ <<k>> # << >> /\ Len(<<k>>) = 1
    OBVIOUS
  <2>2. Pending' = (IF k = "error" THEN 0 ELSE 1) /\ Len(chip'.rx) = 1
    BY <1>6, <2>1 DEF Pending
  <2>3. mem.head < chip.next
    BY <1>1, PumpTypes DEF ArrivalsOK, Pending
  <2>. QED BY <1>1, <1>6, <2>2, <2>3, PumpTypes DEF ArrivalsOK
<1>9. RxOK' /\ TxOK' /\ CalmOK'
  BY <1>1, <1>6, HardwareKeeps, RxSame, TxSame, CalmSame DEF InStep, eeVars, iopVars, hist
<1>. QED BY <1>7, <1>8, <1>9 DEF InStep

LEMMA RangePops ==
    ASSUME NEW S, NEW q \in Seq(S), q # << >>
    PROVE  Range(q) = Range(Tail(q)) \cup {Head(q)}
<1>. DEFINE t == Tail(q)
<1>1. /\ Len(q) \in Nat \ {0} /\ Len(t) = Len(q) - 1 /\ t \in Seq(S)
      /\ \A i \in 1 .. Len(t) : t[i] = q[i + 1]
  BY HeadTailProperties, EmptySeq
<1>2. Head(q) = q[1] /\ DOMAIN q = 1 .. Len(q) /\ DOMAIN t = 1 .. Len(t)
  BY <1>1
<1>3. Range(t) = {t[i] : i \in 1 .. Len(t)} /\ Range(q) = {q[i] : i \in 1 .. Len(q)}
  BY <1>2 DEF Range
<1>. HIDE DEF t
<1>4. ASSUME NEW i \in 1 .. Len(q) PROVE q[i] \in Range(t) \cup {Head(q)}
  <2>1. CASE i = 1
    BY <1>2, <2>1
  <2>2. CASE i # 1
    <3>1. i - 1 \in 1 .. Len(t) /\ t[i - 1] = q[i]
      BY <1>1, <2>2
    <3>. QED BY <1>3, <3>1
  <2>. QED BY <2>1, <2>2
<1>5. ASSUME NEW i \in 1 .. Len(t) PROVE t[i] \in Range(q)
  BY <1>1, <1>3
<1>6. Head(q) \in Range(q)
  BY <1>1, <1>2, <1>3
<1>7. Range(q) = Range(t) \cup {Head(q)}
  BY <1>3, <1>4, <1>5, <1>6
<1>. QED BY <1>7 DEF t

LEMMA Transmits ==
    ASSUME InStep, Transmit
    PROVE  InStep'
<1>1. /\ UNCHANGED <<irx, ready, ee, eeVars, rpc, mem, vis, iopVars, txData, pump, stall,
                     faults, read, staged, dropped>>
      /\ Shapes /\ chip.tx # << >>
      /\ chip' = [chip EXCEPT !.tx = Tail(@)] /\ wire' = wire \cup {Head(chip.tx)}
  BY DEF Transmit, InStep
<1>2. chip \in Chips /\ chip.tx \in Seq(Nat) /\ wire \in SUBSET Nat /\ Len(chip.tx) \in 0 .. chip.used
      /\ chip.used \in Nat
  <2>1. wire \in SUBSET Nat
    BY <1>1 DEF Shapes
  <2>2. chip \in Chips /\ chip.tx \in Seq(Nat) /\ Len(chip.tx) \in 0 .. chip.used
        /\ chip.used \in Nat
    BY <1>1, PumpTypes
  <2>. QED BY <2>1, <2>2
<1>3. /\ Head(chip.tx) \in Nat /\ Tail(chip.tx) \in Seq(Nat)
      /\ Len(Tail(chip.tx)) = Len(chip.tx) - 1
  BY <1>1, <1>2, HeadTailProperties
<1>4. /\ chip' \in Chips /\ chip'.rx = chip.rx /\ chip'.next = chip.next
      /\ chip'.tx = Tail(chip.tx) /\ chip'.used = chip.used
  BY <1>1, <1>2, <1>3 DEF Chips
<1>5. Out' = Out
  <2>1. Range(chip.tx) = Range(chip'.tx) \cup {Head(chip.tx)}
    BY <1>1, <1>2, <1>4, RangePops
  <2>. QED BY <1>1, <2>1 DEF Out
<1>6. Shapes' /\ BootOK' /\ CallOK' /\ RelOK' /\ StagedOK'
  <2>1. vis' \in Words /\ wire' \in SUBSET Nat
    BY <1>1, <1>2, <1>3 DEF Shapes
  <2>2. Len(chip'.tx) <= chip'.used
    BY <1>2, <1>3, <1>4
  <2>. QED BY <1>1, <1>4, <2>1, <2>2, HardwareKeeps
<1>7. ArrivalsOK' /\ RxOK'
  BY <1>1, <1>4, RxSame DEF InStep, ArrivalsOK, Pending, eeVars, iopVars
<1>8. Busy' = Busy
  BY <1>1 DEF Busy
<1>9. TxOK'
  BY <1>1, <1>5, <1>8, TxDrains DEF InStep, eeVars, iopVars
<1>10. Handed' = Handed
  BY <1>1, <1>5, <1>8 DEF Handed
<1>11. CalmOK'
  BY <1>1, <1>10, HardwareKeeps, CalmDrains DEF InStep, eeVars, iopVars
<1>. QED BY <1>6, <1>7, <1>9, <1>11 DEF InStep

-----------------------------------------------------------------------------
(* The RPC thread                                                          *)

LEMMA HandlerKeeps ==
    ASSUME InStep, rpc.at \in {"release", "submit"}, rpc'.at = "done",
           rpc'.entries = rpc.entries,
           UNCHANGED <<irx, ready, ee, eeVars, pump, stall, chip, staged>>
    PROVE  /\ ee.at \in {"release", "batch", "single"}
           /\ ~Released /\ ~Taken /\ (Released' <=> ee.at = "release")
           /\ (Taken' <=> ee.at = "batch")
           /\ BootOK' /\ CallOK' /\ StagedOK'
<1>1. CallOK /\ BootOK /\ StagedOK
  BY DEF InStep
<1>2. ee.at \in {"release", "batch", "single"}
  BY <1>1 DEF CallOK
<1>3. ~Released /\ ~Taken /\ (Released' <=> ee.at = "release") /\ (Taken' <=> ee.at = "batch")
  BY DEF Released, Taken
<1>4. CallOK'
  BY <1>1, <1>2 DEF CallOK, eeVars
<1>5. BootOK' /\ StagedOK'
  BY <1>1 DEF BootOK, BindsRegistered, StagedOK, Waiting
<1>. QED BY <1>2, <1>3, <1>4, <1>5

LEMMA HandlesRelease ==
    ASSUME InStep, HandleRelease
    PROVE  InStep'
<1>1. /\ rpc.at = "release" /\ Shapes /\ RxOK /\ RelOK /\ CallOK
      /\ UNCHANGED <<irx, ready, ee, eeVars, iopVars, txData, pump, stall, chip, hist>>
  BY DEF HandleRelease, InStep
<1>2. ee.at = "release" /\ rpc.entries = rel /\ ~Released
  BY <1>1 DEF CallOK, Released
<1>3. /\ mem.tail + Len(rel) <= rxTail
      /\ \A i \in 1 .. Len(rel) : rel[i].seq = rxSeq[rel[i].slot]
  BY <1>1, <1>2 DEF RelOK
<1>4. Releasable
  <2>1. DOMAIN rel = 1 .. Len(rel)
    BY <1>1 DEF Shapes
  <2>. QED BY <1>2, <1>3, <2>1 DEF Releasable
<1>5. /\ mem' = [mem EXCEPT !.tail = @ + Len(rel)] /\ vis' = mem' /\ Answer("ok")
  BY <1>2, <1>4 DEF HandleRelease
<1>6. /\ rpc' \in Calls /\ rpc'.at = "done" /\ rpc'.entries = rpc.entries
      /\ faults' \in {faults, faults + 1} /\ faults' \in Nat
      /\ faults' = faults => rpc'.rc = "ok"
  BY <1>1, <1>5, AnswerTypes
<1>7. mem.tail + Len(rel) \in 0 .. MaxRx /\ mem.tail + Len(rel) \in mem.tail .. rxTail
  <2>1. rxTail <= mem.head
    BY <1>1, Numbers DEF RxOK
  <2>2. /\ mem.tail \in Nat /\ Len(rel) \in Nat /\ rxTail \in Nat /\ mem.head \in Nat
        /\ mem.head <= MaxRx /\ MaxRx \in Nat
    BY <1>1, Numbers, PumpTypes
  <2>3. \A t, l, r, h \in Nat : t + l <= r /\ r <= h /\ h <= MaxRx
                               => t + l \in 0 .. MaxRx /\ t + l \in t .. r
    BY <2>2
  <2>. QED BY <1>3, <2>1, <2>2, <2>3
<1>8. /\ mem' \in Words /\ mem'.head = mem.head /\ mem'.tail = mem.tail + Len(rel)
      /\ mem'.tx = mem.tx /\ mem'.ring = mem.ring
  BY <1>1, <1>5, <1>7, PumpTypes DEF Words
<1>9. BootOK' /\ CallOK' /\ StagedOK' /\ Released' /\ ~Taken /\ ~Taken'
  BY <1>1, <1>2, <1>6, HandlerKeeps DEF hist
<1>10. Shapes'
  BY <1>1, <1>5, <1>6, <1>8 DEF Shapes, eeVars, iopVars, hist
<1>11. ArrivalsOK'
  BY <1>1, <1>8 DEF InStep, ArrivalsOK, Pending
<1>12. RxOK' /\ TxOK'
  BY <1>1, <1>5, <1>7, <1>8, RxSees, TxSees DEF InStep, eeVars, iopVars, hist
<1>13. RelOK'
  <2>1. Gone' = Gone
    BY <1>1, <1>2, <1>8, <1>9, Numbers DEF Gone, eeVars
  <2>2. Gone \in Int /\ Gone <= Watermark * faults
    BY <1>1, Numbers DEF RelOK, Gone
  <2>3. Gone' <= Watermark * faults'
    BY <1>1, <1>6, <2>1, <2>2, MoreFaults
  <2>. QED BY <1>9, <2>3 DEF RelOK
<1>14. CalmOK'
  <2>1. Taken' = Taken
    BY <1>9 DEF Taken
  <2>2. faults' = 0 /\ faults = 0 => ee'.at # "single" /\ rpc'.rc = "ok"
    BY <1>1, <1>2, <1>6
  <2>. QED BY <1>1, <1>6, <1>8, <2>1, <2>2, CalmSame DEF InStep, eeVars, iopVars, hist
<1>. QED BY <1>9, <1>10, <1>11, <1>12, <1>13, <1>14 DEF InStep

LEMMA HandlesSubmit ==
    ASSUME InStep, HandleSubmit
    PROVE  InStep'
<1>1. /\ rpc.at = "submit" /\ Shapes /\ RxOK /\ RelOK /\ CallOK /\ TxOK /\ CalmOK /\ vis' = mem'
      /\ UNCHANGED <<irx, ready, ee, eeVars, rxSeq, txData, pump, stall, chip, hist>>
  BY DEF HandleSubmit, InStep
<1>2. /\ ee.at \in {"batch", "single"} /\ rpc.entries \in Seq(Submits)
      /\ Range(rpc.entries) \subseteq Range(sub) /\ (ee.at = "batch" => rpc.entries = sub)
  BY <1>1 DEF CallOK
<1>3. /\ rpc' \in Calls /\ rpc'.at = "done" /\ rpc'.entries = rpc.entries
      /\ faults' \in {faults, faults + 1} /\ faults' \in Nat
      /\ faults' = faults => rpc'.rc = IF Submittable THEN "ok" ELSE "refused"
  <2>1. CASE Submittable
    <3>1. Answer("ok")
      BY <2>1 DEF HandleSubmit
    <3>. QED BY <1>1, <2>1, <3>1, AnswerTypes
  <2>2. CASE ~Submittable
    <3>1. Answer("refused")
      BY <2>2 DEF HandleSubmit
    <3>. QED BY <1>1, <2>2, <3>1, AnswerTypes
  <2>. QED BY <2>1, <2>2
<1>4. /\ BootOK' /\ CallOK' /\ StagedOK' /\ ~Released /\ ~Released'
      /\ ~Taken /\ (Taken' <=> ee.at = "batch")
  <2>1. ee.at # "release"
    BY <1>2
  <2>. QED BY <1>1, <1>3, <2>1, HandlerKeeps DEF hist
<1>5. /\ mem \in Words /\ mem.tx \in [TxSlot -> {"FREE", "BUSY"}]
      /\ txSeq \in [TxSlot -> Nat] /\ eeSeq \in [TxSlot -> Nat]
      /\ sub \in Seq(Submits) /\ DOMAIN sub = 1 .. Len(sub)
      /\ DOMAIN rpc.entries = 1 .. Len(rpc.entries)
  <2>1. mem \in Words /\ txSeq \in [TxSlot -> Nat] /\ eeSeq \in [TxSlot -> Nat]
        /\ sub \in Seq(Submits)
    BY <1>1 DEF Shapes
  <2>. QED BY <1>2, <2>1 DEF Words
<1>6. ASSUME NEW i \in DOMAIN rpc.entries
      PROVE  \E j \in 1 .. Len(sub) : rpc.entries[i] = sub[j]
  BY <1>2, <1>5 DEF Range
<1>7. ASSUME NEW j \in 1 .. Len(sub)
      PROVE  sub[j] \in Submits /\ sub[j].slot \in TxSlot /\ sub[j].seq \in Nat /\ SubOK(sub[j])
  <2>1. sub[j] \in Submits
    BY <1>5
  <2>. QED BY <1>1, <2>1 DEF Submits, TxOK
<1>8. CASE ~Submittable
  <2>1. mem' = mem /\ txSeq' = txSeq
    BY <1>8 DEF HandleSubmit
  <2>2. Shapes'
    BY <1>1, <1>3, <2>1 DEF Shapes, eeVars, hist
  <2>3. ArrivalsOK'
    BY <1>1, <2>1 DEF InStep, ArrivalsOK, Pending
  <2>4. RxOK' /\ TxOK'
    BY <1>1, <2>1, Flushes DEF eeVars, hist
  <2>5. RelOK'
    <3>1. Released' = Released
      BY <1>4 DEF Released
    <3>2. UNCHANGED <<mem.tail, rxTail, rel, rxSeq>>
      BY <1>1, <2>1 DEF eeVars
    <3>. QED BY <1>1, <1>3, <3>1, <3>2, RelSame
  <2>6. faults' # 0
    <3>1. SUFFICES ASSUME faults = 0 PROVE FALSE
      BY <1>1, <1>3 DEF Shapes
    <3>2. \A i \in 1 .. Len(sub) : txSeq[sub[i].slot] = sub[i].seq
      BY <1>1, <1>4, <3>1 DEF CalmOK
    <3>3. \A i \in 1 .. Len(sub) : mem.tx[sub[i].slot] = "FREE"
      BY <1>7, <3>2 DEF SubOK
    <3>. QED BY <1>6, <1>8, <3>2, <3>3 DEF Submittable
  <2>7. CalmOK'
    BY <2>6 DEF CalmOK
  <2>. QED BY <1>4, <2>2, <2>3, <2>4, <2>5, <2>7 DEF InStep
<1>9. CASE Submittable
  <2>1. /\ mem' = [mem EXCEPT !.tx = [s \in TxSlot |->
                      IF s \in Submitted THEN "BUSY" ELSE mem.tx[s]]]
        /\ txSeq' = [s \in TxSlot |-> IF s \in Submitted THEN txSeq[s] + 1 ELSE txSeq[s]]
    BY <1>9 DEF HandleSubmit
  <2>2. /\ mem' \in Words /\ mem'.head = mem.head /\ mem'.tail = mem.tail /\ mem'.ring = mem.ring
        /\ mem'.tx = [s \in TxSlot |-> IF s \in Submitted THEN "BUSY" ELSE mem.tx[s]]
    <3>. DEFINE tx == [s \in TxSlot |-> IF s \in Submitted THEN "BUSY" ELSE mem.tx[s]]
    <3>1. tx \in [TxSlot -> {"FREE", "BUSY"}] /\ mem' = [mem EXCEPT !.tx = tx]
      BY <1>5, <2>1
    <3>2. mem' \in Words /\ mem'.head = mem.head /\ mem'.tail = mem.tail
          /\ mem'.ring = mem.ring /\ mem'.tx = tx
      <4>. HIDE DEF tx
      <4>. QED BY <1>5, <3>1 DEF Words
    <3>. QED BY <3>2
  <2>3. txSeq' \in [TxSlot -> Nat]
    BY <1>5, <2>1
  \* What the IOP takes is staged, is its slot's next, and is nowhere else.
  <2>4. ASSUME NEW s \in Submitted
        PROVE  \E j \in 1 .. Len(sub) :
                  /\ sub[j].slot = s /\ sub[j].seq = txSeq[s] /\ mem.tx[s] = "FREE"
                  /\ txData[s] = sub[j].frame /\ sub[j].frame \in staged \ Out
                  /\ eeSeq[s] = txSeq[s] + 1 /\ s \in TxSlot
    <3>1. PICK i \in DOMAIN rpc.entries : rpc.entries[i].slot = s
      BY DEF Submitted
    <3>2. PICK j \in 1 .. Len(sub) : rpc.entries[i] = sub[j]
      BY <1>6
    <3>3. sub[j].slot = s /\ sub[j].seq = txSeq[s] /\ mem.tx[s] = "FREE"
      BY <1>9, <3>1, <3>2 DEF Submittable
    <3>4. SubOK(sub[j]) /\ s \in TxSlot /\ sub[j].seq \in Nat
      BY <1>7, <3>3
    <3>5. txSeq[s] <= sub[j].seq
      BY <3>3, <3>4
    <3>6. /\ txData[s] = sub[j].frame /\ sub[j].frame \in staged \ Out
          /\ eeSeq[s] = txSeq[s] + 1
      BY <3>3, <3>4, <3>5 DEF SubOK
    <3>. QED BY <3>3, <3>4, <3>6
  <2>5. Submitted \subseteq Claimed /\ Submitted \subseteq TxSlot /\ Claimed' = Claimed
    <3>1. Claimed' = Claimed
      BY <1>1 DEF Claimed, eeVars
    <3>2. \A j \in 1 .. Len(sub) : sub[j].slot \in Claimed
      BY <1>5 DEF Claimed
    <3>. QED BY <2>4, <3>1, <3>2
  <2>6. Busy' = Busy \cup Submitted
    BY <1>5, <2>2, <2>5 DEF Busy
  <2>7. Live' = Live /\ Out' = Out /\ sub' = sub /\ txData' = txData /\ eeSeq' = eeSeq
        /\ staged' = staged /\ dropped' = dropped
    BY <1>1, <2>5, <2>6 DEF Live, Out, eeVars, hist
  <2>8. /\ \A s \in Submitted : txSeq'[s] = txSeq[s] + 1 /\ mem'.tx[s] = "BUSY"
        /\ \A s \in TxSlot \ Submitted : txSeq'[s] = txSeq[s] /\ mem'.tx[s] = mem.tx[s]
    BY <2>1, <2>2, <2>5
  <2>9. Shapes'
    BY <1>1, <1>3, <2>2, <2>3 DEF Shapes, eeVars, hist
  <2>10. ArrivalsOK'
    BY <1>1, <2>2 DEF InStep, ArrivalsOK, Pending
  <2>11. RxOK'
    <3>1. mem'.tail \in mem.tail .. rxTail
      BY <1>1, <2>2, Numbers DEF RxOK
    <3>. QED BY <1>1, <2>2, <3>1, RxSees DEF eeVars, hist
  <2>12. RelOK'
    <3>1. Released' = Released
      BY <1>4 DEF Released
    <3>2. UNCHANGED <<mem.tail, rxTail, rel, rxSeq>>
      BY <1>1, <2>2 DEF eeVars
    <3>. QED BY <1>1, <1>3, <3>1, <3>2, RelSame
  <2>13. ASSUME NEW j \in 1 .. Len(sub) PROVE SubOK(sub[j])'
    <3>. DEFINE e == sub[j]
    <3>1. e.slot \in TxSlot /\ e.seq \in Nat /\ SubOK(e) /\ e' = e
      BY <1>7, <2>7
    <3>2. CASE e.slot \in Submitted
      <4>1. PICK k \in 1 .. Len(sub) : sub[k].slot = e.slot /\ sub[k].seq = txSeq[e.slot]
        BY <2>4, <3>2
      <4>2. k = j
        BY <1>1, <4>1 DEF TxOK
      <4>3. txSeq'[e.slot] = e.seq + 1
        BY <2>8, <3>2, <4>1, <4>2
      <4>4. ~(txSeq'[e.slot] <= e.seq)
        BY <3>1, <4>3
      <4>. QED
        <5>. HIDE DEF e
        <5>1. SubOK(e)'
          BY <2>7, <3>1, <4>4 DEF SubOK
        <5>. QED BY <5>1 DEF e
    <3>3. CASE e.slot \notin Submitted
      <4>1. txSeq'[e.slot] = txSeq[e.slot] /\ mem'.tx[e.slot] = mem.tx[e.slot]
        BY <2>8, <3>1, <3>3
      <4>. QED
        <5>. HIDE DEF e
        <5>1. SubOK(e)'
          BY <2>7, <3>1, <4>1 DEF SubOK
        <5>. QED BY <5>1 DEF e
    <3>. QED BY <3>2, <3>3
  <2>14. TxOK'
    <3>1. \A s \in TxSlot : txSeq'[s] <= eeSeq'[s]
      <4>1. ASSUME NEW s \in Submitted PROVE txSeq'[s] <= eeSeq'[s]
        BY <1>5, <2>4, <2>7, <2>8
      <4>2. ASSUME NEW s \in TxSlot \ Submitted PROVE txSeq'[s] <= eeSeq'[s]
        BY <1>1, <2>7, <2>8 DEF TxOK
      <4>. QED BY <4>1, <4>2
    <3>2. \A s \in Busy' : txData'[s] \in staged' \ Out'
      BY <1>1, <2>4, <2>6, <2>7 DEF TxOK
    <3>3. \A s \in TxSlot : vis'.tx[s] = "FREE" => mem'.tx[s] = "FREE"
      BY <1>1
    <3>4. /\ Out' \subseteq staged'
          /\ \A i, j \in 1 .. Len(sub') : sub'[i].slot = sub'[j].slot => i = j
          /\ \A s, t \in Live' : txData'[s] = txData'[t] => s = t
      BY <1>1, <2>7 DEF TxOK
    <3>. QED BY <2>7, <2>13, <3>1, <3>2, <3>3, <3>4 DEF TxOK
  <2>15. CalmOK'
    <3>1. SUFFICES ASSUME faults' = 0
                   PROVE  /\ ee'.at # "single" /\ rpc'.rc = "ok"
                          /\ \A s \in TxSlot \ Claimed' : txSeq'[s] = eeSeq'[s]
                          /\ Taken' /\ Frames' \subseteq Handed'
                          /\ \A i \in 1 .. Len(sub') : txSeq'[sub'[i].slot] = eeSeq'[sub'[i].slot]
                          /\ staged' = Handed' \cup Frames'
      BY DEF CalmOK
    <3>2. faults = 0 /\ ee.at = "batch" /\ rpc.entries = sub
      BY <1>1, <1>2, <1>3, <3>1 DEF Shapes, CalmOK
    <3>3. rpc'.rc = "ok" /\ Taken' /\ ee'.at = "batch"
      BY <1>1, <1>3, <1>4, <1>9, <3>1, <3>2
    <3>4. \A s \in TxSlot \ Claimed' : txSeq'[s] = eeSeq'[s]
      BY <1>1, <2>5, <2>7, <2>8, <3>2 DEF CalmOK
    <3>5. Frames' = Frames /\ Frames = {txData[s] : s \in Submitted}
      <4>1. Submitted = {sub[i].slot : i \in 1 .. Len(sub)}
        BY <1>5, <3>2 DEF Submitted
      <4>2. \A i \in 1 .. Len(sub) : txData[sub[i].slot] = sub[i].frame
        BY <1>7 DEF SubOK
      <4>. QED BY <1>5, <2>7, <4>1, <4>2 DEF Frames
    <3>6. Handed' = Handed \cup {txData[s] : s \in Submitted}
      BY <2>6, <2>7 DEF Handed
    <3>7. staged = Handed \cup Frames
      BY <1>1, <3>2 DEF CalmOK
    <3>8. ASSUME NEW i \in 1 .. Len(sub) PROVE txSeq'[sub[i].slot] = eeSeq[sub[i].slot]
      <4>1. sub[i].slot \in Submitted
        BY <1>5, <3>2 DEF Submitted
      <4>. QED BY <2>4, <2>8, <4>1
    <3>. QED BY <2>7, <3>3, <3>4, <3>5, <3>6, <3>7, <3>8
  <2>. QED BY <1>4, <2>9, <2>10, <2>11, <2>12, <2>14, <2>15 DEF InStep
<1>. QED BY <1>8, <1>9

-----------------------------------------------------------------------------
(* The loader's side of a remote call                                      *)

LEMMA FlushFacts ==
    ASSUME Shapes, NEW subs \in Seq(Submits), NEW t \in {"loop", "wait"}, FlushTx(subs, t)
    PROVE  /\ faults' \in {faults, faults + 1}
           /\ subs = << >> => ee'.at = t /\ rpc'.at = "none" /\ rpc'.rc = "ok"
           /\ subs # << >> => /\ ee'.at = "batch" /\ ee'.then = t /\ rpc'.at \in {"submit", "done"}
                              /\ rpc'.entries = subs
           /\ faults' = faults => rpc'.at # "done" /\ rpc'.rc = "ok"
<1>1. t \in Places /\ "batch" \in Places /\ subs \in Lists
  BY DEF Places, Lists
<1>2. CASE subs = << >>
  <2>1. ee' = At(t) /\ rpc' = Idle /\ faults' = faults
    BY <1>2 DEF FlushTx
  <2>. QED BY <1>1, <1>2, <2>1, AtTypes, IdleType
<1>3. CASE subs # << >>
  <2>1. Call("submit", subs) /\ ee' = [At("batch") EXCEPT !.then = t]
    BY <1>3 DEF FlushTx
  <2>2. ee'.at = "batch" /\ ee'.then = t
    BY <1>1, <2>1, AtTypes
  <2>3. /\ rpc'.entries = subs /\ rpc'.at \in {"submit", "done"}
        /\ faults' \in {faults, faults + 1}
        /\ faults' = faults => rpc'.at = "submit" /\ rpc'.rc = "ok"
    BY <1>1, <2>1, CallTypes
  <2>. QED BY <1>3, <2>2, <2>3
<1>. QED BY <1>2, <1>3

LEMMA ReleaseFacts ==
    ASSUME Shapes, NEW rels \in Seq(Entries), rels # << >>, ReleasePending(rels)
    PROVE  /\ faults' \in {faults, faults + 1}
           /\ ee'.at = "release" /\ ee'.then = "loop" /\ rpc'.at \in {"release", "done"}
           /\ rpc'.entries = rels
           /\ faults' = faults => rpc'.at # "done" /\ rpc'.rc = "ok"
<1>1. "loop" \in Places /\ "release" \in Places /\ rels \in Lists
  BY DEF Places, Lists
<1>2. Call("release", rels) /\ ee' = [At("release") EXCEPT !.then = "loop"]
  BY DEF ReleasePending
<1>3. ee'.at = "release" /\ ee'.then = "loop"
  BY <1>1, <1>2, AtTypes
<1>. QED BY <1>1, <1>2, <1>3, CallTypes

\* What the EE does leaves the IOP alone.
IopSame == UNCHANGED <<irx, ready, mem, vis, iopVars, pump, stall, chip, wire, dropped>>

LEMMA EeKeeps ==
    ASSUME InStep, IopSame, ee.at \notin {"boot", "poll", "failed"},
           ee'.at # "boot"
    PROVE  /\ BootOK' /\ ArrivalsOK'
           /\ irx = "registered"
<1>1. irx = "registered" /\ irx' = irx
  BY DEF InStep, BootOK, BindsRegistered, IopSame
<1>2. BootOK'
  BY <1>1 DEF BootOK, BindsRegistered
<1>3. ArrivalsOK'
  BY DEF InStep, ArrivalsOK, Pending, IopSame
<1>. QED BY <1>1, <1>2, <1>3

LEMMA CallFlushed ==
    ASSUME Shapes, NEW t \in {"loop", "wait"}, sub' \in Seq(Submits), FlushTx(sub', t),
           Len(sub') <= Batch, Len(rel') < Watermark, Len(rel') \in Nat
    PROVE  CallOK'
<1>1. /\ sub' = << >> => ee'.at = t /\ rpc'.at = "none"
      /\ sub' # << >> => /\ ee'.at = "batch" /\ ee'.then = t
                         /\ rpc'.at \in {"submit", "done"} /\ rpc'.entries = sub'
  BY FlushFacts
<1>2. Len(rel') <= Watermark
  BY Consts
<1>3. CASE sub' = << >>
  <2>1. Len(sub') < Batch
    BY <1>3, Consts
  <2>. QED BY <1>1, <1>2, <1>3, <2>1 DEF CallOK
<1>4. CASE sub' # << >>
  <2>1. ee'.at = "batch" /\ ee'.then = t /\ rpc'.at \in {"submit", "done"} /\ rpc'.entries = sub'
    BY <1>1, <1>4
  <2>. QED BY <1>2, <1>4, <2>1 DEF CallOK
<1>. QED BY <1>3, <1>4

LEMMA CallReleased ==
    ASSUME Shapes, rel' \in Seq(Entries), rel' # << >>, ReleasePending(rel'),
           Len(sub') < Batch, Len(sub') \in Nat, Len(rel') <= Watermark
    PROVE  CallOK'
<1>1. /\ ee'.at = "release" /\ ee'.then = "loop" /\ rpc'.at \in {"release", "done"}
      /\ rpc'.entries = rel'
  BY ReleaseFacts
<1>2. Len(sub') <= Batch
  BY Consts
<1>. QED BY <1>1, <1>2 DEF CallOK

\* The calm part of the transmit ring, whoever the EE calls.
Calm ==
    /\ \A s \in TxSlot \ Claimed : txSeq[s] = eeSeq[s]
    /\ \A i \in 1 .. Len(sub) : txSeq[sub[i].slot] = sub[i].seq
    /\ staged = Handed \cup Frames

LEMMA CalmCalls ==
    ASSUME Shapes, faults = 0 => Calm', ee'.at # "single", faults' \in {faults, faults + 1},
           faults' = faults => ~Taken' /\ rpc'.rc = "ok"
    PROVE  CalmOK'
<1>1. faults' = 0 => faults' = faults /\ faults = 0
  BY DEF Shapes
<1>. QED BY <1>1 DEF CalmOK, Calm

LEMMA CalmBefore ==
    ASSUME CalmOK, ~Taken, UNCHANGED <<mem.tx, txSeq, eeSeq, txData, sub, wire, staged, dropped, chip.tx>>
    PROVE  faults = 0 => Calm'
<1>1. /\ Out' = Out /\ Busy' = Busy /\ Claimed' = Claimed /\ Frames' = Frames
  BY DEF Out, Busy, Claimed, Frames
<1>2. Handed' = Handed
  BY <1>1 DEF Handed
<1>. QED BY <1>1, <1>2 DEF CalmOK, Calm

\* A release that was not carried out costs the ring what it held, a batch at most.
LEMMA RelCalls ==
    ASSUME Shapes, mem.tail + Len(rel') <= rxTail', rxTail' \in Nat,
           Len(rel') \in Nat, Len(rel') <= Watermark,
           \A i \in 1 .. Len(rel') :
               LET s == RxSlotOf(rxTail' - Len(rel') + i - 1)
               IN  rel'[i].slot = s /\ rel'[i].seq = rxSeq'[s],
           rxTail' - mem.tail - Len(rel') <= Watermark * faults,
           mem' = mem, faults' \in {faults, faults + 1}, Released' => faults' = faults + 1
    PROVE  RelOK'
<1>. DEFINE P == Watermark * faults
            Q == Watermark * faults'
            L == Len(rel')
            R == rxTail'
            T == mem.tail
<1>1. /\ P \in Nat /\ Q \in Nat /\ P <= Q /\ (faults' = faults + 1 => Q = P + Watermark)
      /\ T \in Nat /\ Watermark \in Nat
  BY MoreFaults, Numbers, Consts
<1>2. Gone' = R - T - (IF Released' THEN 0 ELSE L)
  BY DEF Gone
<1>3. R - T - L <= P /\ L \in Nat /\ L <= Watermark /\ R \in Nat
  OBVIOUS
<1>4. Gone' <= Q
  <2>. HIDE DEF P, Q, L, R, T
  <2>1. CASE Released'
    BY <1>1, <1>2, <1>3, <2>1
  <2>2. CASE ~Released'
    BY <1>1, <1>2, <1>3, <2>2
  <2>. QED BY <2>1, <2>2
<1>5. Gone' <= Watermark * faults'
  BY <1>4
<1>6. ~Released' =>
        /\ mem'.tail + Len(rel') <= rxTail'
        /\ \A i \in 1 .. Len(rel') :
              LET s == RxSlotOf(rxTail' - Len(rel') + i - 1)
              IN  rel'[i].slot = s /\ rel'[i].seq = rxSeq'[s]
  OBVIOUS
<1>. QED BY <1>5, <1>6 DEF RelOK

-----------------------------------------------------------------------------
(* The EE: receiving                                                       *)

LEMMA EeShapes ==
    ASSUME Shapes, IopSame
    PROVE  /\ ee' \in [at : Places, i : Nat, frame : Nat, then : Places] /\ rpc' \in Calls
              /\ faults' \in Nat /\ rxTail' \in Nat /\ rel' \in Seq(Entries)
              /\ sub' \in Seq(Submits) /\ nextSlot' \in TxSlot /\ eeSeq' \in [TxSlot -> Nat]
              /\ txData' \in [TxSlot -> 0 .. MaxTx] /\ read' \in Seq(Nat)
              /\ staged' \in SUBSET Nat
              => Shapes'
BY DEF Shapes, IopSame, iopVars

\* The frame at the head of what the EE has not read.
LEMMA NextRead ==
    ASSUME Shapes, RxOK, vis.head # rxTail
    PROVE  /\ rxTail \in mem.tail .. mem.head - 1 /\ rxTail + 1 <= vis.head
           /\ RxSlotOf(rxTail) \in RxSlot
           /\ vis.ring[RxSlotOf(rxTail)].frame = rxTail + 1
           /\ vis.ring[RxSlotOf(rxTail)].seq = rxSeq[RxSlotOf(rxTail)]
<1>1. /\ mem.tail <= rxTail /\ rxTail <= vis.head /\ vis.head <= mem.head
      /\ mem.tail \in Nat /\ rxTail \in Nat /\ vis.head \in Nat /\ mem.head \in Nat
  BY Numbers DEF RxOK
<1>2. rxTail \in rxTail .. vis.head - 1
  BY <1>1
<1>3. Holds(vis, rxTail)
  BY <1>2 DEF RxOK
<1>. QED BY <1>1, <1>3, SlotType DEF Holds

LEMMA RxReads ==
    ASSUME Shapes, RxOK, vis.head # rxTail, rxTail' = rxTail + 1,
           read' = Append(read, vis.ring[RxSlotOf(rxTail)].frame),
           UNCHANGED <<mem, vis, rxSeq, pump>>
    PROVE  RxOK' /\ read' \in Seq(Nat)
<1>1. /\ rxTail \in Nat /\ rxTail + 1 <= vis.head /\ read' = Append(read, rxTail + 1)
      /\ mem.tail \in Nat /\ vis.head \in Nat /\ mem.tail <= rxTail
  BY NextRead, Numbers DEF RxOK
<1>2. /\ read \in Seq(Nat) /\ Len(read) = rxTail /\ \A i \in 1 .. rxTail : read[i] = i
  BY DEF Shapes, RxOK
<1>3. /\ read' \in Seq(Nat) /\ Len(read') = rxTail + 1
      /\ \A i \in 1 .. rxTail + 1 : read'[i] = i
  BY <1>1, <1>2
<1>4. Filled' = Filled
  BY DEF Filled
<1>5. /\ mem'.tail <= rxTail' /\ rxTail' <= vis'.head /\ vis'.head <= mem'.head
      /\ Filled' - mem'.tail < RxSlots
  BY <1>1, <1>4 DEF RxOK
<1>6. \A n \in mem'.tail .. Filled' - 1 : Holds(mem, n)'
  BY <1>4 DEF RxOK, Holds
<1>7. \A n \in rxTail' .. vis'.head - 1 : Holds(vis, n)'
  <2>1. \A n \in rxTail' .. vis.head - 1 : n \in rxTail .. vis.head - 1
    BY <1>1
  <2>. QED BY <2>1 DEF RxOK, Holds
<1>8. \A s \in RxSlot : rxSeq'[s] <= Filled'
  BY <1>4 DEF RxOK
<1>9. Len(read') = rxTail' /\ \A i \in 1 .. rxTail' : read'[i] = i
  BY <1>3
<1>. QED BY <1>3, <1>5, <1>6, <1>7, <1>8, <1>9 DEF RxOK

LEMMA Polls ==
    ASSUME InStep, Poll
    PROVE  InStep'
<1>. DEFINE slot == RxSlotOf(rxTail)
            e == [slot |-> slot, seq |-> vis.ring[slot].seq]
            rels == Append(rel, e)
<1>1. /\ Shapes /\ RxOK /\ RelOK /\ CallOK /\ TxOK /\ CalmOK /\ StagedOK
      /\ ee.at = "loop" /\ vis.head # rxTail
      /\ read' = Append(read, vis.ring[slot].frame) /\ rel' = rels /\ rxTail' = rxTail + 1
      /\ IF Len(rels) >= Watermark THEN ReleasePending(rels) ELSE UNCHANGED <<ee, rpc, faults>>
  BY DEF Poll, InStep
<1>2. /\ UNCHANGED <<sub, nextSlot, eeSeq, txSeq, rxSeq, txData, staged, pump, mem, vis>>
      /\ IopSame
      /\ UNCHANGED <<wire, dropped, chip>>
  BY DEF Poll, IopSame, iopVars
<1>3. /\ slot \in RxSlot /\ vis.ring[slot].seq = rxSeq[slot] /\ rxTail + 1 <= vis.head
      /\ mem.tail <= rxTail
  BY <1>1, NextRead, Numbers DEF RxOK
<1>4. rpc.at = "none" /\ Len(rel) < Watermark /\ Len(sub) < Batch /\ ~Released /\ ~Taken
      /\ ~Waiting
  BY <1>1 DEF CallOK, Released, Taken, Waiting
<1>5. rel \in Seq(Entries) /\ e \in Entries /\ Len(rel) \in Nat /\ rxTail \in Nat
  BY <1>1, <1>3, Numbers DEF Shapes, Entries
<1>6. /\ rels \in Seq(Entries) /\ Len(rels) = Len(rel) + 1 /\ rels # << >>
      /\ rels[Len(rel) + 1] = e /\ \A i \in 1 .. Len(rel) : rels[i] = rel[i]
  <2>. HIDE DEF e
  <2>. QED BY <1>5
<1>7. /\ Len(rels) <= Watermark /\ Len(rels) \in Nat
  BY <1>4, <1>5, <1>6, Consts
<1>8. /\ faults' \in {faults, faults + 1} /\ faults' \in Nat
      /\ ee' \in [at : Places, i : Nat, frame : Nat, then : Places] /\ rpc' \in Calls
      /\ ee'.at \in {"loop", "release"} /\ CallOK'
      /\ Released' => faults' = faults + 1
      /\ faults' = faults => rpc'.at # "done"
      /\ faults' = faults /\ faults = 0 => rpc'.rc = "ok"
  <2>1. CASE Len(rels) >= Watermark
    <3>. HIDE DEF rels
    <3>1. ReleasePending(rels)
      BY <1>1, <2>1
    <3>2. CallOK'
      <4>1. Len(sub') < Batch /\ Len(sub') \in Nat
        BY <1>1, <1>2, <1>4 DEF Shapes
      <4>. QED BY <1>1, <1>6, <1>7, <3>1, <4>1, CallReleased
    <3>3. /\ faults' \in {faults, faults + 1} /\ ee'.at = "release" /\ rpc'.at \in {"release", "done"}
          /\ faults' = faults => rpc'.at # "done" /\ rpc'.rc = "ok"
      BY <1>1, <1>6, <3>1, ReleaseFacts
    <3>4. Released' => faults' = faults + 1
      BY <3>3 DEF Released
    <3>5. /\ faults' \in Nat
          /\ ee' \in [at : Places, i : Nat, frame : Nat, then : Places] /\ rpc' \in Calls
      BY <1>1, <1>6, <3>1, ReleaseShapes
    <3>. QED BY <3>2, <3>3, <3>4, <3>5
  <2>2. CASE ~(Len(rels) >= Watermark)
    <3>1. ee' = ee /\ rpc' = rpc /\ faults' = faults
      BY <1>1, <2>2
    <3>2. Len(rel') < Watermark
      BY <1>1, <1>7, <2>2, Consts
    <3>3. CallOK'
      BY <1>1, <1>2, <1>7, <3>1, <3>2 DEF CallOK
    <3>4. ~Released'
      BY <1>1, <3>1 DEF Released
    <3>5. faults = 0 => rpc.rc = "ok"
      BY <1>1 DEF CalmOK
    <3>6. /\ faults \in Nat /\ ee \in [at : Places, i : Nat, frame : Nat, then : Places]
          /\ rpc \in Calls
      BY <1>1 DEF Shapes
    <3>. QED BY <1>1, <1>4, <3>1, <3>3, <3>4, <3>5, <3>6
  <2>. QED BY <2>1, <2>2
<1>9. BootOK' /\ ArrivalsOK'
  BY <1>1, <1>2, <1>8, EeKeeps
<1>10. RxOK' /\ read' \in Seq(Nat)
  BY <1>1, <1>2, RxReads
<1>11. Shapes'
  <2>1. /\ sub' \in Seq(Submits) /\ nextSlot' \in TxSlot /\ eeSeq' \in [TxSlot -> Nat]
        /\ txData' \in [TxSlot -> 0 .. MaxTx] /\ staged' \in SUBSET Nat
    BY <1>1, <1>2 DEF Shapes
  <2>2. rxTail' \in Nat /\ rel' \in Seq(Entries)
    BY <1>1, <1>5, <1>6
  <2>. QED BY <1>1, <1>2, <1>8, <1>10, <2>1, <2>2, EeShapes
<1>12. RelOK'
  <2>1. /\ mem.tail + Len(rel) <= rxTail
        /\ \A i \in 1 .. Len(rel) :
              LET s == RxSlotOf(rxTail - Len(rel) + i - 1)
              IN  rel[i].slot = s /\ rel[i].seq = rxSeq[s]
        /\ rxTail - mem.tail - Len(rel) <= Watermark * faults
    BY <1>1, <1>4 DEF RelOK, Gone
  <2>2. rxTail' - Len(rel') = rxTail - Len(rel) /\ Len(rel') = Len(rel) + 1
        /\ rel' = rels
    BY <1>1, <1>5, <1>6
  <2>3. ASSUME NEW i \in 1 .. Len(rel')
        PROVE  LET s == RxSlotOf(rxTail' - Len(rel') + i - 1)
               IN  rel'[i].slot = s /\ rel'[i].seq = rxSeq'[s]
    <3>1. CASE i \in 1 .. Len(rel)
      BY <1>1, <1>2, <1>6, <2>1, <2>2, <3>1
    <3>2. CASE i = Len(rel) + 1
      <4>1. rxTail' - Len(rel') + i - 1 = rxTail
        BY <1>1, <1>5, <2>2, <3>2
      <4>2. rel'[i] = e
        BY <1>6, <2>2, <3>2
      <4>. QED BY <1>2, <1>3, <4>1, <4>2
    <3>. QED BY <1>5, <2>2, <3>1, <3>2
  <2>4. mem.tail + Len(rel') <= rxTail' /\ rxTail' \in Nat /\ Len(rel') \in Nat
        /\ Len(rel') <= Watermark
    BY <1>1, <1>5, <1>7, <2>1, <2>2, Numbers
  <2>5. rxTail' - mem.tail - Len(rel') <= Watermark * faults
    <3>. DEFINE a == rxTail'
                b == Len(rel')
                c == rxTail
                d == Len(rel)
                t == mem.tail
    <3>1. a \in Int /\ b \in Int /\ c \in Int /\ d \in Int /\ t \in Int /\ a - b = c - d
      BY <1>1, <1>5, <2>2, <2>4, Numbers
    <3>2. a - t - b = c - t - d
      <4>. HIDE DEF a, b, c, d, t
      <4>. QED BY <3>1
    <3>3. rxTail' - mem.tail - Len(rel') = rxTail - mem.tail - Len(rel)
      BY <3>2
    <3>. QED BY <2>1, <3>3
  <2>. QED BY <1>1, <1>2, <1>8, <2>3, <2>4, <2>5, RelCalls
<1>13. StagedOK'
  <2>1. ~Waiting'
    BY <1>8 DEF Waiting
  <2>. QED BY <1>1, <1>2, <2>1, StagedSame
<1>14. TxOK'
  BY <1>1, <1>2, TxSame
<1>15. CalmOK'
  <2>1. Taken' = Taken
    BY <1>1, <1>8 DEF Taken
  <2>2. faults' = 0 /\ faults = 0 => ee'.at # "single" /\ rpc'.rc = "ok"
    BY <1>8
  <2>. QED BY <1>1, <1>2, <1>8, <2>1, <2>2, CalmSame
<1>. QED BY <1>8, <1>9, <1>10, <1>11, <1>12, <1>13, <1>14, <1>15 DEF InStep


-----------------------------------------------------------------------------
(* The EE: giving slots back and handing frames over                       *)

\* A step that neither receives nor releases.
LEMMA EeSends ==
    ASSUME InStep, IopSame, UNCHANGED <<rxTail, rel, read>>,
           ee.at \notin {"boot", "poll", "failed", "release"}, ee'.at \notin {"boot", "release"},
           faults' \in {faults, faults + 1}
    PROVE  BootOK' /\ ArrivalsOK' /\ RxOK' /\ RelOK'
<1>1. BootOK' /\ ArrivalsOK'
  BY EeKeeps
<1>2. UNCHANGED <<mem, vis, rxSeq, pump>> /\ Shapes /\ RxOK /\ RelOK
  BY DEF IopSame, iopVars, InStep
<1>3. RxOK'
  BY <1>2, RxSame
<1>4. Released' = Released
  BY DEF Released
<1>5. RelOK'
  BY <1>2, <1>4, RelSame
<1>. QED BY <1>1, <1>3, <1>5

\* A flush that finds nothing to do, or starts a batch.
LEMMA FlushKeeps ==
    ASSUME InStep, IopSame, UNCHANGED <<rxTail, read, sub, nextSlot, eeSeq, txData, staged>>,
           ee.at \in {"loop", "release"}, NEW t \in {"loop", "wait"}, FlushTx(sub, t),
           t = "wait" => Cardinality(staged) < MaxTx,
           rel' \in Seq(Entries), Len(rel') \in Nat, Len(rel') < Watermark
    PROVE  /\ Shapes' /\ CallOK' /\ StagedOK' /\ TxOK' /\ CalmOK'
           /\ faults' \in {faults, faults + 1} /\ ee'.at \in {"loop", "wait", "batch"}
<1>1. /\ Shapes /\ StagedOK /\ CalmOK /\ TxOK /\ CallOK /\ sub \in Seq(Submits)
      /\ UNCHANGED <<mem, vis, txSeq, wire, dropped, chip>> /\ sub' = sub
  BY DEF InStep, Shapes, IopSame, iopVars
<1>2. /\ faults' \in {faults, faults + 1}
      /\ sub = << >> => ee'.at = t /\ rpc'.at = "none" /\ rpc'.rc = "ok"
      /\ sub # << >> => ee'.at = "batch" /\ ee'.then = t
      /\ faults' = faults => rpc'.at # "done" /\ rpc'.rc = "ok"
  BY <1>1, FlushFacts
<1>3. Shapes'
  <2>1. /\ ee' \in [at : Places, i : Nat, frame : Nat, then : Places]
        /\ rpc' \in Calls /\ faults' \in Nat
    BY <1>1, FlushShapes
  <2>2. /\ rxTail' \in Nat /\ nextSlot' \in TxSlot /\ eeSeq' \in [TxSlot -> Nat]
        /\ txData' \in [TxSlot -> 0 .. MaxTx] /\ read' \in Seq(Nat) /\ staged' \in SUBSET Nat
    BY <1>1 DEF Shapes
  <2>. QED BY <1>1, <2>1, <2>2, EeShapes
<1>4. CallOK'
  <2>1. Len(sub') <= Batch
    BY <1>1 DEF CallOK
  <2>2. FlushTx(sub', t)
    BY <1>1
  <2>3. sub' \in Seq(Submits)
    BY <1>1
  <2>. QED BY <1>1, <2>1, <2>2, <2>3, CallFlushed
<1>5. StagedOK'
  <2>1. t = "loop" => ~Waiting'
    BY <1>2 DEF Waiting
  <2>. QED BY <1>1, <2>1 DEF StagedOK
<1>6. TxOK'
  BY <1>1, TxSame
<1>7. CalmOK'
  <2>1. ~Taken /\ ee.at # "single"
    BY DEF Taken
  <2>2. faults = 0 => Calm'
    BY <1>1, <2>1, CalmBefore
  <2>3. ee'.at # "single"
    BY <1>2
  <2>4. faults' = faults => ~Taken' /\ rpc'.rc = "ok"
    BY <1>2 DEF Taken
  <2>. QED BY <1>1, <1>2, <2>2, <2>3, <2>4, CalmCalls
<1>. QED BY <1>2, <1>3, <1>4, <1>5, <1>6, <1>7

LEMMA LoopsRelease ==
    ASSUME InStep, LoopReleases
    PROVE  InStep'
<1>1. /\ ee.at = "loop" /\ ReleasePending(rel) /\ IopSame
      /\ UNCHANGED <<rxTail, rel, sub, nextSlot, eeSeq, rxSeq, txSeq, txData, read, staged>>
      /\ UNCHANGED <<mem, vis, pump, wire, dropped, chip>>
      /\ Shapes /\ CallOK /\ RxOK /\ RelOK /\ StagedOK /\ TxOK /\ CalmOK
  BY DEF LoopReleases, IopSame, eeVars, iopVars, hist, InStep
<1>2. /\ rel \in Seq(Entries) /\ Len(rel) \in Nat /\ Len(rel) < Watermark /\ sub \in Seq(Submits)
      /\ Len(sub) < Batch /\ rpc.at = "none" /\ ~Released /\ ~Taken /\ ~Waiting
  <2>1. rel \in Seq(Entries) /\ sub \in Seq(Submits)
    BY <1>1 DEF Shapes
  <2>. QED BY <1>1, <2>1 DEF CallOK, Released, Taken, Waiting
<1>3. CASE rel = << >>
  <2>1. FlushTx(sub, "loop")
    BY <1>1, <1>3 DEF ReleasePending
  <2>2. /\ Shapes' /\ CallOK' /\ StagedOK' /\ TxOK' /\ CalmOK'
        /\ faults' \in {faults, faults + 1} /\ ee'.at \in {"loop", "wait", "batch"}
    BY <1>1, <1>2, <2>1, FlushKeeps
  <2>3. BootOK' /\ ArrivalsOK' /\ RxOK' /\ RelOK'
    BY <1>1, <2>2, EeSends
  <2>. QED BY <2>2, <2>3 DEF InStep
<1>4. CASE rel # << >>
  <2>1. /\ faults' \in {faults, faults + 1} /\ ee'.at = "release"
        /\ faults' = faults => rpc'.at # "done" /\ rpc'.rc = "ok"
    BY <1>1, <1>2, <1>4, ReleaseFacts
  <2>2. /\ ee' \in [at : Places, i : Nat, frame : Nat, then : Places]
        /\ rpc' \in Calls /\ faults' \in Nat
    BY <1>1, <1>2, ReleaseShapes
  <2>3. Shapes'
    <3>1. /\ rxTail' \in Nat /\ nextSlot' \in TxSlot /\ eeSeq' \in [TxSlot -> Nat]
          /\ txData' \in [TxSlot -> 0 .. MaxTx] /\ read' \in Seq(Nat) /\ staged' \in SUBSET Nat
          /\ rel' \in Seq(Entries) /\ sub' \in Seq(Submits)
      BY <1>1 DEF Shapes
    <3>. QED BY <1>1, <2>2, <3>1, EeShapes
  <2>4. CallOK'
    <3>1. rel' = rel /\ sub' = sub
      BY <1>1
    <3>2. Len(sub') < Batch /\ Len(sub') \in Nat /\ Len(rel') <= Watermark
      BY <1>2, <3>1, Consts
    <3>. QED BY <1>1, <1>2, <1>4, <3>1, <3>2, CallReleased
  <2>5. BootOK' /\ ArrivalsOK'
    BY <1>1, <2>1, EeKeeps
  <2>6. RxOK'
    BY <1>1, RxSame
  <2>7. RelOK'
    <3>1. /\ mem.tail + Len(rel) <= rxTail /\ Gone = rxTail - mem.tail - Len(rel)
          /\ \A i \in 1 .. Len(rel) :
                LET s == RxSlotOf(rxTail - Len(rel) + i - 1)
                IN  rel[i].slot = s /\ rel[i].seq = rxSeq[s]
          /\ Gone <= Watermark * faults
      BY <1>1, <1>2 DEF RelOK, Gone
    <3>2. Released' => faults' = faults + 1
      BY <2>1 DEF Released
    <3>3. Len(rel) <= Watermark /\ rxTail \in Nat
      BY <1>1, <1>2, Consts DEF Shapes
    <3>. QED BY <1>1, <1>2, <2>1, <3>1, <3>2, <3>3, RelCalls
  <2>8. StagedOK'
    <3>1. ~Waiting'
      BY <2>1 DEF Waiting
    <3>. QED BY <1>1, <3>1, StagedSame
  <2>9. TxOK'
    BY <1>1, TxSame
  <2>10. CalmOK'
    <3>1. faults = 0 => Calm'
      BY <1>1, <1>2, CalmBefore
    <3>2. ee'.at # "single" /\ (faults' = faults => ~Taken' /\ rpc'.rc = "ok")
      BY <2>1 DEF Taken
    <3>. QED BY <1>1, <2>1, <3>1, <3>2, CalmCalls
  <2>. QED BY <2>3, <2>4, <2>5, <2>6, <2>7, <2>8, <2>9, <2>10 DEF InStep
<1>. QED BY <1>3, <1>4

LEMMA ReleasesReturn ==
    ASSUME InStep, ReleaseReturns
    PROVE  InStep'
<1>1. /\ ee.at = "release" /\ rpc.at = "done" /\ rel' = << >> /\ FlushTx(sub, "loop") /\ IopSame
      /\ UNCHANGED <<rxTail, sub, nextSlot, eeSeq, rxSeq, txSeq, txData, read, staged>>
      /\ UNCHANGED <<mem, vis, pump>> /\ Shapes /\ RxOK /\ RelOK
  BY DEF ReleaseReturns, IopSame, iopVars, hist, InStep
<1>2. rel' \in Seq(Entries) /\ Len(rel') = 0 /\ Len(rel') < Watermark
  BY <1>1, Consts
<1>3. /\ Shapes' /\ CallOK' /\ StagedOK' /\ TxOK' /\ CalmOK'
      /\ faults' \in {faults, faults + 1} /\ ee'.at \in {"loop", "wait", "batch"}
  BY <1>1, <1>2, FlushKeeps
<1>4. BootOK' /\ ArrivalsOK'
  BY <1>1, <1>3, EeKeeps
<1>5. RxOK'
  BY <1>1, RxSame
<1>6. RelOK'
  <2>1. rxTail - mem.tail <= Watermark * faults
    BY <1>1, Numbers DEF RelOK, Gone, Released
  <2>2. ~Released'
    BY <1>3 DEF Released
  <2>3. mem.tail <= rxTail /\ mem.tail \in Nat /\ rxTail \in Nat
    BY <1>1, Numbers DEF RxOK
  <2>4. /\ mem.tail + Len(rel') <= rxTail' /\ rxTail' - mem.tail - Len(rel') <= Watermark * faults
        /\ rxTail' \in Nat /\ Len(rel') \in Nat /\ Len(rel') <= Watermark
    <3>1. rxTail' = rxTail /\ rxTail - mem.tail - 0 = rxTail - mem.tail /\ mem.tail + 0 = mem.tail
      BY <1>1, <2>3
    <3>. QED BY <1>2, <2>1, <2>3, <3>1, Consts
  <2>5. \A i \in 1 .. Len(rel') : FALSE
    BY <1>2
  <2>. QED BY <1>1, <1>3, <2>2, <2>4, <2>5, RelCalls
<1>. QED BY <1>3, <1>4, <1>5, <1>6 DEF InStep

\* Back in the loop, or in the wait for a slot, with nothing staged any more.
LEMMA Forgets ==
    ASSUME InStep, IopSame, UNCHANGED <<rxTail, rel, nextSlot, eeSeq, txData, read, staged, faults>>,
           ee.at \in {"batch", "single"}, Flushed, faults = 0 => Taken
    PROVE  InStep'
<1>1. /\ Shapes /\ CallOK /\ StagedOK /\ TxOK /\ CalmOK /\ faults \in Nat
      /\ UNCHANGED <<mem, vis, txSeq, wire, dropped, chip>> /\ sub' = << >> /\ rpc' = Idle
  BY DEF InStep, Shapes, IopSame, iopVars, Flushed
<1>2. ee.then \in {"loop", "wait"} /\ Len(rel) <= Watermark /\ Len(rel) < Watermark
  BY <1>1 DEF CallOK
<1>3. /\ ee' \in [at : Places, i : Nat, frame : Nat, then : Places]
      /\ ee'.at = ee.then
  <2>. DEFINE a == At(ee.then)
  <2>1. a \in [at : Places, i : Nat, frame : Nat, then : Places] /\ a.at = ee.then
    <3>1. ee.then \in Places
      BY <1>2 DEF Places
    <3>. QED BY <3>1, AtTypes
  <2>2. ee.frame \in Nat /\ ee' = [a EXCEPT !.frame = ee.frame]
    BY <1>1 DEF Shapes, Flushed
  <2>. HIDE DEF a
  <2>. QED BY <2>1, <2>2
<1>4. rpc' \in Calls /\ rpc'.at = "none" /\ rpc'.rc = "ok"
  BY <1>1, IdleType
<1>5. BootOK' /\ ArrivalsOK' /\ RxOK' /\ RelOK'
  BY <1>2, <1>3, EeSends
<1>6. Shapes'
  <2>1. /\ rxTail' \in Nat /\ rel' \in Seq(Entries) /\ nextSlot' \in TxSlot
        /\ eeSeq' \in [TxSlot -> Nat] /\ txData' \in [TxSlot -> 0 .. MaxTx]
        /\ read' \in Seq(Nat) /\ staged' \in SUBSET Nat /\ faults' \in Nat
    BY <1>1 DEF Shapes
  <2>2. sub' \in Seq(Submits)
    BY <1>1
  <2>. QED BY <1>1, <1>3, <1>4, <2>1, <2>2, EeShapes
<1>7. CallOK'
  <2>1. Len(sub') = 0 /\ 0 <= Batch /\ 0 < Batch /\ rel' = rel
    BY <1>1, Consts
  <2>2. ee'.at \in {"loop", "wait"}
    BY <1>2, <1>3
  <2>. QED BY <1>2, <1>4, <2>1, <2>2 DEF CallOK
<1>8. StagedOK'
  <2>1. Waiting' => Waiting
    BY <1>2, <1>3 DEF Waiting
  <2>. QED BY <1>1, <2>1, StagedSame
<1>9. Claimed' = {} /\ Frames' = {} /\ Busy' = Busy /\ Out' = Out
  BY <1>1 DEF Claimed, Frames, Busy, Out
<1>10. TxOK'
  <2>1. Live' \subseteq Live
    BY <1>9 DEF Live
  <2>2. \A i \in 1 .. Len(sub') : FALSE
    BY <1>1
  <2>. QED BY <1>1, <1>9, <2>1, <2>2 DEF TxOK
<1>11. CalmOK'
  <2>1. SUFFICES ASSUME faults = 0
                 PROVE  /\ \A s \in TxSlot : txSeq[s] = eeSeq[s]
                        /\ staged = Handed
    <3>1. Handed' = Handed /\ ~Taken'
      BY <1>1, <1>2, <1>3, <1>9 DEF Handed, Taken
    <3>2. \A i \in 1 .. Len(sub') : FALSE
      BY <1>1
    <3>. QED BY <1>1, <1>2, <1>3, <1>4, <1>9, <2>1, <3>1, <3>2 DEF CalmOK
  <2>2. /\ Frames \subseteq Handed /\ staged = Handed \cup Frames
        /\ \A i \in 1 .. Len(sub) : txSeq[sub[i].slot] = eeSeq[sub[i].slot]
        /\ \A s \in TxSlot \ Claimed : txSeq[s] = eeSeq[s]
    BY <1>1, <2>1 DEF CalmOK
  <2>3. DOMAIN sub = 1 .. Len(sub)
    BY <1>1 DEF Shapes
  <2>4. \A s \in Claimed : txSeq[s] = eeSeq[s]
    BY <2>2, <2>3 DEF Claimed
  <2>. QED BY <2>2, <2>4
<1>. QED BY <1>5, <1>6, <1>7, <1>8, <1>10, <1>11 DEF InStep

\* After a batch that failed, its entries are submitted one by one.
LEMMA Singles ==
    ASSUME InStep, IopSame,
           UNCHANGED <<rxTail, rel, sub, nextSlot, eeSeq, txData, read, staged>>,
           ee.at \in {"batch", "single"}, rpc.at = "done", faults # 0,
           NEW k \in 1 .. Len(sub), ee' = [ee EXCEPT !.at = "single", !.i = k],
           Call("submit", <<sub[k]>>)
    PROVE  InStep'
<1>1. /\ Shapes /\ CallOK /\ StagedOK /\ TxOK /\ faults \in Nat /\ sub \in Seq(Submits)
      /\ UNCHANGED <<mem, vis, txSeq, wire, dropped, chip>>
      /\ ee \in [at : Places, i : Nat, frame : Nat, then : Places]
  BY DEF InStep, Shapes, IopSame, iopVars
<1>2. /\ ee.then \in {"loop", "wait"} /\ sub # << >> /\ Len(rel) < Watermark
      /\ Len(rel) <= Watermark /\ Len(sub) <= Batch
  BY <1>1 DEF CallOK
<1>3. /\ ee' \in [at : Places, i : Nat, frame : Nat, then : Places]
      /\ ee'.at = "single" /\ ee'.i = k /\ ee'.then = ee.then
  <2>1. "single" \in Places /\ k \in Nat
    BY <1>1 DEF Places
  <2>. QED BY <1>1, <2>1
<1>4. <<sub[k]>> \in Seq(Submits) /\ Range(<<sub[k]>>) = {sub[k]} /\ sub[k] \in Range(sub)
  <2>1. sub[k] \in Submits /\ k \in DOMAIN sub
    BY <1>1
  <2>2. sub[k] \in Range(sub)
    BY <2>1 DEF Range
  <2>. DEFINE e == sub[k]
  <2>3. <<e>> \in Seq(Submits) /\ Range(<<e>>) = {e}
    <3>. HIDE DEF e
    <3>1. e \in Submits => <<e>> \in Seq(Submits) /\ DOMAIN <<e>> = {1} /\ <<e>>[1] = e
      OBVIOUS
    <3>2. e \in Submits
      BY <2>1 DEF e
    <3>. QED BY <3>1, <3>2 DEF Range
  <2>. QED BY <2>2, <2>3
<1>5. /\ rpc' \in Calls /\ rpc'.entries = <<sub[k]>> /\ rpc'.at \in {"submit", "done"}
      /\ faults' \in {faults, faults + 1} /\ faults' \in Nat
  BY <1>1, <1>4, CallTypes DEF Lists
<1>6. BootOK' /\ ArrivalsOK' /\ RxOK' /\ RelOK'
  BY <1>3, <1>5, EeSends
<1>7. Shapes'
  <2>1. /\ rxTail' \in Nat /\ rel' \in Seq(Entries) /\ nextSlot' \in TxSlot
        /\ eeSeq' \in [TxSlot -> Nat] /\ txData' \in [TxSlot -> 0 .. MaxTx]
        /\ read' \in Seq(Nat) /\ staged' \in SUBSET Nat /\ sub' \in Seq(Submits)
    BY <1>1 DEF Shapes
  <2>. QED BY <1>1, <1>3, <1>5, <2>1, EeShapes
<1>8. CallOK'
  <2>1. rpc'.entries \in Seq(Submits) /\ Range(rpc'.entries) \subseteq Range(sub')
    <3>1. sub' = sub
      OBVIOUS
    <3>. QED BY <1>4, <1>5, <3>1
  <2>. QED BY <1>2, <1>3, <1>5, <2>1 DEF CallOK
<1>9. StagedOK'
  <2>1. Waiting' => Waiting
    BY <1>3 DEF Waiting
  <2>. QED BY <1>1, <2>1, StagedSame
<1>10. TxOK'
  BY <1>1, TxSame
<1>11. CalmOK'
  BY <1>1, <1>5 DEF CalmOK
<1>. QED BY <1>6, <1>7, <1>8, <1>9, <1>10, <1>11 DEF InStep

LEMMA BatchesReturn ==
    ASSUME InStep, BatchReturns
    PROVE  InStep'
<1>1. /\ ee.at = "batch" /\ rpc.at = "done" /\ IopSame /\ CallOK /\ CalmOK /\ Shapes
      /\ UNCHANGED <<rxTail, rel, nextSlot, eeSeq, txData, read, staged>>
  BY DEF BatchReturns, IopSame, iopVars, hist, InStep
<1>2. CASE Flushed /\ UNCHANGED faults
  BY <1>1, <1>2, Forgets DEF Taken
<1>3. CASE /\ rpc.rc # "ok" /\ ee' = [ee EXCEPT !.at = "single", !.i = 1]
           /\ Call("submit", <<sub[1]>>) /\ UNCHANGED sub
  <2>1. 1 \in 1 .. Len(sub)
    <3>1. sub \in Seq(Submits) /\ sub # << >>
      BY <1>1 DEF Shapes, CallOK
    <3>. QED BY <3>1
  <2>2. faults # 0
    BY <1>1, <1>3 DEF CalmOK
  <2>. QED BY <1>1, <1>3, <2>1, <2>2, Singles
<1>. QED BY <1>2, <1>3 DEF BatchReturns

LEMMA SinglesReturn ==
    ASSUME InStep, SingleReturns
    PROVE  InStep'
<1>1. /\ ee.at = "single" /\ rpc.at = "done" /\ IopSame /\ CallOK /\ CalmOK /\ Shapes
      /\ UNCHANGED <<rxTail, rel, nextSlot, eeSeq, txData, read, staged>>
  BY DEF SingleReturns, IopSame, iopVars, hist, InStep
<1>2. faults # 0
  BY <1>1 DEF CalmOK
<1>3. CASE Flushed /\ UNCHANGED faults
  BY <1>1, <1>2, <1>3, Forgets
<1>4. CASE /\ ee.i < Len(sub) /\ ee' = [ee EXCEPT !.i = @ + 1]
           /\ Call("submit", <<sub[ee.i + 1]>>) /\ UNCHANGED sub
  <2>1. ee.i \in 1 .. Len(sub) /\ Len(sub) \in Nat
    BY <1>1 DEF CallOK, Shapes
  <2>2. ee.i + 1 \in 1 .. Len(sub)
    BY <1>4, <2>1
  <2>3. ee' = [ee EXCEPT !.at = "single", !.i = ee.i + 1]
    <3>1. ee \in [at : Places, i : Nat, frame : Nat, then : Places]
      BY <1>1 DEF Shapes
    <3>. QED BY <1>1, <1>4, <3>1
  <2>. QED BY <1>1, <1>2, <1>4, <2>2, <2>3, Singles
<1>. QED BY <1>3, <1>4 DEF SingleReturns


-----------------------------------------------------------------------------
(* The EE: sending                                                         *)

\* The frames accepted stay numbered without gaps.
LEMMA OneMore ==
    ASSUME StagedOK, Cardinality(staged) < MaxTx
    PROVE  /\ NextFrame \in 1 .. MaxTx /\ NextFrame \notin staged
           /\ IsFiniteSet(staged \cup {NextFrame})
           /\ Cardinality(staged \cup {NextFrame}) = NextFrame
           /\ staged \cup {NextFrame} = 1 .. NextFrame
<1>. DEFINE c == Cardinality(staged)
<1>1. IsFiniteSet(staged) /\ staged = 1 .. c /\ NextFrame = c + 1 /\ c < MaxTx /\ MaxTx \in Nat
  BY Consts DEF StagedOK, NextFrame
<1>2. c \in Nat
  BY <1>1, FS_CardinalityType
<1>3. NextFrame \in 1 .. MaxTx /\ NextFrame \notin staged /\ staged \cup {NextFrame} = 1 .. NextFrame
  <2>. HIDE DEF c
  <2>. QED BY <1>1, <1>2
<1>4. /\ IsFiniteSet(staged \cup {NextFrame})
      /\ Cardinality(staged \cup {NextFrame}) = c + 1
  BY <1>1, <1>3, FS_AddElement
<1>. QED BY <1>1, <1>3, <1>4

\* A frame goes into a slot that is free on both sides and not claimed.
LEMMA SlotTaken ==
    ASSUME Shapes, TxOK, FreeSlots # {}
    PROVE  /\ Scanned \in TxSlot /\ Scanned \notin Claimed /\ mem.tx[Scanned] = "FREE"
           /\ Scanned \notin Live
<1>1. Scanned \in TxSlot /\ Scanned \notin Claimed /\ vis.tx[Scanned] = "FREE"
  BY ScannedFree DEF FreeSlots
<1>2. mem.tx[Scanned] = "FREE"
  BY <1>1 DEF TxOK
<1>. QED BY <1>1, <1>2 DEF Live, Busy

\* What is still to be handed over, to be sent, or on its way is known.
LEMMA LiveStaged ==
    ASSUME Shapes, TxOK
    PROVE  \A s \in Live : s \in TxSlot /\ txData[s] \in staged
<1>1. \A s \in Busy : s \in TxSlot /\ txData[s] \in staged
  BY DEF TxOK, Busy
<1>2. ASSUME NEW s \in Claimed PROVE s \in TxSlot /\ txData[s] \in staged
  <2>1. sub \in Seq(Submits) /\ DOMAIN sub = 1 .. Len(sub)
    BY DEF Shapes
  <2>2. PICK i \in 1 .. Len(sub) : sub[i].slot = s
    BY <2>1 DEF Claimed
  <2>3. sub[i] \in Submits
    BY <2>1
  <2>4. sub[i].slot \in TxSlot
    BY <2>3 DEF Submits
  <2>. QED BY <2>2, <2>4 DEF TxOK, SubOK
<1>. QED BY <1>1, <1>2 DEF Live

NextSub == [slot |-> Scanned, seq |-> eeSeq[Scanned], frame |-> NextFrame]

LEMMA SubAppended ==
    ASSUME Shapes, Scanned \in TxSlot, NextFrame \in 1 .. MaxTx, sub' = Append(sub, NextSub)
    PROVE  /\ NextSub \in Submits /\ NextSub.slot = Scanned /\ NextSub.seq = eeSeq[Scanned]
           /\ NextSub.frame = NextFrame
           /\ sub' \in Seq(Submits) /\ Len(sub') = Len(sub) + 1 /\ Len(sub) \in Nat
           /\ sub'[Len(sub) + 1] = NextSub /\ \A i \in 1 .. Len(sub) : sub'[i] = sub[i]
           /\ \A i \in 1 .. Len(sub) : sub[i] \in Submits /\ sub[i].slot \in Claimed
           /\ Claimed' = Claimed \cup {Scanned} /\ Frames' = Frames \cup {NextFrame}
<1>1. sub \in Seq(Submits) /\ eeSeq[Scanned] \in Nat
  BY DEF Shapes
<1>2. /\ NextSub \in Submits /\ NextSub.slot = Scanned /\ NextSub.seq = eeSeq[Scanned]
      /\ NextSub.frame = NextFrame
  BY <1>1 DEF NextSub, Submits
<1>3. /\ sub' \in Seq(Submits) /\ Len(sub') = Len(sub) + 1 /\ Len(sub) \in Nat
      /\ sub'[Len(sub) + 1] = NextSub /\ \A i \in 1 .. Len(sub) : sub'[i] = sub[i]
      /\ DOMAIN sub = 1 .. Len(sub) /\ DOMAIN sub' = 1 .. Len(sub) + 1
      /\ \A i \in 1 .. Len(sub) : sub[i] \in Submits
  BY <1>1, <1>2
<1>4. \A i \in 1 .. Len(sub) + 1 : i \in 1 .. Len(sub) \/ i = Len(sub) + 1
  BY <1>3
<1>5. /\ \A i \in 1 .. Len(sub) : i \in 1 .. Len(sub) + 1
      /\ Len(sub) + 1 \in 1 .. Len(sub) + 1
  BY <1>3
<1>6. Claimed' = Claimed \cup {Scanned}
  BY <1>2, <1>3, <1>4, <1>5 DEF Claimed
<1>7. Frames' = Frames \cup {NextFrame}
  BY <1>2, <1>3, <1>4, <1>5 DEF Frames
<1>8. \A i \in 1 .. Len(sub) : sub[i].slot \in Claimed
  BY <1>3 DEF Claimed
<1>. QED BY <1>2, <1>3, <1>6, <1>7, <1>8

LEMMA TxStages ==
    ASSUME Shapes, TxOK, StagedOK, Cardinality(staged) < MaxTx, FreeSlots # {}, IopSame,
           txData' = [txData EXCEPT ![Scanned] = NextFrame],
           eeSeq' = [eeSeq EXCEPT ![Scanned] = @ + 1],
           sub' = Append(sub, NextSub), staged' = staged \cup {NextFrame}
    PROVE  TxOK' /\ Busy' = Busy /\ Out' = Out /\ (\A s \in Busy : txData'[s] = txData[s])
<1>1. /\ Scanned \in TxSlot /\ Scanned \notin Claimed /\ mem.tx[Scanned] = "FREE"
      /\ Scanned \notin Live
  BY SlotTaken
<1>2. NextFrame \in 1 .. MaxTx /\ NextFrame \notin staged
  BY OneMore
<1>3. /\ UNCHANGED <<mem, vis, txSeq, wire, dropped, chip>>
      /\ eeSeq \in [TxSlot -> Nat] /\ txSeq \in [TxSlot -> Nat] /\ txData \in [TxSlot -> 0 .. MaxTx]
  BY DEF IopSame, iopVars, Shapes
<1>4. /\ txData'[Scanned] = NextFrame /\ eeSeq'[Scanned] = eeSeq[Scanned] + 1
      /\ \A s \in TxSlot \ {Scanned} : txData'[s] = txData[s] /\ eeSeq'[s] = eeSeq[s]
  BY <1>1, <1>3
<1>5. /\ NextSub \in Submits /\ NextSub.slot = Scanned /\ NextSub.seq = eeSeq[Scanned]
      /\ NextSub.frame = NextFrame
      /\ Len(sub') = Len(sub) + 1 /\ Len(sub) \in Nat
      /\ sub'[Len(sub) + 1] = NextSub /\ \A i \in 1 .. Len(sub) : sub'[i] = sub[i]
      /\ \A i \in 1 .. Len(sub) : sub[i] \in Submits /\ sub[i].slot \in Claimed
      /\ Claimed' = Claimed \cup {Scanned}
  BY <1>1, <1>2, SubAppended
<1>6. \A i \in 1 .. Len(sub') : i \in 1 .. Len(sub) \/ i = Len(sub) + 1
  BY <1>5
<1>7. Out' = Out /\ Busy' = Busy /\ Live' = Live \cup {Scanned}
  BY <1>3, <1>5 DEF Out, Busy, Live
<1>8. Out \subseteq staged /\ Out' \subseteq staged'
  BY <1>7 DEF TxOK
<1>9. ASSUME NEW s \in TxSlot PROVE txSeq'[s] <= eeSeq'[s]
  <2>1. txSeq[s] <= eeSeq[s] /\ txSeq'[s] = txSeq[s] /\ txSeq[s] \in Nat /\ eeSeq[s] \in Nat
    BY <1>3 DEF TxOK
  <2>2. eeSeq'[s] = eeSeq[s] \/ eeSeq'[s] = eeSeq[s] + 1
    BY <1>4
  <2>. QED BY <2>1, <2>2
<1>10. ASSUME NEW i \in 1 .. Len(sub') PROVE SubOK(sub[i])'
  <2>. DEFINE e == sub[i]
  <2>1. CASE i \in 1 .. Len(sub)
    <3>1. e' = e /\ SubOK(e) /\ e.slot \in TxSlot \ {Scanned}
      <4>1. e' = e /\ e \in Submits /\ e.slot \in Claimed /\ SubOK(e)
        BY <1>5, <2>1 DEF TxOK
      <4>2. e.slot \in TxSlot
        BY <4>1 DEF Submits
      <4>. QED BY <1>1, <4>1, <4>2
    <3>2. txData'[e.slot] = txData[e.slot] /\ eeSeq'[e.slot] = eeSeq[e.slot]
      BY <1>4, <3>1
    <3>3. SubOK(e)'
      <4>. HIDE DEF e
      <4>. QED BY <1>3, <1>7, <3>1, <3>2 DEF SubOK
    <3>. QED BY <3>3
  <2>2. CASE i = Len(sub) + 1
    <3>1. e'.slot = Scanned /\ e'.seq = eeSeq[Scanned] /\ e'.frame = NextFrame
      BY <1>5, <2>2
    <3>2. /\ eeSeq'[Scanned] = eeSeq[Scanned] + 1 /\ txData'[Scanned] = NextFrame
          /\ NextFrame \in staged' /\ mem'.tx[Scanned] = "FREE" /\ NextFrame \notin Out'
      BY <1>1, <1>2, <1>3, <1>4, <1>7, <1>8
    <3>3. SubOK(e)'
      <4>. HIDE DEF e
      <4>. QED BY <3>1, <3>2 DEF SubOK
    <3>. QED BY <3>3
  <2>. QED BY <1>6, <2>1, <2>2
<1>11. \A i, j \in 1 .. Len(sub') : sub'[i].slot = sub'[j].slot => i = j
  <2>1. \A i \in 1 .. Len(sub) : sub'[i].slot = sub[i].slot /\ sub[i].slot # Scanned
    BY <1>1, <1>5
  <2>2. \A i, j \in 1 .. Len(sub) : sub[i].slot = sub[j].slot => i = j
    BY DEF TxOK
  <2>3. sub'[Len(sub) + 1].slot = Scanned
    BY <1>5
  <2>. QED BY <1>6, <2>1, <2>2, <2>3
<1>12. \A s, t \in Live' : txData'[s] = txData'[t] => s = t
  <2>1. \A s \in Live : txData'[s] = txData[s] /\ txData[s] # NextFrame
    BY <1>1, <1>2, <1>4, LiveStaged
  <2>2. \A s, t \in Live : txData[s] = txData[t] => s = t
    BY DEF TxOK
  <2>. QED BY <1>4, <1>7, <2>1, <2>2
<1>13. \A s \in Busy : txData'[s] = txData[s] /\ txData'[s] \in staged' \ Out'
  <2>1. \A s \in Busy : s \in TxSlot \ {Scanned}
    BY <1>1 DEF Live, Busy
  <2>. QED BY <1>4, <1>7, <2>1 DEF TxOK
<1>14. \A s \in TxSlot : vis'.tx[s] = "FREE" => mem'.tx[s] = "FREE"
  BY <1>3 DEF TxOK
<1>15. TxOK'
  BY <1>7, <1>8, <1>9, <1>10, <1>11, <1>12, <1>13, <1>14 DEF TxOK
<1>. QED BY <1>7, <1>13, <1>15

LEMMA CalmStages ==
    ASSUME Shapes, TxOK, StagedOK, CalmOK, ~Taken, Cardinality(staged) < MaxTx,
           FreeSlots # {}, IopSame,
           txData' = [txData EXCEPT ![Scanned] = NextFrame],
           eeSeq' = [eeSeq EXCEPT ![Scanned] = @ + 1],
           sub' = Append(sub, NextSub), staged' = staged \cup {NextFrame}
    PROVE  faults = 0 => Calm'
<1>1. SUFFICES ASSUME faults = 0 PROVE Calm'
  OBVIOUS
<1>2. Busy' = Busy /\ Out' = Out /\ (\A s \in Busy : txData'[s] = txData[s])
  BY TxStages
<1>3. /\ Scanned \in TxSlot /\ Scanned \notin Claimed
  BY SlotTaken
<1>4. NextFrame \in 1 .. MaxTx
  BY OneMore
<1>5. /\ \A s \in TxSlot \ Claimed : txSeq[s] = eeSeq[s]
      /\ \A i \in 1 .. Len(sub) : txSeq[sub[i].slot] = sub[i].seq
      /\ staged = Handed \cup Frames
  BY <1>1 DEF CalmOK
<1>6. /\ UNCHANGED <<txSeq, dropped>> /\ eeSeq \in [TxSlot -> Nat]
  BY DEF IopSame, iopVars, Shapes
<1>7. /\ NextSub.slot = Scanned /\ NextSub.seq = eeSeq[Scanned]
      /\ Len(sub') = Len(sub) + 1 /\ Len(sub) \in Nat
      /\ sub'[Len(sub) + 1] = NextSub /\ \A i \in 1 .. Len(sub) : sub'[i] = sub[i]
      /\ Claimed' = Claimed \cup {Scanned} /\ Frames' = Frames \cup {NextFrame}
  BY <1>3, <1>4, SubAppended
<1>8. Handed' = Handed
  BY <1>2, <1>6 DEF Handed
<1>9. staged' = Handed' \cup Frames'
  BY <1>5, <1>7, <1>8
<1>10. \A s \in TxSlot \ Claimed' : txSeq'[s] = eeSeq'[s]
  BY <1>3, <1>5, <1>6, <1>7
<1>11. ASSUME NEW i \in 1 .. Len(sub') PROVE txSeq'[sub'[i].slot] = sub'[i].seq
  <2>1. CASE i \in 1 .. Len(sub)
    BY <1>5, <1>6, <1>7, <2>1
  <2>2. CASE i = Len(sub) + 1
    BY <1>3, <1>5, <1>6, <1>7, <2>2
  <2>. QED BY <1>7, <2>1, <2>2
<1>. QED BY <1>9, <1>10, <1>11 DEF Calm

LEMMA Stages ==
    ASSUME InStep, IopSame, UNCHANGED <<rxTail, rel, read>>, ee.at \in {"loop", "wait"},
           Cardinality(staged) < MaxTx, FreeSlots # {}, StageFrame(NextFrame)
    PROVE  InStep'
<1>1. /\ nextSlot' = (Scanned + 1) % TxSlots
      /\ txData' = [txData EXCEPT ![Scanned] = NextFrame]
      /\ eeSeq' = [eeSeq EXCEPT ![Scanned] = @ + 1]
      /\ sub' = Append(sub, NextSub) /\ staged' = staged \cup {NextFrame}
      /\ IF Len(sub') >= Batch THEN FlushTx(sub', "loop")
                               ELSE ee' = At("loop") /\ UNCHANGED <<rpc, faults>>
  BY DEF StageFrame, NextSub
<1>2. /\ Shapes /\ CallOK /\ StagedOK /\ TxOK /\ CalmOK /\ faults \in Nat /\ rpc \in Calls
      /\ UNCHANGED <<mem, vis, txSeq, wire, dropped, chip>>
  BY DEF InStep, Shapes, IopSame, iopVars
<1>3. Scanned \in TxSlot
  BY <1>2, SlotTaken
<1>4. /\ NextFrame \in 1 .. MaxTx /\ IsFiniteSet(staged') /\ Cardinality(staged') = NextFrame
      /\ staged' = 1 .. NextFrame
  BY <1>1, <1>2, OneMore
<1>5. sub' \in Seq(Submits) /\ Len(sub') = Len(sub) + 1 /\ Len(sub) \in Nat /\ sub' # << >>
  <2>1. sub' \in Seq(Submits) /\ Len(sub') = Len(sub) + 1 /\ Len(sub) \in Nat
    BY <1>1, <1>2, <1>3, <1>4, SubAppended
  <2>. QED BY <2>1
<1>6. /\ rpc.at = "none" /\ Len(rel) < Watermark /\ Len(rel) <= Watermark /\ Len(sub) < Batch
      /\ ~Taken /\ (faults = 0 => rpc.rc = "ok")
  BY <1>2 DEF CallOK, Taken, CalmOK
<1>7. /\ faults' \in {faults, faults + 1} /\ faults' \in Nat
      /\ ee' \in [at : Places, i : Nat, frame : Nat, then : Places] /\ rpc' \in Calls
      /\ (ee'.at = "loop" \/ (ee'.at = "batch" /\ ee'.then = "loop")) /\ CallOK'
      /\ faults' = faults => ~Taken' /\ (faults = 0 => rpc'.rc = "ok")
  <2>1. CASE Len(sub') >= Batch
    <3>1. FlushTx(sub', "loop")
      BY <1>1, <2>1
    <3>2. /\ faults' \in {faults, faults + 1} /\ ee'.at = "batch" /\ ee'.then = "loop"
          /\ faults' = faults => rpc'.at # "done" /\ rpc'.rc = "ok"
      BY <1>2, <1>5, <3>1, FlushFacts
    <3>3. /\ ee' \in [at : Places, i : Nat, frame : Nat, then : Places]
          /\ rpc' \in Calls /\ faults' \in Nat
      BY <1>2, <1>5, <3>1, FlushShapes
    <3>4. CallOK'
      <4>1. Len(sub') <= Batch /\ rel' = rel
        BY <1>5, <1>6, Consts
      <4>2. Len(rel') \in Nat /\ Len(rel') < Watermark
        BY <1>2, <1>6, <4>1, Numbers
      <4>. QED BY <1>2, <1>5, <3>1, <4>1, <4>2, CallFlushed
    <3>. QED BY <3>2, <3>3, <3>4 DEF Taken
  <2>2. CASE ~(Len(sub') >= Batch)
    <3>1. ee' = At("loop") /\ rpc' = rpc /\ faults' = faults
      BY <1>1, <2>2
    <3>2. /\ ee' \in [at : Places, i : Nat, frame : Nat, then : Places] /\ ee'.at = "loop"
      <4>1. "loop" \in Places
        BY DEF Places
      <4>. QED BY <3>1, <4>1, AtTypes
    <3>3. Len(sub') < Batch /\ Len(sub') <= Batch
      BY <1>5, <2>2, Consts
    <3>4. CallOK'
      BY <1>6, <3>1, <3>2, <3>3 DEF CallOK
    <3>. QED BY <1>2, <1>6, <3>1, <3>2, <3>4 DEF Taken
  <2>. QED BY <2>1, <2>2
<1>8. BootOK' /\ ArrivalsOK' /\ RxOK' /\ RelOK'
  BY <1>7, EeSends
<1>9. Shapes'
  <2>1. nextSlot' \in TxSlot
    <3>1. \A n \in Nat \ {0} : \A x \in 0 .. n - 1 : (x + 1) % n \in 0 .. n - 1
      OBVIOUS
    <3>. QED BY <1>1, <1>3, <3>1, Consts DEF TxSlot
  <2>2. eeSeq' \in [TxSlot -> Nat] /\ txData' \in [TxSlot -> 0 .. MaxTx]
    <3>1. eeSeq \in [TxSlot -> Nat] /\ txData \in [TxSlot -> 0 .. MaxTx] /\ NextFrame \in 0 .. MaxTx
      BY <1>2, <1>4, Consts DEF Shapes
    <3>. QED BY <1>1, <1>3, <3>1
  <2>3. /\ rxTail' \in Nat /\ rel' \in Seq(Entries) /\ read' \in Seq(Nat)
    BY <1>2 DEF Shapes
  <2>4. staged' \in SUBSET Nat
    BY <1>4
  <2>. QED BY <1>2, <1>5, <1>7, <2>1, <2>2, <2>3, <2>4, EeShapes
<1>10. StagedOK'
  <2>1. ~Waiting'
    BY <1>7 DEF Waiting
  <2>2. Cardinality(staged') <= MaxTx /\ staged' = 1 .. Cardinality(staged')
    BY <1>4, Consts
  <2>. QED BY <1>4, <2>1, <2>2 DEF StagedOK
<1>11. TxOK'
  BY <1>1, <1>2, TxStages
<1>12. CalmOK'
  <2>1. faults = 0 => Calm'
    BY <1>1, <1>2, <1>6, CalmStages
  <2>2. ee'.at # "single"
    BY <1>7
  <2>. QED BY <1>2, <1>7, <2>1, <2>2 DEF CalmOK, Calm
<1>. QED BY <1>7, <1>8, <1>9, <1>10, <1>11, <1>12 DEF InStep

\* The EE is back in its loop with nothing sent.
LEMMA Refuses ==
    ASSUME InStep, IopSame,
           UNCHANGED <<rxTail, rel, read, rpc, sub, eeSeq, txData, staged>>,
           ee.at \in {"loop", "wait"}, ee' = At("loop"), nextSlot' \in TxSlot,
           faults' \in {faults, faults + 1}
    PROVE  InStep'
<1>1. /\ Shapes /\ CallOK /\ StagedOK /\ TxOK /\ CalmOK
      /\ UNCHANGED <<mem, vis, txSeq, wire, dropped, chip>>
  BY DEF InStep, IopSame, iopVars
<1>2. /\ ee' \in [at : Places, i : Nat, frame : Nat, then : Places] /\ ee'.at = "loop"
  <2>1. "loop" \in Places
    BY DEF Places
  <2>. QED BY <2>1, AtTypes
<1>3. BootOK' /\ ArrivalsOK' /\ RxOK' /\ RelOK'
  BY <1>2, EeSends
<1>4. Shapes'
  <2>1. /\ rpc' \in Calls /\ rxTail' \in Nat /\ rel' \in Seq(Entries) /\ sub' \in Seq(Submits)
        /\ eeSeq' \in [TxSlot -> Nat] /\ txData' \in [TxSlot -> 0 .. MaxTx]
        /\ read' \in Seq(Nat) /\ staged' \in SUBSET Nat /\ faults' \in Nat
    BY <1>1 DEF Shapes
  <2>. QED BY <1>1, <1>2, <2>1, EeShapes
<1>5. CallOK'
  BY <1>1, <1>2 DEF CallOK
<1>6. StagedOK'
  <2>1. ~Waiting'
    BY <1>2 DEF Waiting
  <2>. QED BY <1>1, <2>1, StagedSame
<1>7. TxOK'
  BY <1>1, TxSame
<1>8. CalmOK'
  <2>1. Taken' = Taken
    BY <1>2 DEF Taken
  <2>2. faults = 0 => rpc.rc = "ok"
    BY <1>1 DEF CalmOK
  <2>. QED BY <1>1, <1>2, <2>1, <2>2, CalmSame
<1>. QED BY <1>3, <1>4, <1>5, <1>6, <1>7, <1>8 DEF InStep

LEMMA WritesFail ==
    ASSUME InStep, IopSame, UNCHANGED <<rxTail, rel, read>>, ee.at \in {"loop", "wait"},
           FreeSlots # {}, WriteFails
    PROVE  InStep'
<1>1. /\ nextSlot' = (Scanned + 1) % TxSlots /\ ee' = At("loop") /\ faults' = faults + 1
      /\ UNCHANGED <<rpc, sub, eeSeq, txData, staged>>
  BY DEF WriteFails
<1>2. Scanned \in TxSlot
  BY SlotTaken DEF InStep
<1>3. nextSlot' \in TxSlot
  <2>1. \A n \in Nat \ {0} : \A x \in 0 .. n - 1 : (x + 1) % n \in 0 .. n - 1
    OBVIOUS
  <2>. QED BY <1>1, <1>2, <2>1, Consts DEF TxSlot
<1>. QED BY <1>1, <1>3, Refuses

LEMMA FramesSent ==
    ASSUME InStep, Send \/ SendWaits \/ SendGivesUp
    PROVE  InStep'
<1>1. CASE Send
  <2>1. /\ IopSame /\ UNCHANGED <<rxTail, rel, read>> /\ ee.at = "loop"
        /\ Cardinality(staged) < MaxTx
    BY <1>1 DEF Send, IopSame
  <2>2. CASE FreeSlots # {} /\ (StageFrame(NextFrame) \/ WriteFails)
    BY <2>1, <2>2, Stages, WritesFail
  <2>3. CASE /\ FreeSlots = {} /\ FlushTx(sub, "wait")
             /\ UNCHANGED <<sub, nextSlot, eeSeq, txData, staged>>
    <3>1. rel' \in Seq(Entries) /\ Len(rel') \in Nat /\ Len(rel') < Watermark
      <4>1. rel \in Seq(Entries) /\ Len(rel) < Watermark
        BY <2>1 DEF InStep, Shapes, CallOK
      <4>. QED BY <2>1, <4>1
    <3>2. /\ Shapes' /\ CallOK' /\ StagedOK' /\ TxOK' /\ CalmOK'
          /\ faults' \in {faults, faults + 1} /\ ee'.at \in {"loop", "wait", "batch"}
      BY <2>1, <2>3, <3>1, FlushKeeps
    <3>3. BootOK' /\ ArrivalsOK' /\ RxOK' /\ RelOK'
      BY <2>1, <3>2, EeSends
    <3>. QED BY <3>2, <3>3 DEF InStep
  <2>. QED BY <1>1, <2>2, <2>3 DEF Send
<1>2. CASE SendWaits
  <2>1. /\ IopSame /\ UNCHANGED <<rxTail, rel, read>> /\ ee.at = "wait" /\ FreeSlots # {}
        /\ StageFrame(NextFrame) \/ WriteFails
    BY <1>2 DEF SendWaits, IopSame
  <2>2. Cardinality(staged) < MaxTx
    BY <2>1 DEF InStep, StagedOK, Waiting
  <2>. QED BY <2>1, <2>2, Stages, WritesFail
<1>3. CASE SendGivesUp
  <2>1. /\ IopSame /\ UNCHANGED <<rxTail, rel, read, rpc, sub, eeSeq, txData, staged>>
        /\ ee.at = "wait" /\ ee' = At("loop") /\ nextSlot' = nextSlot /\ faults' = faults
    BY <1>3 DEF SendGivesUp, IopSame, eeVars, hist
  <2>2. nextSlot' \in TxSlot
    BY <2>1 DEF InStep, Shapes
  <2>. QED BY <2>1, <2>2, Refuses
<1>. QED BY <1>1, <1>2, <1>3


-----------------------------------------------------------------------------
(* The theorems                                                            *)

LEMMA Begins ==
    ASSUME Init
    PROVE  InStep
<1>1. /\ mem = Zeroed /\ vis = Zeroed /\ rpc = Idle /\ pump = Asleep /\ ee = At("boot")
      /\ rxTail = 0 /\ rel = << >> /\ sub = << >> /\ nextSlot = 0 /\ faults = 0 /\ stall = 0
      /\ read = << >> /\ staged = {} /\ wire = {} /\ dropped = {} /\ irx = "absent"
      /\ ready \in BOOLEAN
      /\ chip = [rx |-> << >>, next |-> 1, tx |-> << >>, used |-> 0, error |-> FALSE]
      /\ eeSeq = [s \in TxSlot |-> 0] /\ txSeq = [s \in TxSlot |-> 0]
      /\ txData = [s \in TxSlot |-> 0] /\ rxSeq = [s \in RxSlot |-> 0]
  BY DEF Init
<1>2. Zeroed \in Words /\ Zeroed.head = 0 /\ Zeroed.tail = 0
      /\ \A s \in TxSlot : Zeroed.tx[s] = "FREE"
  <2>. DEFINE r == [frame |-> 0, long |-> FALSE, seq |-> 0]
              ring == [s \in RxSlot |-> r]
              tx == [s \in TxSlot |-> "FREE"]
  <2>1. 0 \in 0 .. MaxRx
    BY Consts
  <2>2. r \in [frame : 0 .. MaxRx, long : BOOLEAN, seq : 0 .. MaxRx]
    BY <2>1
  <2>3. ring \in [RxSlot -> [frame : 0 .. MaxRx, long : BOOLEAN, seq : 0 .. MaxRx]]
    <3>. HIDE DEF r
    <3>. QED BY <2>2
  <2>4. tx \in [TxSlot -> {"FREE", "BUSY"}] /\ \A s \in TxSlot : tx[s] = "FREE"
    OBVIOUS
  <2>5. Zeroed = [head |-> 0, tail |-> 0, tx |-> tx, ring |-> ring]
    BY DEF Zeroed
  <2>. HIDE DEF tx, ring
  <2>. QED BY <2>1, <2>3, <2>4, <2>5 DEF Words
<1>3. chip \in Chips /\ chip.rx = << >> /\ chip.tx = << >> /\ chip.next = 1 /\ chip.used = 0
      /\ Len(chip.tx) = 0 /\ Len(chip.rx) = 0
  <2>1. /\ 1 \in 1 .. MaxRx + 1 /\ 0 \in 0 .. Fifo /\ << >> \in Seq(AllKinds) /\ << >> \in Seq(Nat)
    BY Consts
  <2>. QED BY <1>1, <2>1 DEF Chips
<1>4. ee \in [at : Places, i : Nat, frame : Nat, then : Places] /\ ee.at = "boot"
  <2>1. "boot" \in Places
    BY DEF Places
  <2>. QED BY <1>1, <2>1, AtTypes
<1>5. rpc \in Calls /\ rpc.at = "none" /\ rpc.rc = "ok"
  BY <1>1, IdleType
<1>6. pump \in Pumps /\ pump.at = "sleep"
  BY <1>1, AsleepType
<1>7. Shapes
  <2>1. /\ 0 \in TxSlot /\ 0 \in 0 .. MaxTx /\ 0 \in 0 .. StallLimit - 1 /\ 0 <= 0
    BY Consts DEF TxSlot
  <2>2. /\ rel \in Seq(Entries) /\ sub \in Seq(Submits) /\ read \in Seq(Nat)
    BY <1>1
  <2>3. /\ eeSeq \in [TxSlot -> Nat] /\ txSeq \in [TxSlot -> Nat] /\ rxSeq \in [RxSlot -> Nat]
        /\ txData \in [TxSlot -> 0 .. MaxTx]
    BY <1>1, <2>1
  <2>. QED BY <1>1, <1>2, <1>3, <1>4, <1>5, <1>6, <2>1, <2>2, <2>3 DEF Shapes
<1>8. BootOK
  BY <1>1, <1>4 DEF BootOK, BindsRegistered
<1>9. CallOK
  <2>1. Len(rel) = 0 /\ Len(sub) = 0 /\ 0 <= Watermark /\ 0 < Watermark /\ 0 <= Batch /\ 0 < Batch
    BY <1>1, Consts
  <2>. QED BY <1>4, <1>5, <2>1 DEF CallOK
<1>10. ArrivalsOK
  BY <1>1, <1>2, <1>3, <1>6 DEF ArrivalsOK, Pending
<1>11. Filled = 0 /\ mem.head = 0 /\ mem.tail = 0 /\ vis.head = 0
  BY <1>1, <1>2, <1>6 DEF Filled
<1>12. RxOK
  <2>1. Len(read) = 0 /\ \A i \in 1 .. 0 : FALSE
    BY <1>1
  <2>2. \A n \in 0 .. 0 - 1 : FALSE
    OBVIOUS
  <2>3. \A s \in RxSlot : rxSeq[s] <= Filled
    BY <1>1, <1>11
  <2>4. Filled - mem.tail < RxSlots
    BY <1>11, Consts
  <2>. QED BY <1>1, <1>11, <2>1, <2>2, <2>3, <2>4 DEF RxOK
<1>13. RelOK
  <2>1. Len(rel) = 0 /\ (\A i \in 1 .. 0 : FALSE) /\ ~Released
    BY <1>1, <1>4 DEF Released
  <2>2. Gone = 0 /\ Watermark * faults = 0
    <3>1. \A w \in Nat : w * 0 = 0
      OBVIOUS
    <3>2. Gone = 0
      <4>1. Gone = rxTail - mem.tail - Len(rel)
        BY <2>1 DEF Gone
      <4>. QED BY <1>1, <1>11, <2>1, <4>1
    <3>3. Watermark * 0 = 0
      BY <3>1, Consts
    <3>. QED BY <1>1, <3>2, <3>3
  <2>. QED BY <1>1, <1>11, <2>1, <2>2 DEF RelOK
<1>14. StagedOK
  <2>1. IsFiniteSet({}) /\ Cardinality({}) = 0 /\ {} = 1 .. 0
    BY FS_EmptySet
  <2>2. ~Waiting
    BY <1>4 DEF Waiting
  <2>. QED BY <1>1, <2>1, <2>2, Consts DEF StagedOK
<1>15. Out = {} /\ Busy = {} /\ Claimed = {} /\ Frames = {} /\ Live = {}
  BY <1>1, <1>2, <1>3 DEF Out, Busy, Claimed, Frames, Live, Range
<1>16. TxOK
  <2>1. \A i \in 1 .. Len(sub) : FALSE
    BY <1>1
  <2>2. \A s \in TxSlot : txSeq[s] <= eeSeq[s]
    BY <1>1
  <2>. QED BY <1>1, <1>2, <1>15, <2>1, <2>2 DEF TxOK
<1>17. CalmOK
  <2>1. \A i \in 1 .. Len(sub) : FALSE
    BY <1>1
  <2>2. \A s \in TxSlot : txSeq[s] = eeSeq[s]
    BY <1>1
  <2>. QED BY <1>1, <1>4, <1>5, <1>15, <2>1, <2>2 DEF CalmOK, Handed, Taken
<1>. QED BY <1>7, <1>8, <1>9, <1>10, <1>12, <1>13, <1>14, <1>16, <1>17 DEF InStep

LEMMA Stays ==
    ASSUME InStep, UNCHANGED vars
    PROVE  InStep'
<1>1. /\ Shapes /\ BootOK /\ CallOK /\ ArrivalsOK /\ RxOK /\ RelOK /\ StagedOK /\ TxOK /\ CalmOK
      /\ UNCHANGED <<irx, ready, ee, rxTail, rel, sub, nextSlot, eeSeq, rpc, mem, vis, rxSeq,
                     txSeq, txData, pump, stall, chip, faults, read, staged, wire, dropped>>
  BY DEF InStep, vars, eeVars, iopVars, hist
<1>2. Shapes'
  BY <1>1 DEF Shapes
<1>3. BootOK' /\ CallOK'
  BY <1>1 DEF BootOK, BindsRegistered, CallOK
<1>4. ArrivalsOK' /\ RxOK'
  BY <1>1, ArrivalsSame, RxSame
<1>5. Released' = Released /\ Taken' = Taken /\ Waiting' = Waiting
  BY <1>1 DEF Released, Taken, Waiting
<1>6. RelOK' /\ StagedOK' /\ TxOK'
  BY <1>1, <1>5, RelSame, StagedSame, TxSame
<1>7. CalmOK'
  <2>1. faults' = 0 /\ faults = 0 => ee'.at # "single" /\ rpc'.rc = "ok"
    BY <1>1 DEF CalmOK
  <2>. QED BY <1>1, <1>5, <2>1, CalmSame
<1>. QED BY <1>2, <1>3, <1>4, <1>6, <1>7 DEF InStep

LEMMA StepKeeps ==
    ASSUME InStep, [Next]_vars
    PROVE  InStep'
<1>1. CASE Irx \/ EeGivesUp
  BY <1>1, Boots
<1>2. CASE Handler
  BY <1>2, HandlesRelease, HandlesSubmit DEF Handler
<1>3. CASE Pump
  BY <1>3, Starts, Sends, Counts, Receives, Publishes, Ends DEF Pump
<1>4. CASE Ee
  BY <1>4, Boots, ReleasesReturn, BatchesReturn, SinglesReturn, FramesSent, LoopsRelease DEF Ee
<1>5. CASE Poll \/ Send \/ WriteBack \/ Arrive \/ Transmit
  BY <1>5, Polls, FramesSent, WritesBack, Arrives, Transmits
<1>6. CASE UNCHANGED vars
  BY <1>6, Stays
<1>. QED BY <1>1, <1>2, <1>3, <1>4, <1>5, <1>6 DEF Next

LEMMA LinkInStep == Spec => []InStep
<1>1. Init => InStep
  BY Begins
<1>2. InStep /\ [Next]_vars => InStep'
  BY StepKeeps
<1>. QED BY <1>1, <1>2, PTL DEF Spec

LEMMA AccountsHold ==
    ASSUME InStep
    PROVE  RingsInv
<1>1. /\ Shapes /\ BootOK /\ CallOK /\ RxOK /\ RelOK /\ CalmOK
  BY DEF InStep
<1>2. TypeOK
  <2>1. /\ mem.head \in 0 .. MaxRx /\ vis.head \in 0 .. MaxRx /\ mem.tail \in Nat /\ rxTail \in Nat
        /\ Filled \in Nat /\ mem.head <= Filled /\ RxSlots \in Nat
    <3>1. mem \in Words /\ vis \in Words
      BY <1>1 DEF Shapes
    <3>2. mem.head \in 0 .. MaxRx /\ vis.head \in 0 .. MaxRx
      BY <3>1 DEF Words
    <3>3. mem.head <= Filled
      BY <1>1, Numbers DEF Filled
    <3>. QED BY <1>1, <3>2, <3>3, Numbers
  <2>2. /\ mem.tail <= rxTail /\ rxTail <= vis.head /\ vis.head <= mem.head
        /\ Filled - mem.tail < RxSlots
    BY <1>1 DEF RxOK
  <2>3. rxTail \in 0 .. MaxRx /\ mem.tail <= mem.head /\ mem.head - mem.tail < RxSlots
    BY <2>1, <2>2, Consts
  <2>4. Len(rel) <= Watermark /\ Len(sub) <= Batch
    BY <1>1 DEF CallOK
  <2>5. Range(rel) \subseteq Entries /\ Range(sub) \subseteq Submits
    <3>1. rel \in Seq(Entries) /\ sub \in Seq(Submits)
      BY <1>1 DEF Shapes
    <3>. QED BY <3>1 DEF Range
  <2>6. Len(chip.tx) <= chip.used /\ chip.used <= Fifo
    BY <1>1, Consts DEF Shapes, Chips
  <2>7. /\ ee.at \in Places /\ ready \in BOOLEAN /\ nextSlot \in TxSlot
        /\ irx \in {"absent", "starting", "resident", "registered"}
        /\ mem \in Words /\ vis \in Words
        /\ txData \in [TxSlot -> 0 .. MaxTx] /\ stall \in 0 .. StallLimit - 1
    BY <1>1 DEF Shapes
  <2>. QED BY <2>3, <2>4, <2>5, <2>6, <2>7 DEF TypeOK, Places
<1>3. BindsRegistered
  BY <1>1 DEF BootOK
<1>4. ReleasesAccount
  BY <1>1 DEF ReleasesAccount, RelOK, RxOK, Gone, Released
<1>5. FramesAccount
  BY <1>1 DEF FramesAccount, CalmOK, Handed, Out, Frames
<1>. QED BY <1>2, <1>3, <1>4, <1>5 DEF RingsInv

\* Only smap_iop_send puts a frame into the FIFO.
LEMMA OneSends ==
    ASSUME InStep, [Next]_vars
    PROVE  \A f \in Range(chip'.tx) \ Range(chip.tx) : f \notin wire
<1>1. Shapes /\ TxOK /\ chip \in Chips
  BY DEF InStep, Shapes
<1>2. chip.tx \in Seq(Nat)
  BY <1>1 DEF Chips
<1>3. CASE UNCHANGED vars \/ Irx \/ EeGivesUp \/ Handler \/ Ee \/ Poll \/ Send \/ WriteBack
  <2>1. chip' = chip
    BY <1>3 DEF vars, Irx, IrxStart, IrxRegister, IrxReady, EeGivesUp, Untouched, Handler,
                HandleRelease, HandleSubmit, Ee, BootLoads, EeBinds, ReleaseReturns,
                BatchReturns, SingleReturns, SendWaits, SendGivesUp, LoopReleases, Poll, Send,
                WriteBack
  <2>. QED BY <2>1
<1>4. CASE PumpStarts \/ PumpCounts \/ PumpReceives \/ PumpPublishes \/ PumpEnds \/ Arrive
  <2>1. chip'.tx = chip.tx
    BY <1>1, <1>4 DEF PumpStarts, PumpCounts, PumpReceives, PumpPublishes, PumpEnds, Arrive, Chips
  <2>. QED BY <2>1
<1>5. CASE Transmit
  <2>1. chip'.tx = Tail(chip.tx) /\ chip.tx # << >>
    BY <1>1, <1>5 DEF Transmit, Chips
  <2>. QED BY <1>2, <2>1, RangePops
<1>6. CASE PumpSends
  <2>1. CASE /\ mem.tx[pump.slot] = "BUSY"
             /\ chip' = [chip EXCEPT !.tx = Append(@, txData[pump.slot]), !.used = @ + 1]
    <3>1. pump.slot \in TxSlot /\ pump.slot \in Busy
      BY <1>1, <2>1 DEF Shapes, Pumps, Busy
    <3>2. txData[pump.slot] \in Nat /\ txData[pump.slot] \notin Out
      BY <1>1, <3>1 DEF TxOK, Shapes
    <3>3. chip'.tx = Append(chip.tx, txData[pump.slot])
      BY <1>1, <2>1 DEF Chips
    <3>4. Range(chip'.tx) = Range(chip.tx) \cup {txData[pump.slot]}
      BY <1>2, <3>2, <3>3, RangeAppends
    <3>. QED BY <3>2, <3>4 DEF Out
  <2>2. CASE chip' = chip
    BY <2>2
  <2>. QED BY <1>6, <2>1, <2>2 DEF PumpSends
<1>. QED BY <1>3, <1>4, <1>5, <1>6 DEF Next, Pump

\* Only ps2_smap_send writes a transmit slot.
LEMMA OwnSlots ==
    ASSUME InStep, [Next]_vars
    PROVE  \A s \in TxSlot : txData'[s] # txData[s] => mem.tx[s] = "FREE"
<1>1. Shapes /\ TxOK
  BY DEF InStep
<1>2. CASE FreeSlots # {} /\ StageFrame(NextFrame)
  <2>1. Scanned \in TxSlot /\ mem.tx[Scanned] = "FREE"
    BY <1>1, <1>2, SlotTaken
  <2>2. txData' = [txData EXCEPT ![Scanned] = NextFrame] /\ txData \in [TxSlot -> 0 .. MaxTx]
    BY <1>1, <1>2 DEF StageFrame, Shapes
  <2>. QED BY <2>1, <2>2
<1>3. CASE txData' = txData
  BY <1>3
<1>4. CASE Send \/ SendWaits
  BY <1>2, <1>3, <1>4 DEF Send, SendWaits, WriteFails
<1>5. CASE \/ UNCHANGED vars \/ Irx \/ EeGivesUp \/ Handler \/ Pump \/ Poll \/ WriteBack \/ Arrive
           \/ Transmit \/ BootLoads \/ EeBinds \/ ReleaseReturns \/ BatchReturns
           \/ SingleReturns \/ SendGivesUp \/ LoopReleases
  <2>1. txData' = txData
    BY <1>5 DEF vars, Irx, IrxStart, IrxRegister, IrxReady, EeGivesUp, Untouched, Handler,
                HandleRelease, HandleSubmit, BootLoads, EeBinds, ReleaseReturns, BatchReturns,
                SingleReturns, SendGivesUp, LoopReleases, Poll, WriteBack, Arrive, Transmit,
                Pump, PumpStarts, PumpSends, PumpCounts, PumpReceives, PumpPublishes, PumpEnds,
                IopKeeps
  <2>. QED BY <1>3, <2>1
<1>. QED BY <1>4, <1>5 DEF Next, Ee

(***************************************************************************)
(* The accounts of the two rings hold for rings, batches and a FIFO of any *)
(* size, whichever remote calls fail and whenever IOP writes reach RAM: no *)
(* queue outgrows its array, the loader only ever calls the smap.irx it    *)
(* has loaded itself (ps2_smap_init), each failed RELEASE_RX_BATCH costs   *)
(* the receive ring one batch at the most, and while no call fails every   *)
(* frame ps2_smap_send has accepted can be accounted for.                  *)
(***************************************************************************)
THEOREM AccountsKept == Spec => []RingsInv
<1>1. InStep => RingsInv
  BY AccountsHold
<1>. QED BY <1>1, LinkInStep, PTL

(***************************************************************************)
(* ps2_smap_poll takes every frame out of the ring once and in the order   *)
(* in which smap_iop_drain_rx put them in: no slot that is still to be     *)
(* read is filled again, also after releases were lost or refused.         *)
(***************************************************************************)
THEOREM FramesInOrder == Spec => []ReadsInOrder
<1>1. InStep => ReadsInOrder
  <2>1. SUFFICES ASSUME InStep PROVE ReadsInOrder
    OBVIOUS
  <2>2. read \in Seq(Nat) /\ Len(read) = rxTail /\ \A i \in 1 .. rxTail : read[i] = i
    BY <2>1 DEF InStep, Shapes, RxOK
  <2>. QED BY <2>2 DEF ReadsInOrder
<1>. QED BY <1>1, LinkInStep, PTL

(***************************************************************************)
(* No frame is sent twice, although a batch whose answer was lost is       *)
(* submitted again entry by entry (ps2_smap_flush_tx), and the EE never    *)
(* writes a slot the IOP has yet to send, although it reads the slot's     *)
(* state from memory the IOP's writes reach late (tx_scan_free_slot).      *)
(***************************************************************************)
THEOREM SentOnceSlotsOwned == Spec => TxRingKept
<1>1. InStep /\ [Next]_vars => [\A f \in Range(chip'.tx) \ Range(chip.tx) : f \notin wire]_vars
  BY OneSends
<1>2. InStep /\ [Next]_vars => [\A s \in TxSlot : txData'[s] # txData[s] => mem.tx[s] = "FREE"]_vars
  BY OwnSlots
<1>. QED BY <1>1, <1>2, LinkInStep, PTL DEF Spec, TxRingKept, SentOnce, SlotsOwned
=============================================================================
