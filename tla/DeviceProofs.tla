---------------------------- MODULE DeviceProofs ----------------------------
(***************************************************************************)
(* Proofs about three components at the loader's devices, which share no   *)
(* state: NicRing (the polled adapters), IosNet (the Wii's sockets) and    *)
(* UsbPipe (the PSP's USB pipe).  Each part has its own specification      *)
(* (Spec, IosSpec, PipeSpec), its own inductive invariant and its own      *)
(* theorems:                                                               *)
(*                                                                         *)
(*   NicRing   RingsInStep, FramesInOrder    for all rings, frames,        *)
(*                                           programs and system calls     *)
(*   IosNet    WiiKept                       for all refusals, delays,     *)
(*                                           datagrams and changes of the  *)
(*                                           cable                         *)
(*   UsbPipe   PipeSettled                   for all rings, packets,       *)
(*                                           exchanges, enumerations and   *)
(*                                           resets                        *)
(***************************************************************************)
EXTENDS NicRing, IosNet, UsbPipe, SequenceTheorems, FiniteSetTheorems,
        WellFoundedInduction, TLAPS

-----------------------------------------------------------------------------
(* Positions                                                               *)

LEMMA WrapSlot ==
    ASSUME NEW x \in 0 .. 2 * Slots - 1
    PROVE  x % Slots = IF x < Slots THEN x ELSE x - Slots
<1>1. Slots \in Nat \ {0}
  BY NicAssumption
<1>2. \A n \in Nat \ {0} : \A y \in 0 .. n - 1 : y % n = y
  OBVIOUS
<1>3. \A n \in Nat \ {0} : \A y \in n .. 2 * n - 1 : y % n = y - n
  OBVIOUS
<1>. QED BY <1>1, <1>2, <1>3

LEMMA WrapBack ==
    ASSUME NEW x \in 1 - Slots .. Slots - 1
    PROVE  x % Slots = IF x < 0 THEN x + Slots ELSE x
<1>1. Slots \in Nat \ {0}
  BY NicAssumption
<1>2. \A n \in Nat \ {0} : \A y \in 0 .. n - 1 : y % n = y
  OBVIOUS
<1>3. \A n \in Nat \ {0} : \A y \in 1 - n .. -1 : y % n = y + n
  OBVIOUS
<1>. QED BY <1>1, <1>2, <1>3

LEMMA WrapPos ==
    ASSUME NEW x \in Int
    PROVE  x % Slots \in Pos
<1>1. \A n \in Nat \ {0} : x % n \in 0 .. n - 1
  OBVIOUS
<1>. QED BY <1>1, NicAssumption DEF Pos

LEMMA AfterPos ==
    ASSUME NEW p \in Pos
    PROVE  After(p) \in Pos /\ After(p) = IF p = Slots - 1 THEN 0 ELSE p + 1
BY NicAssumption, WrapSlot DEF After, Pos

\* The ring after its oldest frame has been passed over.
LEMMA RingPass ==
    ASSUME NEW rd \in Pos, NEW wr \in Pos, NEW cnt \in 1 .. Slots - 1,
           wr = (rd + cnt) % Slots
    PROVE  /\ (wr - After(rd)) % Slots = cnt - 1
           /\ (After(rd) + (cnt - 1)) % Slots = wr
           /\ \A i \in 0 .. cnt - 2 : (After(rd) + i) % Slots = (rd + (i + 1)) % Slots
<1>1. Slots \in Nat \ {0, 1, 2} /\ rd \in 0 .. Slots - 1 /\ wr \in 0 .. Slots - 1
  BY NicAssumption DEF Pos
<1>2. After(rd) \in 0 .. Slots - 1 /\ After(rd) = IF rd = Slots - 1 THEN 0 ELSE rd + 1
  BY AfterPos DEF Pos
<1>3. wr = IF rd + cnt < Slots THEN rd + cnt ELSE rd + cnt - Slots
  BY <1>1, WrapSlot
<1>4. (wr - After(rd)) % Slots = cnt - 1
  <2>1. wr - After(rd) \in 1 - Slots .. Slots - 1
    BY <1>1, <1>2
  <2>. QED BY <1>1, <1>2, <1>3, <2>1, WrapBack
<1>5. (After(rd) + (cnt - 1)) % Slots = wr
  <2>1. After(rd) + (cnt - 1) \in 0 .. 2 * Slots - 1
    BY <1>1, <1>2
  <2>. QED BY <1>1, <1>2, <1>3, <2>1, WrapSlot
<1>6. ASSUME NEW i \in 0 .. cnt - 2 PROVE (After(rd) + i) % Slots = (rd + (i + 1)) % Slots
  <2>1. After(rd) + i \in 0 .. 2 * Slots - 1 /\ rd + (i + 1) \in 0 .. 2 * Slots - 1
    BY <1>1, <1>2
  <2>. DEFINE y == After(rd) + i
              z == rd + (i + 1)
  <2>2. y % Slots = IF y < Slots THEN y ELSE y - Slots
    <3>. HIDE DEF y
    <3>. QED BY <2>1, WrapSlot DEF y
  <2>3. z % Slots = IF z < Slots THEN z ELSE z - Slots
    <3>. HIDE DEF z
    <3>. QED BY <2>1, WrapSlot DEF z
  <2>. QED BY <1>1, <1>2, <2>1, <2>2, <2>3
<1>. QED BY <1>4, <1>5, <1>6

\* The write position is that of no frame in the ring, and the next one follows.
LEMMA RingAdd ==
    ASSUME NEW rd \in Pos, NEW wr \in Pos, NEW cnt \in 0 .. Slots - 2,
           wr = (rd + cnt) % Slots
    PROVE  /\ After(wr) = (rd + (cnt + 1)) % Slots
           /\ \A i \in 0 .. cnt - 1 : (rd + i) % Slots \in Pos \ {wr}
<1>1. Slots \in Nat \ {0, 1, 2} /\ rd \in 0 .. Slots - 1 /\ wr \in 0 .. Slots - 1
  BY NicAssumption DEF Pos
<1>2. After(wr) = IF wr = Slots - 1 THEN 0 ELSE wr + 1
  BY AfterPos
<1>3. wr = IF rd + cnt < Slots THEN rd + cnt ELSE rd + cnt - Slots
  BY <1>1, WrapSlot
<1>4. (rd + (cnt + 1)) % Slots =
        IF rd + (cnt + 1) < Slots THEN rd + (cnt + 1) ELSE rd + (cnt + 1) - Slots
  BY <1>1, WrapSlot
<1>5. ASSUME NEW i \in 0 .. cnt - 1 PROVE (rd + i) % Slots \in Pos \ {wr}
  <2>1. (rd + i) % Slots = IF rd + i < Slots THEN rd + i ELSE rd + i - Slots
    BY <1>1, WrapSlot
  <2>. QED BY <1>1, <1>3, <2>1 DEF Pos
<1>. QED BY <1>1, <1>2, <1>3, <1>4, <1>5

-----------------------------------------------------------------------------
(* The stack of receive functions                                          *)

LEMMA TopType ==
    ASSUME TypeOK
    PROVE  /\ Depth \in 1 .. 2 /\ Len(stack) = Depth /\ DOMAIN stack = 1 .. Depth
           /\ Top \in Activations /\ stack[1] \in Activations
           /\ Depth = 1 => stack[1] = Top
BY DEF TypeOK, Depth, Top

\* The innermost receive function becomes act, the others stay.
LEMMA TopBecomes ==
    ASSUME TypeOK, NEW act \in Activations, stack' = [stack EXCEPT ![Depth] = act]
    PROVE  /\ stack' \in Seq(Activations) /\ Depth' = Depth /\ Top' = act
           /\ Depth = 2 => stack'[1] = stack[1]
<1>1. Depth \in 1 .. 2 /\ stack \in Seq(Activations) /\ DOMAIN stack = 1 .. Depth
  BY DEF TypeOK, Depth
<1>2. stack' \in Seq(Activations) /\ Len(stack') = Depth
  BY <1>1 DEF Depth
<1>3. stack'[Depth] = act
  BY <1>1
<1>. QED BY <1>1, <1>2, <1>3 DEF Depth, Top

LEMMA GotoTop ==
    ASSUME TypeOK, NEW w \in Places, Goto(w)
    PROVE  /\ stack' \in Seq(Activations) /\ Depth' = Depth
           /\ Top' = [Top EXCEPT !.at = w]
           /\ Depth = 2 => stack'[1] = stack[1]
<1>1. [Top EXCEPT !.at = w] \in Activations
  BY TopType DEF Activations
<1>2. stack' = [stack EXCEPT ![Depth] = [Top EXCEPT !.at = w]]
  BY DEF Goto, Top
<1>. QED BY <1>1, <1>2, TopBecomes

LEMMA DispatchTop ==
    ASSUME TypeOK, NEW f \in Frames, NEW p \in Pos, Dispatch(f, p)
    PROVE  /\ stack' \in Seq(Activations) /\ Depth' = Depth
           /\ Top' = [Top EXCEPT !.at = "handle", !.frame = f, !.next = After(p)]
           /\ Depth = 2 => stack'[1] = stack[1]
<1>. DEFINE act == [Top EXCEPT !.at = "handle", !.frame = f, !.next = After(p)]
<1>1. act \in Activations
  BY TopType, AfterPos DEF Activations, Places
<1>2. stack' = [stack EXCEPT ![Depth] = act]
  BY DEF Dispatch, Top
<1>. QED BY <1>1, <1>2, TopBecomes

LEMMA PollTop ==
    ASSUME TypeOK, LoopPolls
    PROVE  /\ stack' \in Seq(Activations) /\ Depth' = Depth
           /\ Top'.at = "rx" /\ Top'.frame = Top.frame
           /\ Depth = 2 => stack'[1] = stack[1]
<1>. DEFINE act == [Top EXCEPT !.at = "rx", !.over = drv = "rtl" /\ chip.over]
<1>1. act \in Activations /\ act.at = "rx" /\ act.frame = Top.frame
  BY TopType DEF Activations, Places, TypeOK, Chips
<1>2. stack' = [stack EXCEPT ![Depth] = act]
  BY DEF LoopPolls, Top
<1>. QED BY <1>1, <1>2, TopBecomes

LEMMA PushTop ==
    ASSUME TypeOK, Depth = 1, stack' = Append(stack, Activation("loop"))
    PROVE  /\ stack' \in Seq(Activations) /\ Depth' = 2
           /\ Top'.at = "loop" /\ stack'[1] = Top
<1>1. Activation("loop") \in Activations
  BY NicAssumption DEF Activation, Activations, Places, Frames, Blank, Kinds, Pos, TypeOK
<1>2. /\ stack' \in Seq(Activations) /\ Len(stack') = 2
      /\ stack'[1] = stack[1] /\ stack'[2] = Activation("loop")
  <2>1. stack \in Seq(Activations) /\ Len(stack) = 1
    BY DEF TypeOK, Depth
  <2>2. stack' = Append(stack, Activation("loop"))
    OBVIOUS
  <2>3. ASSUME NEW S, NEW t \in Seq(S), NEW x \in S, Len(t) = 1
        PROVE  /\ Append(t, x) \in Seq(S) /\ Len(Append(t, x)) = 2
               /\ Append(t, x)[1] = t[1] /\ Append(t, x)[2] = x
    <3>1. /\ Append(t, x) \in Seq(S) /\ Len(Append(t, x)) = Len(t) + 1
          /\ \A i \in 1 .. Len(t) : Append(t, x)[i] = t[i]
          /\ Append(t, x)[Len(t) + 1] = x
      BY AppendProperties
    <3>2. 1 \in 1 .. Len(t) /\ Len(t) + 1 = 2
      BY <2>3
    <3>. QED BY <3>1, <3>2
  <2>. QED BY <1>1, <2>1, <2>2, <2>3
<1>3. Activation("loop").at = "loop"
  BY DEF Activation
<1>. QED BY <1>2, <1>3, TopType DEF Depth, Top

LEMMA PopTop ==
    ASSUME TypeOK, Depth = 2, stack' = Front(stack)
    PROVE  stack' \in Seq(Activations) /\ Depth' = 1 /\ Top' = stack[1]
<1>1. stack' \in Seq(Activations) /\ Len(stack') = 1 /\ stack'[1] = stack[1]
  <2>1. stack \in Seq(Activations) /\ Len(stack) = 2
    BY DEF TypeOK, Depth
  <2>2. stack' = SubSeq(stack, 1, 1)
    BY <2>1 DEF Front
  <2>. QED BY <2>1, <2>2, SubSeqProperties
<1>. QED BY <1>1 DEF Depth, Top

LEMMA RestartTop ==
    ASSUME next \in Nat \ {0}, stack' = <<Activation("loop")>>
    PROVE  stack' \in Seq(Activations) /\ Depth' = 1 /\ Top'.at = "loop"
<1>1. Activation("loop") \in Activations /\ Activation("loop").at = "loop"
  BY NicAssumption DEF Activation, Activations, Places, Frames, Blank, Kinds, Pos
<1>. QED BY <1>1 DEF Depth, Top

-----------------------------------------------------------------------------
(* The chip                                                                *)

LEMMA ChipType ==
    ASSUME TypeOK
    PROVE  /\ chip.mem \in [Pos -> Frames] /\ chip.wr \in Pos /\ chip.rd \in Pos
           /\ chip.cnt \in 0 .. Slots - 1 /\ chip.on \in BOOLEAN
BY DEF TypeOK, Chips

LEMMA WaitingType ==
    ASSUME TypeOK, NEW i \in Nat
    PROVE  (chip.rd + i) % Slots \in Pos /\ Waiting(i) \in Frames
<1>1. chip.rd + i \in Int
  BY ChipType, NicAssumption DEF Pos
<1>2. (chip.rd + i) % Slots \in Pos
  BY <1>1, WrapPos
<1>. QED BY <1>2, ChipType DEF Waiting

LEMMA FreedType ==
    ASSUME TypeOK, NEW p \in Pos
    PROVE  /\ Freed(chip, p) \in Chips /\ Freed(chip, p).on = chip.on
           /\ Freed(chip, p).mem = chip.mem /\ Freed(chip, p).wr = chip.wr
           /\ Freed(chip, p).rd = p /\ Freed(chip, p).cnt = (chip.wr - p) % Slots
<1>1. chip.wr - p \in Int
  BY ChipType, NicAssumption DEF Pos
<1>2. (chip.wr - p) % Slots \in 0 .. Slots - 1
  BY <1>1, WrapPos DEF Pos
<1>. QED BY <1>2 DEF Freed, TypeOK, Chips

LEMMA EncFreedType ==
    ASSUME TypeOK, NEW p \in Pos
    PROVE  /\ EncFreed(p) \in Chips /\ EncFreed(p).on = chip.on
           /\ EncFreed(p).mem = chip.mem /\ EncFreed(p).wr = chip.wr
           /\ EncFreed(p).rd = p /\ (chip.cnt > 0 => EncFreed(p).cnt = chip.cnt - 1)
<1>. DEFINE less == IF chip.cnt > 0 THEN chip.cnt - 1 ELSE 0
<1>1. less \in 0 .. Slots - 1 /\ chip \in Chips /\ (chip.cnt > 0 => less = chip.cnt - 1)
  BY ChipType, NicAssumption DEF TypeOK
<1>2. EncFreed(p) = [chip EXCEPT !.rd = p, !.cnt = less]
  BY DEF EncFreed
<1>. HIDE DEF less
<1>. QED BY <1>1, <1>2 DEF Chips

LEMMA ResetType ==
    ASSUME TypeOK, RxReset
    PROVE  /\ chip' \in Chips /\ chip'.on = chip.on /\ cur' = 0 /\ 0 \in Pos
           /\ chip'.cnt = 0 /\ chip'.wr = 0 /\ chip'.rd = 0
<1>1. 0 \in Pos /\ 0 \in 0 .. Slots - 1
  BY NicAssumption DEF Pos
<1>. QED BY <1>1 DEF RxReset, TypeOK, Chips

LEMMA EmptyType ==
    ASSUME NEW m \in [Pos -> Frames]
    PROVE  /\ Empty(m) \in Chips /\ Empty(m).on = TRUE /\ 0 \in Pos
           /\ Empty(m).cnt = 0 /\ Empty(m).wr = 0 /\ Empty(m).rd = 0
BY NicAssumption DEF Empty, Chips, Pos

LEMMA BlanksType == Blanks \in [Pos -> Frames]
BY DEF Blanks, Blank, Frames, Kinds

LEMMA StopType ==
    ASSUME TypeOK
    PROVE  /\ Stopped(chip) \in Chips /\ (drv = "nvnet" => Stopped(chip).on)
           /\ Stopped(chip).mem = chip.mem /\ Stopped(chip).wr = chip.wr
           /\ Stopped(chip).rd = chip.rd /\ Stopped(chip).cnt = chip.cnt
<1>1. chip \in Chips
  BY DEF TypeOK
<1>. DEFINE on == drv \in {"nvnet", "w5500"}
<1>2. on \in BOOLEAN /\ (drv = "nvnet" => on) /\ Stopped(chip) = [chip EXCEPT !.on = on]
  BY DEF Stopped
<1>. HIDE DEF on
<1>. QED BY <1>1, <1>2 DEF Chips

-----------------------------------------------------------------------------
(* Control: where the receive functions and the program are, and that the  *)
(* receiver is on.                                                         *)

\* No program of the Xbox uses the adapter directly (its driver is not set up
\* again, nvnet_init).
Untouched == "nvnet" \notin Drives

Control == TypeOK /\ NestingOK /\ PowerOK /\ (At("advance") => drv \in Late)

\* Steps inside a receive function.
LEMMA ControlRx ==
    ASSUME Control, Same,
           chip' \in Chips, chip'.on = chip.on, cur' \in Pos,
           stack' \in Seq(Activations), Depth' = Depth, Depth = 2 => stack'[1] = stack[1],
           ~At("guest"), ~At("own"),
           Top'.at \in {"rx", "loop", "handle"}
    PROVE  Control'
<1>1. UNCHANGED <<drv, running, escape, started, next, handled, exits>>
  BY DEF Same
<1>2. TypeOK'
  BY <1>1 DEF Control, TypeOK
<1>3. NestingOK'
  BY <1>1, TopType DEF Control, NestingOK, At
<1>4. PowerOK'
  BY <1>1 DEF Control, PowerOK, At
<1>. QED BY <1>2, <1>3, <1>4 DEF Control, At

LEMMA ControlReceives ==
    ASSUME Control,
           NvnetRx \/ BbaRx \/ W5500Rx \/ LanRx \/ RtlRx \/ EncRx
    PROVE  Control'
<1>0. TypeOK /\ cur \in Pos /\ chip \in Chips /\ stack \in Seq(Activations)
  BY DEF Control, TypeOK
<1>1. At("rx") /\ Same
  BY DEF NvnetRx, BbaRx, W5500Rx, LanRx, RtlRx, EncRx
<1>2. chip' \in Chips /\ chip'.on = chip.on /\ cur' \in Pos
  <2>. USE <1>0, ChipType, AfterPos, FreedType
  <2>1. CASE NvnetRx
    BY <2>1 DEF NvnetRx
  <2>2. CASE BbaRx \/ LanRx
    <3>1. ASSUME NEW b \in BOOLEAN, NEW c \in Chips
          PROVE  [c EXCEPT !.irq = b] \in Chips /\ [c EXCEPT !.irq = b].on = c.on
      BY DEF Chips
    <3>0. [chip EXCEPT !.irq = FALSE] \in Chips /\ [chip EXCEPT !.irq = FALSE].on = chip.on
      BY DEF Chips
    <3>2. CASE BbaRx
      <4>1. chip' = Freed(chip, After(chip.rd)) \/ chip' = [chip EXCEPT !.irq = FALSE]
        BY <3>2 DEF BbaRx
      <4>2. UNCHANGED cur
        BY <3>2 DEF BbaRx
      <4>3. /\ Freed(chip, After(chip.rd)) \in Chips
            /\ Freed(chip, After(chip.rd)).on = chip.on
        OBVIOUS
      <4>4. CASE chip' = Freed(chip, After(chip.rd))
        BY <4>2, <4>3, <4>4
      <4>5. CASE chip' = [chip EXCEPT !.irq = FALSE]
        BY <3>0, <4>2, <4>5
      <4>. QED BY <4>1, <4>4, <4>5
    <3>3. CASE LanRx
      <4>1. CASE chip.cnt > 0
        <5>. DEFINE c == Freed(chip, After(chip.rd))
        <5>1. c \in Chips /\ c.on = chip.on /\ (c.cnt > 0) \in BOOLEAN
          OBVIOUS
        <5>2. chip' = [c EXCEPT !.irq = c.cnt > 0] \/ chip' = c
          BY <1>0, <3>3, <4>1, ChipType DEF LanRx
        <5>3. UNCHANGED cur
          BY <3>3 DEF LanRx
        <5>. HIDE DEF c
        <5>4. [c EXCEPT !.irq = c.cnt > 0] \in Chips /\ [c EXCEPT !.irq = c.cnt > 0].on = c.on
          BY <3>1, <5>1
        <5>. QED BY <5>1, <5>2, <5>3, <5>4
      <4>2. CASE chip.cnt = 0
        <5>1. chip' = [chip EXCEPT !.irq = FALSE] /\ UNCHANGED cur
          BY <3>3, <4>2, ChipType DEF LanRx
        <5>. QED BY <3>0, <5>1
      <4>. QED BY <3>3, <4>1, <4>2 DEF LanRx
    <3>. QED BY <2>2, <3>2, <3>3
  <2>3. CASE W5500Rx
    BY <2>3 DEF W5500Rx
  <2>4. CASE RtlRx
    BY <2>4, ResetType DEF RtlRx
  <2>5. CASE EncRx
    BY <2>5, ResetType, EncFreedType DEF EncRx
  <2>. QED BY <2>1, <2>2, <2>3, <2>4, <2>5
<1>3. UNCHANGED stack \/ Goto("loop") \/ \E p \in Pos : Dispatch(chip.mem[p], p)
  <2>. USE <1>0, ChipType
  <2>1. CASE NvnetRx
    BY <2>1 DEF NvnetRx
  <2>2. CASE BbaRx
    BY <2>2 DEF BbaRx
  <2>3. CASE W5500Rx
    BY <2>3 DEF W5500Rx
  <2>4. CASE LanRx
    BY <2>4 DEF LanRx
  <2>5. CASE RtlRx
    BY <2>5 DEF RtlRx
  <2>6. CASE EncRx
    BY <2>6 DEF EncRx
  <2>. QED BY <2>1, <2>2, <2>3, <2>4, <2>5, <2>6
<1>4. ASSUME NEW p \in Pos PROVE chip.mem[p] \in Frames
  BY <1>0, ChipType
<1>5. /\ stack' \in Seq(Activations) /\ Depth' = Depth
      /\ Depth = 2 => stack'[1] = stack[1]
      /\ Top'.at \in {"rx", "loop", "handle"}
  <2>1. CASE UNCHANGED stack
    BY <1>0, <1>1, <2>1 DEF Depth, Top, At
  <2>2. CASE Goto("loop")
    BY <1>0, <2>2, GotoTop, TopType DEF Places, Activations
  <2>3. ASSUME NEW p \in Pos, Dispatch(chip.mem[p], p) PROVE <1>5
    BY <1>0, <1>4, <2>3, DispatchTop, TopType DEF Places, Activations
  <2>. QED BY <1>3, <2>1, <2>2, <2>3
<1>. QED BY <1>1, <1>2, <1>5, ControlRx DEF At

LEMMA ControlAdvances ==
    ASSUME Control, RtlAdvance \/ EncAdvance \/ LoopPolls
    PROVE  Control'
<1>0. TypeOK /\ cur \in Pos /\ chip \in Chips /\ stack \in Seq(Activations)
  BY DEF Control, TypeOK
<1>1. Top.next \in Pos
  BY <1>0, TopType DEF Activations
<1>2. CASE RtlAdvance
  <2>1. At("advance") /\ Goto("rx") /\ Same /\ cur' = After(cur)
    BY <1>2 DEF RtlAdvance
  <2>. DEFINE c == Freed(chip, After(cur))
  <2>2. c \in Chips /\ c.on = chip.on /\ cur' \in Pos
    BY <1>0, <2>1, AfterPos, FreedType
  <2>3. chip' = [c EXCEPT !.irq = FALSE, !.over = FALSE]
    BY <1>2 DEF RtlAdvance
  <2>. HIDE DEF c
  <2>4. chip' \in Chips /\ chip'.on = chip.on
    BY <2>2, <2>3 DEF Chips
  <2>5. /\ stack' \in Seq(Activations) /\ Depth' = Depth
        /\ Depth = 2 => stack'[1] = stack[1]
        /\ Top'.at = "rx"
    BY <1>0, <2>1, GotoTop, TopType DEF Places, Activations
  <2>. QED BY <2>1, <2>2, <2>4, <2>5, ControlRx DEF At
<1>3. CASE EncAdvance
  <2>1. At("advance") /\ Goto("rx") /\ Same /\ cur' = Top.next /\ chip' = EncFreed(Top.next)
    BY <1>3 DEF EncAdvance
  <2>2. chip' \in Chips /\ chip'.on = chip.on /\ cur' \in Pos
    BY <1>0, <1>1, <2>1, EncFreedType
  <2>3. /\ stack' \in Seq(Activations) /\ Depth' = Depth
        /\ Depth = 2 => stack'[1] = stack[1]
        /\ Top'.at = "rx"
    BY <1>0, <2>1, GotoTop, TopType DEF Places, Activations
  <2>. QED BY <2>1, <2>2, <2>3, ControlRx DEF At
<1>4. CASE LoopPolls
  <2>1. At("loop") /\ Same /\ UNCHANGED <<chip, cur>>
    BY <1>4 DEF LoopPolls
  <2>. QED BY <1>0, <1>4, <2>1, PollTop, ControlRx DEF At
<1>. QED BY <1>2, <1>3, <1>4

LEMMA HandledPlace == Handled \in Places \ {"guest", "own", "handle"}
BY DEF Handled, Places

LEMMA ControlHandles ==
    ASSUME Control, Execute \/ ExecuteIgnored \/ HandleOther
    PROVE  Control'
<1>0. /\ TypeOK /\ cur \in Pos /\ chip \in Chips /\ stack \in Seq(Activations)
      /\ handled \in Seq(Nat) /\ started \in {2, 3} /\ escape \in BOOLEAN /\ running \in BOOLEAN
  BY DEF Control, TypeOK
<1>1. At("handle") /\ Top.frame.id \in Nat
  BY <1>0, TopType DEF Execute, ExecuteIgnored, HandleOther, Activations, Frames
<1>2. Append(handled, Top.frame.id) \in Seq(Nat)
  BY <1>0, <1>1
<1>3. CASE Execute
  <2>1. /\ handled' = Append(handled, Top.frame.id) /\ chip' = Stopped(chip)
        /\ started' = StopState /\ running' = TRUE /\ ~running /\ Goto("guest")
        /\ UNCHANGED <<drv, cur, escape, next, exits>>
    BY <1>3 DEF Execute
  <2>2. /\ stack' \in Seq(Activations) /\ Depth' = Depth /\ Top'.at = "guest"
    BY <1>0, <2>1, GotoTop, TopType DEF Places, Activations
  <2>3. started' \in {2, 3} /\ (started' = 3 => drv = "lan")
    BY <1>0, <2>1 DEF StopState, Control, PowerOK
  <2>4. Depth = 1 /\ Depth' \in 1 .. 2
    BY <1>0, <2>1, <2>2, TopType DEF Control, NestingOK
  <2>5. chip' \in Chips /\ (drv = "nvnet" => chip'.on)
    BY <1>0, <2>1, StopType
  <2>6. TypeOK'
    BY <1>0, <1>2, <2>1, <2>2, <2>3, <2>4, <2>5 DEF TypeOK
  <2>7. NestingOK'
    BY <2>1, <2>2, <2>4 DEF NestingOK, At
  <2>. QED BY <2>1, <2>2, <2>3, <2>5, <2>6, <2>7 DEF Control, PowerOK, At
<1>4. CASE ExecuteIgnored \/ HandleOther
  <2>1. /\ Goto(Handled) /\ handled' \in Seq(Nat) /\ escape' \in BOOLEAN
        /\ UNCHANGED <<drv, chip, cur, running, started, next, exits>>
    BY <1>0, <1>2, <1>4 DEF ExecuteIgnored, HandleOther
  <2>2. /\ stack' \in Seq(Activations) /\ Depth' = Depth /\ Top'.at = Handled
        /\ Depth = 2 => stack'[1] = stack[1]
    BY <1>0, <2>1, HandledPlace, GotoTop, TopType DEF Activations
  <2>3. TypeOK'
    BY <1>0, <2>1, <2>2, TopType DEF TypeOK
  <2>4. NestingOK'
    BY <1>1, <2>1, <2>2, HandledPlace, TopType DEF Control, NestingOK, At
  <2>5. PowerOK'
    BY <1>1, <2>1, <2>2, HandledPlace DEF Control, PowerOK, At
  <2>6. At("advance")' => drv' \in Late
    BY <2>1, <2>2 DEF At, Handled, Late
  <2>. QED BY <2>3, <2>4, <2>5, <2>6 DEF Control
<1>. QED BY <1>3, <1>4

LEMMA ControlCalls ==
    ASSUME Untouched, Control, GuestCalls \/ CallReturns \/ GuestDrives
    PROVE  Control'
<1>0. /\ TypeOK /\ cur \in Pos /\ chip \in Chips /\ stack \in Seq(Activations)
      /\ handled \in Seq(Nat) /\ started \in {2, 3} /\ escape \in BOOLEAN /\ running \in BOOLEAN
  BY DEF Control, TypeOK
<1>1. CASE GuestCalls
  <2>1. /\ At("guest") /\ Start /\ stack' = Append(stack, Activation("loop"))
        /\ UNCHANGED <<drv, cur, running, escape, next, handled, exits>>
    BY <1>1 DEF GuestCalls
  <2>2. Depth = 1 /\ running
    BY <1>0, <2>1, TopType DEF Control, NestingOK
  <2>3. stack' \in Seq(Activations) /\ Depth' = 2 /\ Top'.at = "loop" /\ stack'[1].at = "guest"
    BY <1>0, <2>1, <2>2, PushTop DEF At
  <2>4. started' = 2 /\ chip' \in Chips /\ chip'.on = TRUE
    <3>. DEFINE on == IF drv = "lan" THEN started \in {2, 3} ELSE TRUE
    <3>1. on = TRUE
      BY <1>0
    <3>2. chip' = [chip EXCEPT !.on = TRUE] /\ started' = IF started = 3 THEN 2 ELSE started
      BY <2>1, <3>1 DEF Start
    <3>. QED BY <1>0, <3>2 DEF Chips
  <2>5. TypeOK'
    BY <1>0, <2>1, <2>3, <2>4 DEF TypeOK
  <2>6. NestingOK'
    BY <2>1, <2>2, <2>3 DEF NestingOK, At
  <2>. QED BY <2>3, <2>4, <2>5, <2>6 DEF Control, PowerOK, At
<1>2. CASE CallReturns
  <2>1. /\ Depth = 2 /\ escape' = FALSE /\ stack' = Front(stack)
        /\ UNCHANGED <<drv, chip, cur, running, started, next, handled, exits>>
    BY <1>2 DEF CallReturns
  <2>2. stack' \in Seq(Activations) /\ Depth' = 1 /\ Top'.at = "guest" /\ running
    BY <1>0, <2>1, PopTop DEF Control, NestingOK
  <2>3. TypeOK'
    <3>1. escape' = FALSE /\ UNCHANGED <<drv, chip, cur, running, started, next, handled, exits>>
      BY <2>1
    <3>2. stack' \in Seq(Activations) /\ Depth' \in 1 .. 2
      BY <2>2
    <3>. QED BY <1>0, <3>1, <3>2 DEF TypeOK
  <2>4. NestingOK'
    BY <2>1, <2>2 DEF NestingOK, At
  <2>. QED BY <2>1, <2>2, <2>3, <2>4 DEF Control, PowerOK, At
<1>3. CASE GuestDrives
  <2>1. /\ At("guest") /\ drv \in Drives /\ Goto("own")
        /\ UNCHANGED <<drv, cur, running, escape, started, next, handled, exits>>
    BY <1>3 DEF GuestDrives
  <2>2. stack' \in Seq(Activations) /\ Depth' = Depth /\ Top'.at = "own"
    BY <1>0, <2>1, GotoTop, TopType DEF Places, Activations
  <2>3. Depth = 1 /\ running
    BY <1>0, <2>1, TopType DEF Control, NestingOK
  <2>4. chip' \in Chips
    <3>1. PICK p \in Pos : chip' = [chip EXCEPT !.wr = p, !.rd = p, !.cnt = 0, !.on = FALSE]
      BY <1>3 DEF GuestDrives
    <3>2. 0 \in 0 .. Slots - 1
      BY NicAssumption
    <3>. QED BY <1>0, <3>1, <3>2 DEF Chips
  <2>5. TypeOK'
    BY <1>0, <2>1, <2>2, <2>3, <2>4 DEF TypeOK
  <2>6. NestingOK'
    BY <2>1, <2>2, <2>3 DEF NestingOK, At, Control
  <2>7. drv # "nvnet"
    BY <2>1 DEF Untouched
  <2>. QED BY <2>1, <2>2, <2>5, <2>6, <2>7 DEF Control, PowerOK, At
<1>. QED BY <1>1, <1>2, <1>3

LEMMA ControlRestarts ==
    ASSUME Untouched, Control, GuestReturns \/ LoaderRestarts \/ Arrive
    PROVE  Control'
<1>0. /\ TypeOK /\ cur \in Pos /\ chip \in Chips /\ stack \in Seq(Activations)
      /\ handled \in Seq(Nat) /\ started \in {2, 3} /\ escape \in BOOLEAN /\ running \in BOOLEAN
      /\ next \in Nat \ {0} /\ exits \in Nat /\ chip.mem \in [Pos -> Frames]
  BY ChipType DEF Control, TypeOK
<1>1. CASE GuestReturns
  <2>1. /\ At("guest") \/ At("own")
        /\ drv \in Returns
        /\ NvnetInit \/ BbaInit \/ EncInit \/ W5500Init
        /\ running' = FALSE /\ exits' = exits + 1 /\ Goto(Handled)
        /\ UNCHANGED <<drv, escape, started, next, handled>>
    BY <1>1 DEF GuestReturns
  <2>2. stack' \in Seq(Activations) /\ Depth' = Depth /\ Top'.at = Handled
    BY <1>0, <2>1, HandledPlace, GotoTop, TopType DEF Activations
  <2>3. Depth = 1
    BY <1>0, <2>1, TopType DEF Control, NestingOK
  <2>4. chip' \in Chips /\ chip'.on /\ cur' \in Pos
    <3>1. CASE NvnetInit
      BY <1>0, <3>1 DEF NvnetInit, Control, PowerOK
    <3>2. CASE BbaInit \/ W5500Init
      BY <3>2, BlanksType, EmptyType DEF BbaInit, W5500Init, Clean
    <3>3. CASE EncInit
      BY <1>0, <3>3, EmptyType DEF EncInit, Clean
    <3>. QED BY <2>1, <3>1, <3>2, <3>3
  <2>5. started = 2
    BY <1>0, <2>1 DEF Control, PowerOK, Returns
  <2>6. TypeOK'
    <3>1. /\ running' = FALSE /\ exits' \in Nat
          /\ UNCHANGED <<drv, escape, started, next, handled>>
      BY <1>0, <2>1
    <3>2. stack' \in Seq(Activations) /\ Depth' \in 1 .. 2 /\ drv \in Drivers
      BY <1>0, <2>2, <2>3 DEF TypeOK
    <3>. QED BY <1>0, <2>4, <3>1, <3>2 DEF TypeOK
  <2>7. NestingOK'
    BY <2>1, <2>2, <2>3, HandledPlace DEF NestingOK, At
  <2>8. At("advance")' => drv' \in Late
    BY <2>1, <2>2 DEF At, Handled, Late
  <2>. QED BY <2>1, <2>4, <2>5, <2>6, <2>7, <2>8 DEF Control, PowerOK
<1>2. CASE LoaderRestarts
  <2>1. /\ RtlInit \/ LanInit \/ W5500Init
        /\ stack' = <<Activation("loop")>>
        /\ running' = FALSE /\ escape' = FALSE /\ started' = 2
        /\ UNCHANGED <<drv, next, handled, exits>>
    BY <1>2 DEF LoaderRestarts
  <2>2. stack' \in Seq(Activations) /\ Depth' = 1 /\ Top'.at = "loop"
    BY <1>0, <2>1, RestartTop
  <2>3. chip' \in Chips /\ chip'.on = TRUE /\ cur' \in Pos
    BY <2>1, BlanksType, EmptyType DEF RtlInit, LanInit, W5500Init, Clean
  <2>4. TypeOK'
    <3>1. /\ running' = FALSE /\ escape' = FALSE /\ started' = 2
          /\ UNCHANGED <<drv, next, handled, exits>>
      BY <2>1
    <3>2. stack' \in Seq(Activations) /\ Depth' \in 1 .. 2 /\ drv \in Drivers
      BY <1>0, <2>2 DEF TypeOK
    <3>. QED BY <1>0, <2>3, <3>1, <3>2 DEF TypeOK
  <2>5. NestingOK'
    BY <2>1, <2>2 DEF NestingOK, At
  <2>. QED BY <2>1, <2>2, <2>3, <2>4, <2>5 DEF Control, PowerOK, At
<1>3. CASE Arrive
  <2>1. /\ chip.on /\ next' = next + 1
        /\ UNCHANGED <<drv, cur, stack, running, escape, started, handled, exits>>
    BY <1>3 DEF Arrive
  <2>2. chip' \in Chips /\ chip'.on = chip.on
    <3>1. PICK k \in Kinds :
            chip' = IF chip.cnt < Slots - 1
                    THEN [chip EXCEPT !.mem[chip.wr] = [id |-> next, kind |-> k],
                                      !.wr = After(@), !.cnt = @ + 1, !.irq = TRUE]
                    ELSE [chip EXCEPT !.irq = TRUE, !.over = TRUE]
      BY <1>3 DEF Arrive
    <3>2. CASE chip.cnt < Slots - 1
      <4>. DEFINE m == [chip.mem EXCEPT ![chip.wr] = [id |-> next, kind |-> k]]
                  w == After(chip.wr)
                  n == chip.cnt + 1
      <4>1. m \in [Pos -> Frames]
        <5>1. [id |-> next, kind |-> k] \in Frames
          BY <1>0 DEF Frames
        <5>. QED BY <1>0, <5>1
      <4>2. w \in Pos /\ n \in 0 .. Slots - 1
        BY <1>0, <3>2, ChipType, AfterPos, NicAssumption
      <4>3. chip' = [chip EXCEPT !.mem = m, !.wr = w, !.cnt = n, !.irq = TRUE]
        BY <3>1, <3>2
      <4>. HIDE DEF m, w, n
      <4>. QED BY <1>0, <4>1, <4>2, <4>3 DEF Chips
    <3>3. CASE ~(chip.cnt < Slots - 1)
      BY <1>0, <3>1, <3>3 DEF Chips
    <3>. QED BY <3>2, <3>3
  <2>3. TypeOK'
    BY <1>0, <2>1, <2>2, TopType DEF TypeOK, Depth
  <2>4. NestingOK'
    BY <2>1 DEF NestingOK, At, Top, Depth, Control
  <2>. QED BY <2>1, <2>2, <2>3, <2>4 DEF Control, PowerOK, At, Top, Depth
<1>. QED BY <1>1, <1>2, <1>3

LEMMA ControlStep ==
    ASSUME Untouched, Control, [Next]_vars
    PROVE  Control'
<1>1. CASE UNCHANGED vars
  BY <1>1 DEF vars, Control, TypeOK, NestingOK, PowerOK, At, Top, Depth
<1>. QED BY <1>1, ControlReceives, ControlAdvances, ControlHandles, ControlCalls, ControlRestarts
         DEF Next, Driver

-----------------------------------------------------------------------------
(* The ring: the driver reads where the chip has its oldest frame, and     *)
(* what it reads is newer than what has been acted on.                     *)

Good == CursorOK /\ NewerOK /\ Ascending

\* What a step may leave of the ring.
SameRing == /\ chip'.mem = chip.mem /\ chip'.wr = chip.wr
            /\ chip'.rd = chip.rd /\ chip'.cnt = chip.cnt
            /\ UNCHANGED <<drv, cur, next>>

LEMMA WaitingZero ==
    ASSUME TypeOK
    PROVE  Waiting(0) = chip.mem[chip.rd]
<1>1. chip.rd \in 0 .. 2 * Slots - 1 /\ chip.rd < Slots /\ chip.rd + 0 = chip.rd
  BY ChipType, NicAssumption DEF Pos
<1>. QED BY <1>1, WrapSlot DEF Waiting

\* The ring stays as it is, and so does what has been acted on.
LEMMA GoodSame ==
    ASSUME Good, SameRing, UNCHANGED handled,
           Seen(0) => Seen(0)',
           At("own") => drv \notin OwnCursor \/ At("own")',
           drv \in Late /\ (At("handle")' \/ At("advance")') =>
              chip.cnt > 0 /\ Top'.next = After(cur),
           drv \in Late /\ At("handle")' => Top'.frame = Waiting(0),
           drv \notin Late => ~At("handle")'
    PROVE  Good'
<1>1. \A i : Waiting(i)' = Waiting(i)
  BY DEF SameRing, Waiting
<1>2. Offsets' = Offsets /\ next' = next /\ drv' = drv /\ cur' = cur
  BY DEF SameRing, Offsets
<1>3. \A i : Seen(i) => Seen(i)'
  BY DEF Seen
<1>4. CursorOK'
  BY <1>1, <1>2 DEF Good, CursorOK, SameRing
<1>5. NewerOK'
  BY <1>1, <1>2, <1>3 DEF Good, NewerOK
<1>. QED BY <1>4, <1>5 DEF Good, Ascending

\* The ring is empty afterwards.
LEMMA GoodEmpty ==
    ASSUME Good, UNCHANGED <<drv, next, handled>>,
           chip'.cnt = 0, chip'.wr = chip'.rd, chip'.rd \in Pos,
           drv \in OwnCursor /\ ~At("own")' => cur' = chip'.rd,
           ~At("handle")', ~At("advance")'
    PROVE  Good'
<1>1. Offsets' = {}
  BY DEF Offsets
<1>2. (chip'.rd + chip'.cnt) % Slots = chip'.rd
  <2>1. \A n \in Nat \ {0} : \A x \in 0 .. n - 1 : (x + 0) % n = x
    OBVIOUS
  <2>. QED BY <2>1, NicAssumption DEF Pos
<1>3. CursorOK'
  BY <1>2 DEF CursorOK
<1>4. NewerOK'
  BY <1>1 DEF Good, NewerOK
<1>. QED BY <1>3, <1>4 DEF Good, Ascending

\* The oldest frame is passed over; an adapter that does so early has it in
\* hand now, or drops it.
LEMMA GoodPass ==
    ASSUME TypeOK, Good, UNCHANGED <<drv, next, handled>>,
           chip.cnt > 0,
           chip'.mem = chip.mem, chip'.wr = chip.wr, chip'.rd = After(chip.rd),
           chip'.cnt = (chip.wr - After(chip.rd)) % Slots \/ chip'.cnt = chip.cnt - 1,
           drv \in OwnCursor => cur' = After(chip.rd),
           ~At("advance")',
           At("handle")' => drv \notin Late /\ Top'.frame = Waiting(0)
    PROVE  Good'
<1>0. /\ chip.rd \in Pos /\ chip.wr \in Pos /\ chip.cnt \in 1 .. Slots - 1
      /\ chip.wr = (chip.rd + chip.cnt) % Slots
  BY ChipType, NicAssumption DEF Good, CursorOK
<1>1. /\ chip'.cnt = chip.cnt - 1
      /\ chip'.wr = (chip'.rd + chip'.cnt) % Slots
      /\ \A i \in 0 .. chip.cnt - 2 : (chip'.rd + i) % Slots = (chip.rd + (i + 1)) % Slots
  BY <1>0, RingPass
<1>2. \A i \in Offsets' : i \in Offsets /\ i + 1 \in Offsets /\ Waiting(i)' = Waiting(i + 1)
  BY <1>0, <1>1 DEF Offsets, Waiting
<1>3. 0 \in Offsets /\ \A i \in Offsets : i \in Nat
  BY <1>0 DEF Offsets
<1>4. CursorOK'
  BY <1>1 DEF CursorOK
<1>5. NewerOK'
  <2>1. \A i \in Offsets' : Waiting(i)'.id \in 1 .. next' - 1
    BY <1>2 DEF Good, NewerOK
  <2>2. \A i, j \in Offsets' : i < j => Waiting(i)'.id < Waiting(j)'.id
    <3>1. \A i, j \in Offsets' : i < j => i + 1 < j + 1
      BY <1>2, <1>3
    <3>. QED BY <1>2, <3>1 DEF Good, NewerOK
  <2>3. \A k \in 1 .. Len(handled), i \in Offsets' : handled[k] < Waiting(i)'.id
    <3>1. \A i \in Offsets' : i + 1 # 0
      BY <1>2, <1>3
    <3>. QED BY <1>2, <3>1 DEF Good, NewerOK, Seen
  <2>4. At("handle")' =>
          /\ Top'.frame.id < next
          /\ \A k \in 1 .. Len(handled) : handled[k] < Top'.frame.id
          /\ \A i \in Offsets' : Top'.frame.id < Waiting(i)'.id
    <3>1. \A i \in Offsets' : 0 < i + 1
      BY <1>2, <1>3
    <3>2. Waiting(0).id < next
      BY <1>3 DEF Good, NewerOK, TypeOK
    <3>. QED BY <1>2, <1>3, <3>1, <3>2 DEF Good, NewerOK, Seen
  <2>5. \A k \in 1 .. Len(handled) : handled[k] < next
    BY DEF Good, NewerOK
  <2>. QED BY <2>1, <2>2, <2>3, <2>4, <2>5 DEF NewerOK
<1>. QED BY <1>4, <1>5 DEF Good, Ascending

\* process_pkt acts on the frame in hand: it is newer than what it has acted
\* on before, and a Late adapter has still to pass over it.
LEMMA GoodActs ==
    ASSUME Control, Good, SameRing, At("handle"),
           handled' = Append(handled, Top.frame.id),
           drv \in Late => ~Seen(0),
           drv \in Late => Seen(0)',
           drv \in Late /\ At("advance")' => Top'.next = Top.next,
           ~At("handle")'
    PROVE  Good'
<1>. DEFINE x == Top.frame.id
<1>0. TypeOK /\ handled \in Seq(Nat) /\ x \in Nat /\ next \in Nat /\ chip.cnt \in Nat
  BY TopType, ChipType, NicAssumption DEF Control, TypeOK, Activations, Frames
<1>1. \A i : Waiting(i)' = Waiting(i)
  BY DEF SameRing, Waiting
<1>2. Offsets' = Offsets /\ next' = next /\ drv' = drv /\ cur' = cur
  BY DEF SameRing, Offsets
<1>3. /\ \A k \in 1 .. Len(handled) : handled[k] < x
      /\ x < next
      /\ \A i \in Offsets : x < Waiting(i).id \/ (i = 0 /\ drv \in Late /\ x = Waiting(i).id)
  <2>1. CASE drv \notin Late
    BY <2>1 DEF Good, NewerOK
  <2>2. CASE drv \in Late
    <3>1. x = Waiting(0).id /\ 0 \in Offsets
      BY <1>0, <2>2 DEF Good, CursorOK, Offsets
    <3>2. \A k \in 1 .. Len(handled) : handled[k] < x
      BY <2>2, <3>1 DEF Good, NewerOK
    <3>3. x < next
      BY <1>0, <3>1 DEF Good, NewerOK
    <3>4. \A i \in Offsets : i # 0 => 0 < i
      BY <1>0 DEF Offsets
    <3>. QED BY <2>2, <3>1, <3>2, <3>3, <3>4 DEF Good, NewerOK
  <2>. QED BY <2>1, <2>2
<1>4. /\ Len(handled') = Len(handled) + 1
      /\ \A k \in 1 .. Len(handled) : handled'[k] = handled[k]
      /\ handled'[Len(handled) + 1] = x
  BY <1>0, AppendProperties
<1>5. CursorOK'
  BY <1>1, <1>2, TopType DEF Good, CursorOK, SameRing, OwnCursor, Late, At
<1>6. NewerOK'
  <2>1. \A k \in 1 .. Len(handled') : handled'[k] <= x /\ handled'[k] \in Nat
    <3>1. \A k \in 1 .. Len(handled') : k \in 1 .. Len(handled) \/ k = Len(handled) + 1
      BY <1>0, <1>4
    <3>2. \A k \in 1 .. Len(handled) : handled[k] \in Nat
      BY <1>0
    <3>. QED BY <1>0, <1>3, <1>4, <3>1, <3>2
  <2>2. \A i \in Offsets : Waiting(i).id \in Nat
    BY <1>0, WaitingType DEF Offsets, Frames
  <2>3. \A k \in 1 .. Len(handled'), i \in Offsets :
          handled'[k] < Waiting(i).id \/ (Seen(i)' /\ handled'[k] = Waiting(i).id)
    <3>1. \A i \in Offsets : i = 0 /\ drv \in Late => Seen(i)'
      OBVIOUS
    <3>. HIDE DEF x
    <3>. QED BY <1>0, <1>3, <2>1, <2>2, <3>1
  <2>4. \A k \in 1 .. Len(handled') : handled'[k] < next
    <3>. HIDE DEF x
    <3>. QED BY <1>0, <1>3, <2>1
  <2>. QED BY <1>1, <1>2, <2>3, <2>4 DEF Good, NewerOK
<1>7. Ascending'
  <2>. SUFFICES ASSUME NEW i \in 1 .. Len(handled') - 1
                PROVE  handled'[i] < handled'[i + 1]
    BY DEF Ascending
  <2>1. i \in 1 .. Len(handled) /\ handled'[i] = handled[i]
    BY <1>0, <1>4
  <2>2. CASE i = Len(handled)
    BY <1>0, <1>3, <1>4, <2>1, <2>2
  <2>3. CASE i # Len(handled)
    <3>1. i \in 1 .. Len(handled) - 1 /\ i + 1 \in 1 .. Len(handled)
      BY <1>0, <2>1, <2>3
    <3>. QED BY <1>4, <2>1, <3>1 DEF Good, Ascending
  <2>. QED BY <2>2, <2>3
<1>. QED BY <1>5, <1>6, <1>7 DEF Good

\* The early adapters: nvnet_rx, bba_rx, w5500_rx, la_bb_rx.
LEMMA GoodEarly ==
    ASSUME TypeOK, Good, drv \notin Late, At("rx"), Same,
           drv \in OwnCursor => cur' = chip'.rd,
           \/ /\ chip.cnt > 0
              /\ chip'.mem = chip.mem /\ chip'.wr = chip.wr /\ chip'.rd = After(chip.rd)
              /\ chip'.cnt = (chip.wr - After(chip.rd)) % Slots
              /\ \/ UNCHANGED stack
                 \/ Goto("loop")
                 \/ Dispatch(Waiting(0), chip.rd)
           \/ SameRing /\ Goto("loop")
    PROVE  Good'
<1>0. /\ UNCHANGED <<drv, next, handled>> /\ Waiting(0) \in Frames /\ chip.rd \in Pos
      /\ "loop" \in Places
  BY WaitingType, ChipType DEF Same, Places
<1>1. CASE SameRing /\ Goto("loop")
  <2>1. Top'.at = "loop"
    BY <1>0, <1>1, GotoTop, TopType DEF Activations
  <2>. QED BY <1>0, <1>1, <2>1, GoodSame DEF At, Seen
<1>2. CASE /\ chip.cnt > 0
           /\ chip'.mem = chip.mem /\ chip'.wr = chip.wr /\ chip'.rd = After(chip.rd)
           /\ chip'.cnt = (chip.wr - After(chip.rd)) % Slots
           /\ UNCHANGED stack \/ Goto("loop") \/ Dispatch(Waiting(0), chip.rd)
  <2>1. \/ Top'.at \in {"rx", "loop"}
        \/ Top'.at = "handle" /\ Top'.frame = Waiting(0)
    <3>1. CASE UNCHANGED stack
      BY <3>1 DEF Top, Depth, At
    <3>2. CASE Goto("loop")
      BY <1>0, <3>2, GotoTop, TopType DEF Activations
    <3>3. CASE Dispatch(Waiting(0), chip.rd)
      BY <1>0, <3>3, DispatchTop, TopType DEF Activations
    <3>. QED BY <1>2, <3>1, <3>2, <3>3
  <2>. QED BY <1>0, <1>2, <2>1, GoodPass DEF At
<1>. QED BY <1>1, <1>2

\* A frame is unread exactly when the ring is not empty and it lies at the
\* driver's position.
LEMMA UnreadCursor ==
    ASSUME TypeOK
    PROVE  chip.rd \in Unread <=> chip.cnt > 0
<1>1. chip.rd \in Pos /\ chip.cnt \in 0 .. Slots - 1 /\ Slots \in Nat
  BY ChipType, NicAssumption
<1>2. (chip.rd + 0) % Slots = chip.rd
  BY <1>1, WrapSlot DEF Pos
<1>3. ASSUME chip.cnt > 0 PROVE chip.rd \in Unread
  <2>1. 0 \in 0 .. chip.cnt - 1
    BY <1>1, <1>3
  <2>. QED BY <1>2, <2>1 DEF Unread
<1>4. ASSUME ~(chip.cnt > 0) PROVE Unread = {}
  <2>1. 0 .. chip.cnt - 1 = {}
    BY <1>1, <1>4
  <2>. QED BY <2>1 DEF Unread
<1>. QED BY <1>3, <1>4

LEMMA GoodReceivesEarly ==
    ASSUME Control, Good, NvnetRx \/ BbaRx \/ W5500Rx \/ LanRx
    PROVE  Good'
<1>0. TypeOK /\ chip.rd \in Pos /\ After(chip.rd) \in Pos /\ Waiting(0) = chip.mem[chip.rd]
  BY ChipType, AfterPos, WaitingZero DEF Control
<1>1. /\ Freed(chip, After(chip.rd)).mem = chip.mem /\ Freed(chip, After(chip.rd)).wr = chip.wr
      /\ Freed(chip, After(chip.rd)).rd = After(chip.rd)
      /\ Freed(chip, After(chip.rd)).cnt = (chip.wr - After(chip.rd)) % Slots
  BY <1>0, FreedType
<1>2. CASE NvnetRx
  <2>1. drv = "nvnet" /\ At("rx") /\ Same /\ cur = chip.rd
    BY <1>2 DEF NvnetRx, Good, CursorOK, OwnCursor, At
  <2>2. CASE chip.cnt > 0
    <3>1. /\ chip' = Freed(chip, After(chip.rd)) /\ cur' = After(chip.rd)
          /\ UNCHANGED stack \/ Dispatch(Waiting(0), chip.rd)
      BY <1>0, <1>2, <2>1, <2>2, UnreadCursor DEF NvnetRx
    <3>. QED BY <1>0, <1>1, <2>1, <2>2, <3>1, GoodEarly DEF Late
  <2>3. CASE ~(chip.cnt > 0)
    <3>1. Goto("loop") /\ UNCHANGED <<chip, cur>>
      BY <1>0, <1>2, <2>1, <2>3, UnreadCursor DEF NvnetRx
    <3>2. SameRing
      BY <2>1, <3>1 DEF SameRing, Same
    <3>. QED BY <1>0, <2>1, <3>1, <3>2, GoodEarly DEF Late
  <2>. QED BY <2>2, <2>3
<1>3. CASE BbaRx
  <2>1. drv = "bba" /\ At("rx") /\ Same /\ UNCHANGED cur
    BY <1>3 DEF BbaRx
  <2>2. \/ /\ chip.cnt > 0 /\ chip' = Freed(chip, After(chip.rd))
           /\ UNCHANGED stack \/ Dispatch(Waiting(0), chip.rd)
        \/ Goto("loop") /\ chip' = [chip EXCEPT !.irq = FALSE]
    BY <1>0, <1>3 DEF BbaRx
  <2>3. chip' = [chip EXCEPT !.irq = FALSE] => SameRing
    BY <1>0, <2>1 DEF SameRing, Same, TypeOK, Chips
  <2>. QED BY <1>0, <1>1, <2>1, <2>2, <2>3, GoodEarly DEF Late, OwnCursor
<1>4. CASE W5500Rx
  <2>1. drv = "w5500" /\ At("rx") /\ Same /\ UNCHANGED cur
    BY <1>4 DEF W5500Rx
  <2>2. \/ /\ chip.cnt > 0 /\ chip' = Freed(chip, After(chip.rd))
           /\ Goto("loop") \/ Dispatch(Waiting(0), chip.rd)
        \/ Goto("loop") /\ UNCHANGED chip
    BY <1>0, <1>4 DEF W5500Rx
  <2>3. UNCHANGED chip => SameRing
    BY <2>1 DEF SameRing, Same
  <2>. QED BY <1>0, <1>1, <2>1, <2>2, <2>3, GoodEarly DEF Late, OwnCursor
<1>5. CASE LanRx
  <2>1. drv = "lan" /\ At("rx") /\ Same /\ UNCHANGED cur
    BY <1>5 DEF LanRx
  <2>. DEFINE c == Freed(chip, After(chip.rd))
  <2>2. \/ /\ chip.cnt > 0
           /\ chip' = [c EXCEPT !.irq = c.cnt > 0] \/ chip' = c
           /\ Goto("loop") \/ Dispatch(Waiting(0), chip.rd)
        \/ Goto("loop") /\ chip' = [chip EXCEPT !.irq = FALSE]
    BY <1>0, <1>5 DEF LanRx
  <2>3. chip' = [chip EXCEPT !.irq = FALSE] => SameRing
    BY <1>0, <2>1 DEF SameRing, Same, TypeOK, Chips
  <2>4. c \in Chips
    BY <1>0, FreedType
  <2>. HIDE DEF c
  <2>5. chip' = [c EXCEPT !.irq = c.cnt > 0] \/ chip' = c =>
          chip'.mem = c.mem /\ chip'.wr = c.wr /\ chip'.rd = c.rd /\ chip'.cnt = c.cnt
    BY <2>4 DEF Chips
  <2>6. /\ c.mem = chip.mem /\ c.wr = chip.wr /\ c.rd = After(chip.rd)
        /\ c.cnt = (chip.wr - After(chip.rd)) % Slots
    BY <1>1 DEF c
  <2>. QED BY <1>0, <2>1, <2>2, <2>3, <2>5, <2>6, GoodEarly DEF Late, OwnCursor
<1>. QED BY <1>2, <1>3, <1>4, <1>5

\* The late adapters up to process_pkt: rtl_bb_rx, enc28j60_rx.
LEMMA GoodReceivesLate ==
    ASSUME Control, Good, RtlRx \/ EncRx
    PROVE  Good'
<1>0. /\ TypeOK /\ chip.rd \in Pos /\ After(chip.rd) \in Pos /\ cur = chip.rd
      /\ Waiting(0) = chip.mem[cur] /\ Waiting(0) \in Frames
      /\ drv \in Late /\ drv \in OwnCursor /\ At("rx") /\ Same /\ "loop" \in Places
      /\ UNCHANGED <<drv, next, handled>>
  BY ChipType, AfterPos, WaitingZero, WaitingType
     DEF Control, Good, CursorOK, RtlRx, EncRx, Late, OwnCursor, At, Same, Places
<1>1. CASE Dispatch(chip.mem[cur], cur) /\ UNCHANGED <<chip, cur>> /\ chip.cnt > 0
  <2>1. /\ Top'.at = "handle" /\ Top'.frame = Waiting(0) /\ Top'.next = After(cur)
    <3>1. Dispatch(Waiting(0), chip.rd)
      BY <1>0, <1>1
    <3>2. Top' = [Top EXCEPT !.at = "handle", !.frame = Waiting(0), !.next = After(chip.rd)]
      BY <1>0, <3>1, DispatchTop
    <3>. QED BY <1>0, <3>2, TopType DEF Activations
  <2>2. SameRing
    BY <1>0, <1>1 DEF SameRing
  <2>3. Seen(0) => Seen(0)'
    BY <1>0, <1>1 DEF Seen, At, Waiting, Same
  <2>. QED BY <1>0, <1>1, <2>1, <2>2, <2>3, GoodSame DEF At
<1>2. CASE Goto("loop") /\ UNCHANGED <<chip, cur>>
  <2>1. Top'.at = "loop"
    BY <1>0, <1>2, GotoTop, TopType DEF Activations
  <2>2. SameRing
    BY <1>0, <1>2 DEF SameRing
  <2>3. Seen(0) => Seen(0)'
    BY <1>0, <1>2 DEF Seen, At, Waiting, Same
  <2>. QED BY <1>0, <2>1, <2>2, <2>3, GoodSame DEF At
<1>3. CASE Goto("loop") /\ RxReset
  <2>1. Top'.at = "loop"
    BY <1>0, <1>3, GotoTop, TopType DEF Activations
  <2>. QED BY <1>0, <1>3, <2>1, ResetType, GoodEmpty DEF At
<1>4. CASE RtlRx
  BY <1>1, <1>2, <1>3, <1>4 DEF RtlRx
<1>5. CASE EncRx
  <2>1. chip.cnt > 0 => chip.mem[cur].id # 0
    <3>1. chip.cnt > 0 => 0 \in Offsets
      BY <1>0, ChipType, NicAssumption DEF Offsets
    <3>. QED BY <1>0, <3>1, NicAssumption DEF Good, NewerOK, Control, TypeOK
  <2>2. CASE chip.cnt > 0 /\ chip.mem[cur].kind = "bad"
    <3>1. chip' = EncFreed(After(chip.rd)) /\ cur' = After(chip.rd) /\ UNCHANGED stack
      BY <1>0, <1>5, <2>1, <2>2 DEF EncRx
    <3>2. /\ chip'.mem = chip.mem /\ chip'.wr = chip.wr /\ chip'.rd = After(chip.rd)
          /\ chip'.cnt = chip.cnt - 1
      BY <1>0, <2>2, <3>1, EncFreedType
    <3>3. Top'.at = "rx"
      BY <1>0, <3>1 DEF Top, Depth, At
    <3>. QED BY <1>0, <2>2, <3>1, <3>2, <3>3, GoodPass DEF At
  <2>3. CASE ~(chip.cnt > 0 /\ chip.mem[cur].kind = "bad")
    BY <1>1, <1>2, <1>5, <2>1, <2>3 DEF EncRx
  <2>. QED BY <2>2, <2>3
<1>. QED BY <1>4, <1>5

\* ... and after it.
LEMMA GoodAdvances ==
    ASSUME Control, Good, RtlAdvance \/ EncAdvance
    PROVE  Good'
<1>0. /\ TypeOK /\ chip.rd \in Pos /\ After(chip.rd) \in Pos /\ cur = chip.rd
      /\ chip.cnt > 0 /\ Top.next = After(chip.rd)
      /\ drv \in Late /\ drv \in OwnCursor /\ At("advance") /\ Same /\ Goto("rx") /\ "rx" \in Places
      /\ UNCHANGED <<drv, next, handled>>
  BY ChipType, AfterPos
     DEF Control, Good, CursorOK, RtlAdvance, EncAdvance, Late, OwnCursor, At, Same, Places
<1>1. Top'.at = "rx"
  BY <1>0, GotoTop, TopType DEF Activations
<1>2. /\ chip'.mem = chip.mem /\ chip'.wr = chip.wr /\ chip'.rd = After(chip.rd)
      /\ chip'.cnt = (chip.wr - After(chip.rd)) % Slots \/ chip'.cnt = chip.cnt - 1
      /\ cur' = After(chip.rd)
  <2>1. CASE RtlAdvance
    <3>. DEFINE c == Freed(chip, After(chip.rd))
    <3>1. /\ c \in Chips /\ c.mem = chip.mem /\ c.wr = chip.wr /\ c.rd = After(chip.rd)
          /\ c.cnt = (chip.wr - After(chip.rd)) % Slots
      BY <1>0, FreedType
    <3>2. chip' = [c EXCEPT !.irq = FALSE, !.over = FALSE] /\ cur' = After(chip.rd)
      BY <1>0, <2>1 DEF RtlAdvance
    <3>. HIDE DEF c
    <3>. QED BY <3>1, <3>2 DEF Chips
  <2>2. CASE EncAdvance
    BY <1>0, <2>2, EncFreedType DEF EncAdvance
  <2>. QED BY <2>1, <2>2
<1>. QED BY <1>0, <1>1, <1>2, GoodPass DEF At

LEMMA GoodHandles ==
    ASSUME Control, Good, Execute \/ ExecuteIgnored \/ HandleOther
    PROVE  Good'
<1>0. /\ TypeOK /\ At("handle") /\ Top \in Activations /\ chip.cnt \in Nat
      /\ drv \in Late => chip.cnt > 0 /\ Top.next = After(cur) /\ Top.frame = Waiting(0)
      /\ UNCHANGED <<drv, next, cur>>
  BY TopType, ChipType, NicAssumption
     DEF Control, Good, CursorOK, Execute, ExecuteIgnored, HandleOther
<1>1. CASE Execute
  <2>1. /\ Goto("guest") /\ running' = TRUE /\ ~running /\ Top.frame.kind = "exec"
        /\ handled' = Append(handled, Top.frame.id) /\ chip' = Stopped(chip)
    BY <1>1 DEF Execute
  <2>2. Top'.at = "guest"
    BY <1>0, <2>1, GotoTop DEF Places, Activations
  <2>3. SameRing
    BY <1>0, <2>1, StopType DEF SameRing
  <2>4. Waiting(0)' = Waiting(0)
    BY <2>3 DEF SameRing, Waiting
  <2>5. (drv \in Late => ~Seen(0)) /\ (drv \in Late => Seen(0)')
    BY <1>0, <2>1, <2>3, <2>4 DEF Seen, At, SameRing
  <2>. QED BY <1>0, <2>1, <2>2, <2>3, <2>5, GoodActs DEF At
<1>2. CASE ExecuteIgnored \/ HandleOther
  <2>1. Goto(Handled) /\ UNCHANGED <<chip, running>>
    BY <1>2 DEF ExecuteIgnored, HandleOther
  <2>2. Top' = [Top EXCEPT !.at = Handled] /\ Top'.at = Handled /\ Top'.next = Top.next
    BY <1>0, <2>1, HandledPlace, GotoTop DEF Activations
  <2>3. SameRing /\ Waiting(0)' = Waiting(0)
    BY <1>0, <2>1 DEF SameRing, Waiting
  <2>4. Handled # "handle" /\ Handled # "own" /\ (Handled = "advance" <=> drv \in Late)
    BY DEF Handled, Late
  <2>5. drv \in Late => Seen(0)'
    BY <1>0, <2>2, <2>4 DEF Seen, At
  <2>6. CASE ExecuteIgnored
    <3>1. UNCHANGED handled
      BY <2>6 DEF ExecuteIgnored
    <3>2. Seen(0) => drv \in Late
      BY DEF Seen
    <3>. QED BY <1>0, <2>2, <2>3, <2>4, <2>5, <3>1, <3>2, GoodSame DEF At
  <2>7. CASE HandleOther
    <3>1. handled' = Append(handled, Top.frame.id) /\ Top.frame.kind # "exec"
      BY <2>7 DEF HandleOther
    <3>2. drv \in Late => ~Seen(0)
      BY <1>0, <3>1 DEF Seen, At
    <3>. QED BY <1>0, <2>2, <2>3, <2>4, <2>5, <3>1, <3>2, GoodActs DEF At
  <2>. QED BY <1>2, <2>6, <2>7
<1>. QED BY <1>1, <1>2

\* The main loop, system calls and programs.
LEMMA GoodProgram ==
    ASSUME Untouched, Control, Good, InScope',
           LoopPolls \/ GuestCalls \/ CallReturns \/ GuestDrives \/ GuestReturns \/ LoaderRestarts
    PROVE  Good'
<1>0. /\ TypeOK /\ Top \in Activations /\ next \in Nat \ {0} /\ chip \in Chips
      /\ exits \in Nat
      /\ {"loop", "own"} \subseteq Places
      /\ chip.mem \in [Pos -> Frames]
  BY TopType, ChipType DEF Control, TypeOK, Places
<1>1. CASE LoopPolls
  <2>1. Top'.at = "rx" /\ At("loop")
    BY <1>0, <1>1, PollTop DEF LoopPolls
  <2>2. SameRing /\ UNCHANGED <<handled, running, chip>>
    BY <1>1 DEF LoopPolls, Same, SameRing
  <2>3. Seen(0) => Seen(0)'
    BY <2>1, <2>2 DEF Seen, At, Waiting, SameRing
  <2>. QED BY <2>1, <2>2, <2>3, GoodSame DEF At
<1>2. CASE GuestCalls
  <2>1. /\ At("guest") /\ Start /\ stack' = Append(stack, Activation("loop"))
        /\ UNCHANGED <<drv, cur, running, next, handled>>
    BY <1>2 DEF GuestCalls
  <2>2. Depth = 1
    BY <1>0, <2>1, TopType DEF Control, NestingOK
  <2>3. Top'.at = "loop"
    BY <1>0, <2>1, <2>2, PushTop
  <2>4. SameRing
    BY <1>0, <2>1 DEF SameRing, Start, Chips
  <2>5. Seen(0) => Seen(0)'
    BY <2>1, <2>4 DEF Seen, At, Waiting, SameRing
  <2>. QED BY <2>1, <2>3, <2>4, <2>5, GoodSame DEF At
<1>3. CASE CallReturns
  <2>1. /\ Depth = 2 /\ At("loop") /\ stack' = Front(stack)
        /\ UNCHANGED <<drv, chip, cur, running, next, handled>>
    BY <1>3 DEF CallReturns
  <2>2. Top'.at = "guest"
    BY <1>0, <2>1, PopTop DEF Control, NestingOK
  <2>3. SameRing
    BY <2>1 DEF SameRing
  <2>4. Seen(0) => Seen(0)'
    BY <2>1, <2>3 DEF Seen, At, Waiting, SameRing
  <2>. QED BY <2>1, <2>2, <2>3, <2>4, GoodSame DEF At
<1>4. CASE GuestDrives
  <2>1. Goto("own") /\ UNCHANGED <<drv, next, handled>>
    BY <1>4 DEF GuestDrives
  <2>2. Top'.at = "own"
    BY <1>0, <2>1, GotoTop DEF Activations
  <2>3. PICK p \in Pos : chip' = [chip EXCEPT !.wr = p, !.rd = p, !.cnt = 0, !.on = FALSE]
    BY <1>4 DEF GuestDrives
  <2>4. chip'.cnt = 0 /\ chip'.wr = chip'.rd /\ chip'.rd \in Pos
    BY <1>0, <2>3 DEF Chips
  <2>. QED BY <2>1, <2>2, <2>4, GoodEmpty DEF At
<1>5. CASE GuestReturns
  <2>1. /\ At("guest") \/ At("own")
        /\ NvnetInit \/ BbaInit \/ EncInit \/ W5500Init
        /\ exits' = exits + 1 /\ Goto(Handled)
        /\ UNCHANGED <<drv, next, handled>>
    BY <1>5 DEF GuestReturns
  <2>2. Top'.at = Handled
    BY <1>0, <2>1, HandledPlace, GotoTop DEF Activations
  <2>3. ~EncInit
    BY <1>0, <2>1 DEF EncInit, InScope
  <2>4. CASE NvnetInit
    <3>1. drv = "nvnet" /\ SameRing /\ At("guest")
      BY <2>1, <2>4 DEF NvnetInit, SameRing, Untouched, Control, NestingOK
    <3>2. Handled = "rx" /\ drv \notin Late
      BY <3>1 DEF Handled, Late
    <3>. QED BY <2>1, <2>2, <3>1, <3>2, GoodSame DEF At, Seen
  <2>5. CASE BbaInit \/ W5500Init
    <3>1. Handled \in {"rx", "loop"} /\ drv \notin OwnCursor
      BY <2>5 DEF BbaInit, W5500Init, Handled, OwnCursor
    <3>2. chip'.cnt = 0 /\ chip'.wr = chip'.rd /\ chip'.rd \in Pos
      BY <2>5, BlanksType, EmptyType DEF BbaInit, W5500Init, Clean
    <3>. QED BY <2>1, <2>2, <3>1, <3>2, GoodEmpty DEF At
  <2>. QED BY <2>1, <2>3, <2>4, <2>5
<1>6. CASE LoaderRestarts
  <2>1. /\ RtlInit \/ LanInit \/ W5500Init
        /\ stack' = <<Activation("loop")>>
        /\ UNCHANGED <<drv, next, handled>>
    BY <1>6 DEF LoaderRestarts
  <2>2. Top'.at = "loop"
    BY <1>0, <2>1, RestartTop
  <2>3. chip'.cnt = 0 /\ chip'.wr = chip'.rd /\ chip'.rd \in Pos /\ cur' = chip'.rd
    BY <2>1, BlanksType, EmptyType DEF RtlInit, LanInit, W5500Init, Clean
  <2>. QED BY <2>1, <2>2, <2>3, GoodEmpty DEF At
<1>. QED BY <1>1, <1>2, <1>3, <1>4, <1>5, <1>6

\* A frame that finds room is the newest in the ring.
LEMMA GoodArrive ==
    ASSUME Control, Good, Arrive
    PROVE  Good'
<1>0. /\ TypeOK /\ chip \in Chips /\ next \in Nat \ {0} /\ next' = next + 1
      /\ chip.rd \in Pos /\ chip.wr \in Pos /\ chip.cnt \in 0 .. Slots - 1
      /\ chip.mem \in [Pos -> Frames]
      /\ UNCHANGED <<drv, cur, stack, running, handled>>
  BY ChipType DEF Arrive, Control, TypeOK
<1>1. Top' = Top /\ (\A w : At(w)' <=> At(w))
  BY <1>0 DEF Top, Depth, At
<1>2. PICK k \in Kinds :
        chip' = IF chip.cnt < Slots - 1
                THEN [chip EXCEPT !.mem[chip.wr] = [id |-> next, kind |-> k],
                                  !.wr = After(@), !.cnt = @ + 1, !.irq = TRUE]
                ELSE [chip EXCEPT !.irq = TRUE, !.over = TRUE]
  BY DEF Arrive
<1>3. /\ \A n \in 1 .. Len(handled) : handled[n] < next /\ handled[n] \in Nat
      /\ Top.frame.id \in Nat
  <2>1. handled \in Seq(Nat) /\ (\A n \in 1 .. Len(handled) : handled[n] < next)
    BY <1>0 DEF TypeOK, Good, NewerOK
  <2>2. \A n \in 1 .. Len(handled) : handled[n] \in Nat
    BY <2>1
  <2>3. Top \in Activations
    BY <1>0, TopType
  <2>4. Top.frame.id \in Nat
    BY <2>3 DEF Activations, Frames
  <2>. QED BY <2>1, <2>2, <2>4
<1>4. CASE ~(chip.cnt < Slots - 1)
  <2>1. /\ chip'.mem = chip.mem /\ chip'.wr = chip.wr /\ chip'.rd = chip.rd
        /\ chip'.cnt = chip.cnt
    BY <1>0, <1>2, <1>4 DEF Chips
  <2>2. Offsets' = Offsets /\ (\A i : Waiting(i)' = Waiting(i)) /\ (\A i : Seen(i)' <=> Seen(i))
    BY <1>0, <1>1, <2>1 DEF Offsets, Waiting, Seen
  <2>3. CursorOK'
    BY <1>0, <1>1, <2>1, <2>2 DEF Good, CursorOK
  <2>4. NewerOK'
    <3>1. \A i \in Offsets : Waiting(i).id \in 1 .. next' - 1
      BY <1>0 DEF Good, NewerOK
    <3>2. \A n \in 1 .. Len(handled) : handled[n] < next'
      BY <1>0, <1>3
    <3>3. drv \notin Late /\ At("handle") => Top.frame.id < next'
      BY <1>0, <1>3 DEF Good, NewerOK
    <3>. QED BY <1>0, <1>1, <2>2, <3>1, <3>2, <3>3 DEF Good, NewerOK
  <2>. QED BY <1>0, <2>3, <2>4 DEF Good, Ascending
<1>5. CASE chip.cnt < Slots - 1
  <2>. DEFINE f == [id |-> next, kind |-> k]
  <2>1. /\ chip'.mem = [chip.mem EXCEPT ![chip.wr] = f]
        /\ chip'.wr = After(chip.wr) /\ chip'.rd = chip.rd /\ chip'.cnt = chip.cnt + 1
    BY <1>0, <1>2, <1>5 DEF Chips
  <2>2. /\ chip.cnt \in 0 .. Slots - 2 /\ chip.wr = (chip.rd + chip.cnt) % Slots
    BY <1>0, <1>5, NicAssumption DEF Good, CursorOK
  <2>3. /\ chip'.wr = (chip'.rd + chip'.cnt) % Slots
        /\ \A i \in Offsets : (chip.rd + i) % Slots \in Pos \ {chip.wr}
    BY <1>0, <2>1, <2>2, RingAdd DEF Offsets
  <2>4. \A i \in Offsets : Waiting(i)' = Waiting(i)
    BY <1>0, <2>1, <2>3 DEF Waiting
  <2>5. \A i : i = chip.cnt => Waiting(i)'.id = next
    <3>1. SUFFICES ASSUME NEW i, i = chip.cnt
                   PROVE  Waiting(i)'.id = next
      OBVIOUS
    <3>2. (chip'.rd + i) % Slots = chip.wr
      BY <2>1, <2>2, <3>1
    <3>3. chip'.mem[chip.wr] = f
      BY <1>0, <2>1
    <3>. QED BY <3>2, <3>3 DEF Waiting
  <2>6. /\ \A i \in Offsets' : i \in Offsets \/ i = chip.cnt
        /\ \A i \in Offsets : i < chip.cnt /\ i \in Nat /\ i # chip.cnt
        /\ chip.cnt > 0 => 0 \in Offsets
    BY <1>0, <2>1, <2>2 DEF Offsets
  <2>7. CursorOK'
    <3>1. chip.cnt > 0 => Waiting(0)' = Waiting(0) /\ chip'.cnt > 0
      BY <1>0, <2>1, <2>4, <2>6
    <3>. QED BY <1>0, <1>1, <2>1, <2>3, <3>1 DEF Good, CursorOK
  <2>8. NewerOK'
    <3>. HIDE DEF f
    <3>1. \A i \in Offsets : Waiting(i).id \in 1 .. next - 1
      BY DEF Good, NewerOK
    <3>2. \A i \in Offsets' : Waiting(i)'.id \in 1 .. next' - 1
      BY <1>0, <2>4, <2>5, <2>6, <3>1
    <3>3. \A i, j \in Offsets' : i < j => Waiting(i)'.id < Waiting(j)'.id
      <4>. SUFFICES ASSUME NEW i \in Offsets', NEW j \in Offsets', i < j
                    PROVE  Waiting(i)'.id < Waiting(j)'.id
        OBVIOUS
      <4>1. i \in Offsets
        BY <1>0, <2>6
      <4>2. CASE j \in Offsets
        BY <2>4, <4>1, <4>2 DEF Good, NewerOK
      <4>3. CASE j = chip.cnt
        BY <1>0, <2>4, <2>5, <3>1, <4>1, <4>3
      <4>. QED BY <2>6, <4>2, <4>3
    <3>4. \A n \in 1 .. Len(handled), i \in Offsets' :
            handled[n] < Waiting(i)'.id \/ (Seen(i)' /\ handled[n] = Waiting(i)'.id)
      <4>. SUFFICES ASSUME NEW n \in 1 .. Len(handled), NEW i \in Offsets'
                    PROVE  handled[n] < Waiting(i)'.id \/ (Seen(i)' /\ handled[n] = Waiting(i)'.id)
        OBVIOUS
      <4>1. CASE i = chip.cnt
        BY <1>3, <2>5, <4>1
      <4>2. CASE i \in Offsets
        <5>1. Seen(i) => Seen(i)'
          BY <1>0, <1>1, <2>4, <4>2 DEF Seen
        <5>. QED BY <2>4, <4>2, <5>1 DEF Good, NewerOK
      <4>. QED BY <2>6, <4>1, <4>2
    <3>5. drv \notin Late /\ At("handle") =>
            /\ Top.frame.id < next'
            /\ \A n \in 1 .. Len(handled) : handled[n] < Top.frame.id
            /\ \A i \in Offsets' : Top.frame.id < Waiting(i)'.id
      BY <1>0, <1>3, <2>4, <2>5, <2>6 DEF Good, NewerOK
    <3>6. \A n \in 1 .. Len(handled) : handled[n] < next'
      BY <1>0, <1>3
    <3>. QED BY <1>0, <1>1, <3>2, <3>3, <3>4, <3>5, <3>6 DEF NewerOK
  <2>. QED BY <1>0, <2>7, <2>8 DEF Good, Ascending
<1>. QED BY <1>4, <1>5


LEMMA GoodStep ==
    ASSUME Untouched, Control, InScope => Good, [Next]_vars
    PROVE  (InScope => Good)'
<1>. SUFFICES ASSUME InScope'
              PROVE  Good'
  OBVIOUS
<1>1. InScope
  <2>1. exits \in Nat
    BY DEF Control, TypeOK
  <2>2. drv' = drv /\ (exits' = exits \/ exits' = exits + 1)
    BY DEF Next, Driver, vars, Same, LoopPolls, NvnetRx, BbaRx, W5500Rx, LanRx, RtlRx,
           RtlAdvance, EncRx, EncAdvance, Execute, ExecuteIgnored, HandleOther, CallReturns,
           GuestCalls, GuestDrives, GuestReturns, LoaderRestarts, NvnetInit, BbaInit, EncInit,
           W5500Init, RtlInit, LanInit, Arrive
  <2>. QED BY <2>1, <2>2 DEF InScope
<1>2. CASE UNCHANGED vars
  <2>1. \A i : Waiting(i)' = Waiting(i) /\ (Seen(i)' <=> Seen(i))
    BY <1>2 DEF vars, Waiting, Seen, At, Top, Depth
  <2>2. Offsets' = Offsets /\ Top' = Top /\ (\A w : At(w)' <=> At(w))
    BY <1>2 DEF vars, Offsets, At, Top, Depth
  <2>3. CursorOK'
    BY <1>1, <1>2, <2>1, <2>2 DEF vars, Good, CursorOK
  <2>4. NewerOK'
    BY <1>1, <1>2, <2>1, <2>2 DEF vars, Good, NewerOK
  <2>. QED BY <1>1, <1>2, <2>3, <2>4 DEF vars, Good, Ascending
<1>. QED BY <1>1, <1>2, GoodReceivesEarly, GoodReceivesLate, GoodAdvances, GoodHandles,
            GoodProgram, GoodArrive
         DEF Next, Driver

-----------------------------------------------------------------------------
(* The theorems.                                                           *)

LEMMA Begins ==
    ASSUME Init
    PROVE  Control /\ Good
<1>0. /\ chip.cnt = 0 /\ chip.wr = 0 /\ chip.rd = 0 /\ chip.on = TRUE /\ chip \in Chips
      /\ cur = 0 /\ 0 \in Pos
  BY BlanksType, EmptyType, NicAssumption DEF Init, Empty, Pos
<1>1. stack = <<Activation("loop")>> /\ Depth = 1 /\ Top = Activation("loop")
  BY DEF Init, Depth, Top
<1>2. Top.at = "loop" /\ Activation("loop") \in Activations
  BY <1>0, <1>1 DEF Init, Activation, Activations, Places, Frames, Blank, Kinds
<1>3. TypeOK
  <2>1. stack \in Seq(Activations) /\ Depth \in 1 .. 2
    BY <1>1, <1>2
  <2>2. << >> \in Seq(Nat) /\ 1 \in Nat \ {0} /\ 0 \in Nat
    OBVIOUS
  <2>. QED BY <1>0, <2>1, <2>2 DEF Init, TypeOK
<1>4. Control
  BY <1>0, <1>1, <1>2, <1>3 DEF Init, Control, NestingOK, PowerOK, At
<1>5. Offsets = {}
  BY <1>0 DEF Offsets
<1>6. (chip.rd + chip.cnt) % Slots = chip.wr
  BY <1>0, WrapSlot, NicAssumption
<1>7. handled = << >> /\ Len(handled) = 0
  BY DEF Init
<1>8. CursorOK /\ NewerOK
  BY <1>0, <1>2, <1>5, <1>6, <1>7 DEF CursorOK, NewerOK, At
<1>. QED BY <1>4, <1>7, <1>8 DEF Good, Ascending

LEMMA Rings == Untouched => (Spec => [](Control /\ (InScope => Good)))
<1>. SUFFICES ASSUME Untouched
              PROVE  Spec => [](Control /\ (InScope => Good))
  OBVIOUS
<1>1. Init => Control /\ (InScope => Good)
  BY Begins
<1>2. (Control /\ (InScope => Good)) /\ [Next]_vars => (Control /\ (InScope => Good))'
  BY ControlStep, GoodStep
<1>. QED BY <1>1, <1>2, PTL DEF Spec

(***************************************************************************)
(* Whenever a polled adapter waits, its receiver is on and it reads where  *)
(* the chip writes, however the receive functions are nested by a          *)
(* program's system calls (cmd_execute, build_send_packet), and however    *)
(* many programs have come and gone; the ENC28J60 up to the first return.  *)
(***************************************************************************)
THEOREM RingsInStep == Untouched => (Spec => []NicInv)
<1>1. Control /\ (InScope => Good) => NicInv
  BY DEF Control, Good, NicInv, Listening, PowerOK, InStep, KnownGood, CursorOK, RingOK, At
<1>. QED BY <1>1, Rings, PTL

(***************************************************************************)
(* The frames process_pkt acts on are acted on in the order in which they  *)
(* arrived and never twice, also when the loop of a system call reads on   *)
(* in the ring its caller stands in: no EXECUTE starts two programs.       *)
(***************************************************************************)
THEOREM FramesInOrder == Untouched => (Spec => []Orderly)
<1>1. Control /\ (InScope => Good) => Orderly
  BY DEF Good, Orderly
<1>. QED BY <1>1, Rings, PTL

-----------------------------------------------------------------------------
(* The Wii's adapter: what the request buffer, the interfaces and the      *)
(* loops hold.                                                             *)

Stations == Requests \cup {"closed", "top", "keep", "lease?", "guest"}
ShapeOf ==
    /\ at \in Stations /\ ipc \in {"call", "wait", "ret"} /\ (ipc # "call" => at \in Requests)
    /\ ret \in {ETIMEDOUT, Busy, Refused, 0, 1} /\ val \in {0, 1} /\ reply \in Nat
    /\ req \in [n : Nat, op : Requests \cup {"none"}, res : {Busy, Refused, 0, 1}]
    /\ sent => req.op \in Requests
    /\ IsFiniteSet(taken) /\ taken \in SUBSET [n : Nat, op : Requests]
    /\ {block, sent} \subseteq BOOLEAN /\ iface \in Ifaces
SetUp ==
    /\ iftype \in Ifaces \cup {"unknown"} /\ watched \in Ifaces \cup {"unknown"}
    /\ last_link \in {-1, 0, 1} /\ caller \in {"boot", "link", "edge"}
    /\ {net_fd, udp_fd, settle, settling, nested, again} \subseteq BOOLEAN

\* The stack is opened after the configuration is read and closed last, the socket
\* is made in between.
Layered ==
    /\ udp_fd => net_fd
    /\ at \in {"ncd_open", "ncd_link", "ncd_config", "ncd_read", "ncd_close", "ncd_giveup",
               "ip_open", "closed"} => ~net_fd
    /\ at \in {"kd_open", "kd_ioctl", "kd_close", "startup", "getip", "wifi_open", "wifi_mac",
               "wifi_close", "if_link", "if_mac", "socket", "ip_close"} => net_fd /\ ~udp_fd
    /\ at \in {"bind", "sock_close"} => udp_fd

\* One request is under way, and it is the one that is waited for.
Single ==
    /\ ipc # "wait" => ~sent /\ taken = {} /\ reply = 0
    /\ ipc = "wait" =>
         /\ req.op = at /\ req.n # 0 /\ (block <=> Blocking(at))
         /\ \/ sent /\ taken = {} /\ reply = 0
            \/ ~sent /\ taken = {[n |-> req.n, op |-> req.op]} /\ reply = 0
            \/ ~sent /\ taken = {} /\ reply = req.n

\* What IOS has open for the loader: by its place, and the request it has made there.
Holds(k) ==
    \/ k = "ncd" /\ at \in {"ncd_link", "ncd_config", "ncd_read", "ncd_close", "ncd_giveup",
                            "wifi_mac", "wifi_close"}
    \/ k = "kd" /\ at \in {"kd_ioctl", "kd_close"}
    \/ k = "ip" /\ net_fd
    \/ k = "sock" /\ udp_fd
Answered == ipc = "ret" \/ (ipc = "wait" /\ reply # 0)
Result == IF ipc = "ret" THEN ret ELSE req.res
Opened(k) == Answered /\ Result >= 0 /\ at \in DOMAIN Opens /\ Opens[at] = k
Shut(k) == Answered /\ at \in DOMAIN Closes /\ Closes[at] = k
Owes(k) == Opened(k) \/ (Holds(k) /\ ~Shut(k))
Accounts == files \in [FileKinds -> {0, 1}] /\ \A k \in FileKinds : files[k] = 1 <=> Owes(k)

\* Once a call was abandoned nothing is known of the buffer and of what is open.
IosKept == ShapeOf /\ SetUp /\ Layered /\ (~odd => own /\ Single /\ Accounts)

-----------------------------------------------------------------------------
(* The numbers of requests, and the tables.                                *)

LEMMA UnusedNumber == IsFiniteSet(taken) => Unused \in Nat \ {0}
<1>. SUFFICES ASSUME IsFiniteSet(taken) PROVE Unused \in Nat \ {0}
  OBVIOUS
<1>. DEFINE used == {r.n : r \in taken}
            all == 1 .. Cardinality(taken) + 3
            S == all \ (used \cup {reply, req.n})
<1>1. IsFiniteSet(used) /\ Cardinality(used) <= Cardinality(taken) /\ Cardinality(used) \in Nat
  <2>1. [r \in taken |-> r.n] \in Surjection(taken, used)
    BY DEF Surjection
  <2>. QED BY <2>1, FS_Surjection, FS_CardinalityType
<1>2. Cardinality(taken) \in Nat
  BY FS_CardinalityType
<1>. DEFINE u == used \cup {reply}
            w == u \cup {req.n}
<1>3. IsFiniteSet(u) /\ Cardinality(u) <= Cardinality(used) + 1 /\ Cardinality(u) \in Nat
  <2>. HIDE DEF used
  <2>. QED BY <1>1, FS_AddElement, FS_CardinalityType
<1>4. IsFiniteSet(w) /\ Cardinality(w) <= Cardinality(u) + 1 /\ Cardinality(w) \in Nat
  <2>. DEFINE n == req.n
  <2>. HIDE DEF u, n
  <2>1. /\ IsFiniteSet(u \cup {n})
        /\ Cardinality(u \cup {n}) = IF n \in u THEN Cardinality(u) ELSE Cardinality(u) + 1
    BY <1>3, FS_AddElement
  <2>. QED BY <1>3, <2>1 DEF n
<1>5. IsFiniteSet(all) /\ Cardinality(all) = Cardinality(taken) + 3
  <2>. DEFINE c == Cardinality(taken) + 3
  <2>1. c \in Nat /\ 1 <= c
    BY <1>2
  <2>. HIDE DEF c
  <2>. QED BY <2>1, FS_Interval DEF c
<1>6. Cardinality(w) < Cardinality(all)
  <2>. HIDE DEF w, u, used, all
  <2>. QED BY <1>1, <1>2, <1>3, <1>4, <1>5
<1>7. S # {}
  <2>. SUFFICES ASSUME S = {} PROVE FALSE
    OBVIOUS
  <2>1. all \subseteq w
    OBVIOUS
  <2>2. Cardinality(all) <= Cardinality(w)
    <3>. HIDE DEF all, w
    <3>. QED BY <1>4, <2>1, FS_Subset
  <2>. HIDE DEF all, w
  <2>. QED BY <1>4, <1>5, <1>6, <1>2, <2>2
<1>8. S \in SUBSET Nat /\ \A x \in S : x # 0
  BY <1>2
<1>9. Unused = Min(S)
  BY DEF Unused
<1>. HIDE DEF S
<1>10. Min(S) \in S
  <2>1. PICK m \in S : \A y \in S : ~ <<y, m>> \in OpToRel(<, Nat)
    BY <1>7, <1>8, NatLessThanWellFounded, WFMin
  <2>3. \A y \in S : ~(y < m)
    BY <1>8, <2>1 DEF OpToRel
  <2>2. \A y \in S : m <= y
    BY <1>8, <2>3
  <2>. QED BY <2>2 DEF Min
<1>. QED BY <1>8, <1>9, <1>10

LEMMA MaxZero == Max({1 - 1, 0}) = 0 /\ Max({0 - 1, 0}) = 0
<1>1. ASSUME NEW a \in {-1, 0} PROVE Max({a, 0}) = 0
  <2>1. \A x \in {a, 0} : (\A y \in {a, 0} : x >= y) <=> x = 0
    BY <1>1
  <2>. QED BY <2>1 DEF Max
<1>2. 1 - 1 = 0 /\ 0 - 1 = -1
  OBVIOUS
<1>. QED BY <1>1, <1>2

LEMMA Tables ==
    /\ DOMAIN Opens = {"ncd_open", "ip_open", "kd_open", "wifi_open", "socket"}
    /\ Opens["ncd_open"] = "ncd" /\ Opens["ip_open"] = "ip" /\ Opens["kd_open"] = "kd"
    /\ Opens["wifi_open"] = "ncd" /\ Opens["socket"] = "sock"
    /\ DOMAIN Closes = {"ncd_close", "ncd_giveup", "kd_close", "wifi_close", "sock_close", "ip_close"}
    /\ Closes["ncd_close"] = "ncd" /\ Closes["ncd_giveup"] = "ncd" /\ Closes["kd_close"] = "kd"
    /\ Closes["wifi_close"] = "ncd" /\ Closes["sock_close"] = "sock" /\ Closes["ip_close"] = "ip"
BY DEF Opens, Closes

-----------------------------------------------------------------------------
(* The steps of the loader between two requests.                           *)

\* The loader goes on with the request buffer free.
LEMMA Moves ==
    ASSUME IosKept, UNCHANGED wire, ipc # "wait", ipc' = "call", ret' = 0, block' = block,
           at' \in Stations, SetUp', Layered', \A k \in FileKinds : Holds(k)' <=> Owes(k)
    PROVE  IosKept'
<1>1. /\ req' = req /\ val' = val /\ sent' = sent /\ taken' = taken /\ reply' = reply
      /\ iface' = iface /\ files' = files /\ (odd' <=> odd) /\ (own' <=> own)
  BY Zenon DEF wire, buffers, mail, world, counts, history
<1>2. ShapeOf'
  BY <1>1 DEF IosKept, ShapeOf
<1>3. ASSUME ~odd PROVE own' /\ Single' /\ Accounts'
  <2>1. own /\ Single /\ Accounts
    BY <1>3 DEF IosKept
  <2>2. Single'
    BY <1>1, <2>1 DEF Single
  <2>3. \A k \in FileKinds : Owes(k)' <=> Holds(k)'
    BY DEF Owes, Opened, Shut, Answered
  <2>. QED BY <1>1, <2>1, <2>2, <2>3 DEF Accounts
<1>. QED BY <1>1, <1>2, <1>3 DEF IosKept

\* A request has returned: what it has opened or closed.
LEMMA Returned ==
    ASSUME IosKept, NEW op, Done(op), NEW k
    PROVE  /\ at = op /\ ipc = "ret" /\ op \in Requests
           /\ op \in DOMAIN Opens => (Owes(k) <=> (ret >= 0 /\ Opens[op] = k) \/ Holds(k))
           /\ op \in DOMAIN Closes => (Owes(k) <=> Holds(k) /\ Closes[op] # k)
           /\ op \notin DOMAIN Opens \cup DOMAIN Closes => (Owes(k) <=> Holds(k))
<1>1. at = op /\ ipc = "ret" /\ op \in Requests
  BY DEF Done, IosKept, ShapeOf
<1>2. DOMAIN Opens \cap DOMAIN Closes = {}
  BY Tables
<1>. QED BY <1>1, <1>2 DEF Owes, Opened, Shut, Answered, Result

\* No request is under way in the places of the loops.
LEMMA Between ==
    ASSUME IosKept, at \in {"closed", "top", "keep", "lease?", "guest"}
    PROVE  ipc = "call" /\ \A k : Owes(k) <=> Holds(k)
<1>1. at \notin Requests
  BY Tables DEF Requests, Asks
<1>2. ipc = "call"
  BY <1>1 DEF IosKept, ShapeOf
<1>. QED BY <1>2 DEF Owes, Opened, Shut, Answered

\* The files of an operation and of those that neither open nor close.
LEMMA Stationed ==
    /\ Requests \subseteq Stations
    /\ {"closed", "top", "keep", "lease?", "guest"} \subseteq Stations
    /\ Requests = {"ncd_open", "ip_open", "kd_open", "wifi_open", "socket", "ncd_close",
                   "ncd_giveup", "kd_close", "wifi_close", "sock_close", "ip_close",
                   "ncd_link", "ncd_config", "ncd_read", "kd_ioctl", "startup", "getip",
                   "wifi_mac", "if_link", "if_mac", "bind", "poll", "recv", "send", "link", "lease"}
BY Tables DEF Requests, Stations, Asks


\* The place a request's result, a failure or the end of the bring-up leads to.
LEMMA Going ==
    ASSUME NEW where, Proceed(where)
    PROVE  at' = where /\ ipc' = "call" /\ ret' = 0 /\ block' = block
BY DEF Proceed

LEMMA Shutting ==
    ASSUME Shutdown
    PROVE  /\ ipc' = "call" /\ ret' = 0 /\ block' = block
           /\ at' = IF udp_fd THEN "sock_close" ELSE IF net_fd THEN "ip_close" ELSE "closed"
BY DEF Shutdown, Proceed

LEMMA Failing ==
    ASSUME Fail
    PROVE  /\ ipc' = "call" /\ ret' = 0 /\ block' = block /\ UNCHANGED <<fds, setup>>
           /\ at' = IF udp_fd THEN "sock_close" ELSE IF net_fd THEN "ip_close" ELSE "closed"
BY Shutting DEF Fail

LEMMA StepOpenNcd ==
    ASSUME IosKept, OpenNcd
    PROVE  IosKept'
<1>1. /\ at = "ncd_open" /\ ipc = "ret" /\ ~net_fd /\ ~udp_fd /\ ret \in Int
      /\ \A k : Owes(k) <=> (ret >= 0 /\ k = "ncd")
  BY Returned, Tables DEF OpenNcd, IosKept, Layered, Holds, ShapeOf, ETIMEDOUT, Busy, Refused
<1>2. /\ UNCHANGED <<wire, fds, loop>> /\ ipc' = "call" /\ ret' = 0 /\ block' = block
      /\ UNCHANGED <<iftype, saved, caller, again>>
      /\ (ret >= 0 /\ at' = "ncd_link") \/ (ret < 0 /\ at' \in {"ncd_open", "closed"})
  <2>1. CASE ret >= 0 /\ Proceed("ncd_link") /\ UNCHANGED <<fds, setup>>
    BY <2>1, Going DEF OpenNcd, setup
  <2>2. CASE ret = Busy /\ Proceed("ncd_open") /\ UNCHANGED <<fds, iftype, saved, caller, again>>
    BY <2>2, Going DEF OpenNcd, Busy
  <2>3. CASE ret < 0 /\ Fail
    BY <1>1, <2>3, Failing DEF OpenNcd, setup
  <2>. QED BY <2>1, <2>2, <2>3 DEF OpenNcd
<1>3. SetUp'
  BY <1>2 DEF IosKept, SetUp, fds, loop
<1>. QED BY <1>1, <1>2, <1>3, Moves, Stationed DEF Layered, Holds, fds

LEMMA StepReadNcd ==
    ASSUME IosKept, ReadNcd
    PROVE  IosKept'
<1>1. /\ at \in {"ncd_link", "ncd_config", "ncd_read"} /\ ipc = "ret" /\ ~net_fd /\ ~udp_fd
      /\ \A k : Owes(k) <=> k = "ncd"
  <2>1. PICK op \in {"ncd_link", "ncd_config", "ncd_read"} : Done(op)
    BY DEF ReadNcd
  <2>2. at = op /\ ipc = "ret" /\ \A k : Owes(k) <=> Holds(k)
    BY <2>1, Returned, Tables
  <2>. QED BY <2>2 DEF IosKept, Layered, Holds
<1>2. /\ UNCHANGED <<wire, fds, loop>> /\ ipc' = "call" /\ ret' = 0 /\ block' = block
      /\ UNCHANGED <<saved, tries, caller, again>> /\ iftype' \in {iftype, iface, "unknown"}
      /\ at' \in {"ncd_giveup", "ncd_config", "ncd_read", "ncd_close"}
  BY Going DEF ReadNcd
<1>3. SetUp'
  BY <1>2 DEF IosKept, SetUp, ShapeOf, fds, loop
<1>. QED BY <1>1, <1>2, <1>3, Moves, Stationed DEF Layered, Holds, fds

LEMMA StepGiveUpNcd ==
    ASSUME IosKept, GiveUpNcd
    PROVE  IosKept'
<1>1. /\ at = "ncd_giveup" /\ ipc = "ret" /\ ~net_fd /\ ~udp_fd /\ \A k : ~Owes(k)
  BY Returned, Tables DEF GiveUpNcd, IosKept, Layered, Holds
<1>2. /\ UNCHANGED <<wire, fds, loop, setup>> /\ ipc' = "call" /\ ret' = 0 /\ block' = block
      /\ at' = "closed"
  BY <1>1, Failing DEF GiveUpNcd
<1>3. SetUp'
  BY <1>2 DEF IosKept, SetUp, fds, loop, setup
<1>. QED BY <1>1, <1>2, <1>3, Moves, Stationed DEF Layered, Holds, fds

LEMMA StepOpenIp ==
    ASSUME IosKept, OpenIp
    PROVE  IosKept'
<1>. /\ UNCHANGED <<wire, loop>> /\ ret \in Int
  BY DEF OpenIp, IosKept, ShapeOf, ETIMEDOUT, Busy, Refused
<1>1. CASE Done("ncd_close") /\ Proceed("ip_open") /\ UNCHANGED <<fds, setup>>
  <2>1. /\ at = "ncd_close" /\ ipc = "ret" /\ ~net_fd /\ ~udp_fd /\ \A k : ~Owes(k)
    BY <1>1, Returned, Tables DEF IosKept, Layered, Holds
  <2>2. ipc' = "call" /\ ret' = 0 /\ block' = block /\ at' = "ip_open"
    BY <1>1, Going
  <2>3. SetUp'
    BY <1>1 DEF IosKept, SetUp, fds, loop, setup
  <2>. QED BY <1>1, <2>1, <2>2, <2>3, Moves, Stationed DEF Layered, Holds, fds
<1>2. CASE /\ Done("ip_open") /\ net_fd' = (ret >= 0) /\ UNCHANGED udp_fd
           /\ Proceed(IF ret < 0 THEN "closed" ELSE "kd_open") /\ UNCHANGED setup
  <2>1. /\ at = "ip_open" /\ ipc = "ret" /\ ~net_fd /\ ~udp_fd
        /\ \A k : Owes(k) <=> ret >= 0 /\ k = "ip"
    BY <1>2, Returned, Tables DEF IosKept, Layered, Holds
  <2>2. /\ ipc' = "call" /\ ret' = 0 /\ block' = block
        /\ at' = IF ret < 0 THEN "closed" ELSE "kd_open"
    BY <1>2, Going
  <2>3. SetUp'
    BY <1>2 DEF IosKept, SetUp, loop, setup
  <2>4. /\ ~udp_fd' /\ (net_fd' <=> ret >= 0) /\ (net_fd' => at' = "kd_open")
        /\ (~net_fd' => at' = "closed")
    <3>1. net_fd' <=> ret >= 0
      BY <1>2, Zenon
    <3>2. ~udp_fd'
      BY <1>2, <2>1
    <3>. QED BY <2>2, <3>1, <3>2
  <2>. QED BY <2>1, <2>2, <2>3, <2>4, Moves, Stationed DEF Layered, Holds
<1>. QED BY <1>1, <1>2 DEF OpenIp

LEMMA StepStartUp ==
    ASSUME IosKept, StartUp
    PROVE  IosKept'
<1>. UNCHANGED <<wire, loop, fds>> /\ UNCHANGED <<iftype, caller, again>>
  BY Failing DEF StartUp, setup
<1>1. /\ ret \in Int
      /\ at \in {"kd_open", "kd_ioctl", "kd_close", "startup"} /\ ipc = "ret" /\ net_fd /\ ~udp_fd
      /\ \A k : Owes(k) <=> \/ k = "ip"
                            \/ k = "kd" /\ (at = "kd_ioctl" \/ (at = "kd_open" /\ ret >= 0))
  <2>1. PICK op \in {"kd_open", "kd_ioctl", "kd_close", "startup"} : Done(op)
    BY DEF StartUp
  <2>2. at = op /\ ipc = "ret" /\ net_fd /\ ~udp_fd
    BY <2>1, Returned DEF IosKept, Layered
  <2>3. \A k : Owes(k) <=> \/ k = "ip"
                           \/ k = "kd" /\ (at = "kd_ioctl" \/ (at = "kd_open" /\ ret >= 0))
    BY <2>1, <2>2, Returned, Tables DEF Holds
  <2>. QED BY <2>2, <2>3 DEF IosKept, ShapeOf, ETIMEDOUT, Busy, Refused
<1>2. /\ ipc' = "call" /\ ret' = 0 /\ block' = block
      /\ \/ at = "kd_open" /\ ret >= 0 /\ at' = "kd_ioctl"
         \/ at = "kd_open" /\ ret < 0 /\ at' = "ip_close"
         \/ at = "kd_ioctl" /\ at' = "kd_close"
         \/ at \in {"kd_close", "startup"} /\ at' \in {"startup", "getip", "ip_close"}
  BY <1>1, Going, Failing DEF StartUp, Done
<1>3. SetUp'
  BY DEF IosKept, SetUp, fds, loop
<1>4. \A k \in FileKinds : Holds(k)' <=> Owes(k)
  BY <1>1, <1>2 DEF Holds, fds
<1>5. Layered'
  BY <1>1, <1>2 DEF Layered, fds
<1>. QED BY <1>1, <1>2, <1>3, <1>4, <1>5, Moves, Stationed

LEMMA StepPollLocalIp ==
    ASSUME IosKept, PollLocalIp
    PROVE  IosKept'
<1>1. at = "getip" /\ ipc = "ret" /\ net_fd /\ ~udp_fd /\ \A k : Owes(k) <=> k = "ip"
  BY Returned, Tables DEF PollLocalIp, IosKept, Layered, Holds
<1>2. /\ UNCHANGED <<wire, fds, loop>> /\ UNCHANGED <<iftype, caller, again>>
      /\ ipc' = "call" /\ ret' = 0 /\ block' = block
      /\ at' \in {"wifi_open", "getip", "ip_close"}
  BY <1>1, Going, Failing DEF PollLocalIp, setup
<1>3. SetUp'
  BY <1>2 DEF IosKept, SetUp, fds, loop
<1>. QED BY <1>1, <1>2, <1>3, Moves, Stationed DEF Layered, Holds, fds

LEMMA StepProbeMacs ==
    ASSUME IosKept, ProbeMacs
    PROVE  IosKept'
<1>1. /\ at \in {"wifi_open", "wifi_mac", "wifi_close", "if_link", "if_mac"} /\ ipc = "ret"
      /\ net_fd /\ ~udp_fd /\ ret \in Int
      /\ \A k : Owes(k) <=> \/ k = "ip"
                            \/ k = "ncd" /\ (at = "wifi_mac" \/ (at = "wifi_open" /\ ret >= 0))
  <2>1. PICK op \in {"wifi_open", "wifi_mac", "wifi_close", "if_link", "if_mac"} : Done(op)
    BY DEF ProbeMacs
  <2>2. at = op /\ ipc = "ret" /\ net_fd /\ ~udp_fd
    BY <2>1, Returned DEF IosKept, Layered
  <2>3. \A k : Owes(k) <=> \/ k = "ip"
                           \/ k = "ncd" /\ (at = "wifi_mac" \/ (at = "wifi_open" /\ ret >= 0))
    BY <2>1, <2>2, Returned, Tables DEF Holds
  <2>. QED BY <2>2, <2>3 DEF IosKept, ShapeOf, ETIMEDOUT, Busy, Refused
<1>2. /\ UNCHANGED <<wire, fds, loop, setup>> /\ ipc' = "call" /\ ret' = 0 /\ block' = block
      /\ \/ at = "wifi_open" /\ ret >= 0 /\ at' = "wifi_mac"
         \/ at = "wifi_open" /\ ret < 0 /\ at' = "if_link"
         \/ at = "wifi_mac" /\ at' = "wifi_close"
         \/ at \in {"wifi_close", "if_link", "if_mac"} /\ at' \in {"if_link", "if_mac", "socket"}
  BY <1>1, Going DEF ProbeMacs, Done
<1>3. SetUp'
  BY <1>2 DEF IosKept, SetUp, fds, loop, setup
<1>4. \A k \in FileKinds : Holds(k)' <=> Owes(k)
  BY <1>1, <1>2 DEF Holds, fds
<1>5. Layered'
  BY <1>1, <1>2 DEF Layered, fds
<1>. QED BY <1>1, <1>2, <1>3, <1>4, <1>5, Moves, Stationed

LEMMA StepMakeSocket ==
    ASSUME IosKept, MakeSocket
    PROVE  IosKept'
<1>1. /\ at = "socket" /\ ipc = "ret" /\ net_fd /\ ~udp_fd /\ ret \in Int
      /\ \A k : Owes(k) <=> k = "ip" \/ (k = "sock" /\ ret >= 0)
  BY Returned, Tables DEF MakeSocket, IosKept, Layered, Holds, ShapeOf, ETIMEDOUT, Busy, Refused
<1>2. /\ UNCHANGED <<wire, loop, setup>> /\ ipc' = "call" /\ ret' = 0 /\ block' = block
      /\ at' = IF ret >= 0 THEN "bind" ELSE "ip_close"
  BY <1>1, Going DEF MakeSocket
<1>3. (udp_fd' <=> ret >= 0) /\ (net_fd' <=> net_fd)
  <2>1. udp_fd' = (ret >= 0) /\ net_fd' = net_fd
    BY DEF MakeSocket
  <2>. QED BY <2>1, Zenon
<1>4. SetUp'
  BY <1>1, <1>2, <1>3 DEF IosKept, SetUp, loop, setup, MakeSocket
<1>. QED BY <1>1, <1>2, <1>3, <1>4, Moves, Stationed DEF Layered, Holds

LEMMA StepBind ==
    ASSUME IosKept, Bind
    PROVE  IosKept'
<1>1. /\ at = "bind" /\ ipc = "ret" /\ net_fd /\ udp_fd
      /\ \A k : Owes(k) <=> k \in {"ip", "sock"}
  BY Returned, Tables DEF Bind, IosKept, Layered, Holds
<1>2. /\ UNCHANGED <<wire, fds, setup>> /\ UNCHANGED <<last_link, settling, nested>>
      /\ ipc' = "call" /\ ret' = 0 /\ block' = block
      /\ at' \in {"sock_close", "top", "lease?"} /\ watched' \in {watched, iftype}
      /\ settle' \in {settle, settle \/ caller = "edge"}
  <2>1. CASE ret < 0 /\ Fail /\ UNCHANGED loop
    BY <1>1, <2>1, Failing DEF Bind, loop
  <2>2. CASE /\ ret >= 0 /\ watched' = iftype /\ Resume
             /\ UNCHANGED <<fds, setup, last_link, settling, nested>>
    BY <1>1, <2>2, Going DEF Bind, Resume
  <2>. QED BY <2>1, <2>2 DEF Bind
<1>3. SetUp'
  BY <1>2 DEF IosKept, SetUp, fds, setup
<1>. QED BY <1>1, <1>2, <1>3, Moves, Stationed DEF Layered, Holds, fds

LEMMA StepClose ==
    ASSUME IosKept, Close
    PROVE  IosKept'
<1>. UNCHANGED <<wire, loop, setup>>
  BY DEF Close
<1>1. CASE /\ Done("sock_close") /\ udp_fd' = FALSE /\ UNCHANGED net_fd
           /\ Proceed(IF net_fd THEN "ip_close" ELSE "closed")
  <2>1. /\ at = "sock_close" /\ ipc = "ret" /\ net_fd /\ udp_fd /\ \A k : Owes(k) <=> k = "ip"
    BY <1>1, Returned, Tables DEF IosKept, Layered, Holds
  <2>2. ipc' = "call" /\ ret' = 0 /\ block' = block /\ at' = "ip_close"
    BY <1>1, <2>1, Going
  <2>3. SetUp'
    BY <1>1 DEF IosKept, SetUp, loop, setup
  <2>. QED BY <1>1, <2>1, <2>2, <2>3, Moves, Stationed DEF Layered, Holds
<1>2. CASE Done("ip_close") /\ net_fd' = FALSE /\ UNCHANGED udp_fd /\ Proceed("closed")
  <2>1. /\ at = "ip_close" /\ ipc = "ret" /\ net_fd /\ ~udp_fd /\ \A k : ~Owes(k)
    BY <1>2, Returned, Tables DEF IosKept, Layered, Holds
  <2>2. ipc' = "call" /\ ret' = 0 /\ block' = block /\ at' = "closed"
    BY <1>2, Going
  <2>3. SetUp'
    BY <1>2 DEF IosKept, SetUp, loop, setup
  <2>. QED BY <1>2, <2>1, <2>2, <2>3, Moves, Stationed DEF Layered, Holds
<1>. QED BY <1>1, <1>2 DEF Close

LEMMA StepClosed ==
    ASSUME IosKept, Closed
    PROVE  IosKept'
<1>1. at = "closed" /\ ~net_fd /\ ~udp_fd /\ ipc = "call" /\ \A k : ~Owes(k)
  BY Between DEF Closed, IosKept, Layered, Holds
<1>2. CASE StartInit /\ UNCHANGED loop
  <2>1. /\ UNCHANGED <<wire, fds, loop, caller>> /\ iftype' = "unknown" /\ again' = FALSE
        /\ ipc' = "call" /\ ret' = 0 /\ block' = block /\ at' = "ncd_open"
    BY <1>2, Going DEF StartInit, Closed
  <2>2. SetUp'
    BY <2>1 DEF IosKept, SetUp, fds, loop
  <2>. QED BY <1>1, <2>1, <2>2, Moves, Stationed DEF Layered, Holds, fds
<1>3. CASE Resume /\ UNCHANGED <<setup, watched, last_link, settling, nested>>
  <2>1. /\ UNCHANGED <<wire, fds, setup, watched, last_link, settling, nested>>
        /\ settle' \in {settle, settle \/ caller = "edge"}
        /\ ipc' = "call" /\ ret' = 0 /\ block' = block /\ at' \in {"top", "lease?"}
    BY <1>3, Going DEF Resume, Closed
  <2>2. SetUp'
    BY <2>1 DEF IosKept, SetUp, fds, setup
  <2>. QED BY <1>1, <2>1, <2>2, Moves, Stationed DEF Layered, Holds, fds
<1>. QED BY <1>2, <1>3 DEF Closed

\* The steps of the loops that leave the interfaces alone.
LEMMA Passes ==
    ASSUME IosKept, UNCHANGED <<wire, fds>>, ipc # "wait", ipc' = "call", ret' = 0, block' = block,
           \A k : Owes(k) <=> Holds(k), SetUp',
           at \in {"top", "keep", "lease?", "guest", "poll", "recv", "send", "link", "lease"},
           at' \in {"top", "keep", "lease?", "guest", "poll", "recv", "send", "link", "lease"}
    PROVE  IosKept'
<1>1. Layered'
  BY DEF IosKept, Layered, fds
<1>2. \A k \in FileKinds : Holds(k)' <=> Owes(k)
  BY DEF Holds, fds
<1>. QED BY <1>1, <1>2, Moves, Stationed

\* A request that neither opens nor closes has returned.
LEMMA AskedOnce ==
    ASSUME IosKept, NEW op \in {"poll", "recv", "send", "link", "lease"}, Done(op)
    PROVE  at = op /\ ipc = "ret" /\ \A k : Owes(k) <=> Holds(k)
BY Returned, Tables

LEMMA StepSettled ==
    ASSUME IosKept, Settled
    PROVE  IosKept'
<1>1. /\ UNCHANGED <<at, ipc, ret, block, fds, setup, req, val, sent, taken, reply, iface, files>>
      /\ (odd' <=> odd) /\ (own' <=> own) /\ UNCHANGED <<watched, last_link, settling, nested>>
      /\ settle' = FALSE
  BY Zenon DEF Settled, call, wire, buffers, mail, world, counts, history
<1>2. ShapeOf' /\ SetUp' /\ Layered'
  <2>1. ShapeOf'
    BY <1>1 DEF IosKept, ShapeOf
  <2>2. SetUp'
    BY <1>1 DEF IosKept, SetUp, fds, setup
  <2>3. Layered'
    BY <1>1 DEF IosKept, Layered, fds
  <2>. QED BY <2>1, <2>2, <2>3
<1>3. ASSUME Single /\ Accounts PROVE Single' /\ Accounts'
  BY <1>1, <1>3 DEF Single, Accounts, Owes, Holds, Opened, Shut, Answered, Result, fds
<1>. QED BY <1>1, <1>2, <1>3 DEF IosKept

LEMMA StepPass ==
    ASSUME IosKept, Pass
    PROVE  IosKept'
<1>1. at = "top" /\ ipc = "call" /\ \A k : Owes(k) <=> Holds(k)
  BY Between DEF Pass
<1>2. /\ UNCHANGED <<wire, fds, setup, watched, last_link, settle, nested>>
      /\ ipc' = "call" /\ ret' = 0 /\ block' = block /\ at' \in {"poll", "keep"}
      /\ settling' = (~nested /\ settle)
  BY Going DEF Pass
<1>3. SetUp'
  BY <1>2 DEF IosKept, SetUp, fds, setup
<1>. QED BY <1>1, <1>2, <1>3, Passes

LEMMA StepPollRecv ==
    ASSUME IosKept, PollRecv
    PROVE  IosKept'
<1>1. at = "poll" /\ ipc = "ret" /\ \A k : Owes(k) <=> Holds(k)
  BY AskedOnce DEF PollRecv
<1>2. /\ UNCHANGED <<wire, fds, setup, loop>>
      /\ ipc' = "call" /\ ret' = 0 /\ block' = block /\ at' \in {"recv", "keep"}
  BY Going DEF PollRecv
<1>3. SetUp'
  BY <1>2 DEF IosKept, SetUp, fds, setup, loop
<1>. QED BY <1>1, <1>2, <1>3, Passes

LEMMA StepHandle ==
    ASSUME IosKept, Handle
    PROVE  IosKept'
<1>1. at = "recv" /\ ipc = "ret" /\ \A k : Owes(k) <=> Holds(k)
  BY AskedOnce DEF Handle
<1>2. /\ UNCHANGED <<wire, fds, setup, watched, last_link, settle, settling>>
      /\ ipc' = "call" /\ ret' = 0 /\ block' = block /\ at' \in {"send", "guest", "keep"}
      /\ nested' \in {nested, TRUE}
  BY Going DEF Handle
<1>3. SetUp'
  BY <1>2 DEF IosKept, SetUp, fds, setup
<1>. QED BY <1>1, <1>2, <1>3, Passes

LEMMA StepGuest ==
    ASSUME IosKept, GuestSends \/ GuestEnds
    PROVE  IosKept'
<1>1. at = "guest" /\ ipc = "call" /\ \A k : Owes(k) <=> Holds(k)
  BY Between DEF GuestSends, GuestEnds
<1>2. /\ UNCHANGED <<wire, fds, setup, watched, last_link, settle, settling>>
      /\ ipc' = "call" /\ ret' = 0 /\ block' = block /\ at' \in {"send", "top", "keep"}
      /\ nested' \in {nested, FALSE}
  BY Going DEF GuestSends, GuestEnds, loop
<1>3. SetUp'
  BY <1>2 DEF IosKept, SetUp, fds, setup
<1>. QED BY <1>1, <1>2, <1>3, Passes

LEMMA StepSent ==
    ASSUME IosKept, Sent
    PROVE  IosKept'
<1>1. at = "send" /\ ipc = "ret" /\ \A k : Owes(k) <=> Holds(k)
  BY AskedOnce DEF Sent
<1>2. /\ UNCHANGED <<wire, fds, setup, loop>>
      /\ ipc' = "call" /\ ret' = 0 /\ block' = block /\ at' \in {"top", "keep"}
  BY Going DEF Sent
<1>3. SetUp'
  BY <1>2 DEF IosKept, SetUp, fds, setup, loop
<1>. QED BY <1>1, <1>2, <1>3, Passes

LEMMA StepKeep ==
    ASSUME IosKept, Keep
    PROVE  IosKept'
<1>1. at = "keep" /\ ipc = "call" /\ \A k : Owes(k) <=> Holds(k)
  BY Between DEF Keep
<1>2. /\ UNCHANGED <<wire, fds, setup, loop>>
      /\ ipc' = "call" /\ ret' = 0 /\ block' = block /\ at' \in {"top", "guest", "lease?", "link"}
  BY Going DEF Keep
<1>3. SetUp'
  BY <1>2 DEF IosKept, SetUp, fds, setup, loop
<1>. QED BY <1>1, <1>2, <1>3, Passes

LEMMA StepLease ==
    ASSUME IosKept, Lease
    PROVE  IosKept'
<1>1. /\ at \in {"lease?", "lease"} /\ ipc # "wait" /\ \A k : Owes(k) <=> Holds(k)
  <2>1. CASE at = "lease?"
    BY <2>1, Between
  <2>2. CASE Done("lease")
    BY <2>2, AskedOnce
  <2>. QED BY <2>1, <2>2 DEF Lease
<1>2. /\ UNCHANGED <<wire, fds, setup, loop>>
      /\ ipc' = "call" /\ ret' = 0 /\ block' = block /\ at' \in {"top", "lease"}
  BY Going DEF Lease
<1>3. SetUp'
  BY <1>2 DEF IosKept, SetUp, fds, setup, loop
<1>. QED BY <1>1, <1>2, <1>3, Passes

LEMMA StepPollLink ==
    ASSUME IosKept, PollLink
    PROVE  IosKept'
<1>1. /\ at \in {"link", "keep"} /\ ipc # "wait" /\ \A k : Owes(k) <=> Holds(k)
  <2>1. CASE at = "keep"
    BY <2>1, Between
  <2>2. CASE Done("link")
    BY <2>2, AskedOnce
  <2>. QED BY <2>1, <2>2 DEF PollLink
<1>2. PICK x \in {-1, 0, 1} : LinkChange(x)
  BY DEF PollLink, IosKept, ShapeOf
<1>3. /\ UNCHANGED <<wire, fds, watched, settle, settling, nested, iftype>>
      /\ last_link' \in {last_link, x} /\ caller' \in {caller, "edge", "link"}
      /\ again' \in {again, TRUE}
      /\ ipc' = "call" /\ ret' = 0 /\ block' = block
      /\ at' = "lease?" \/ at' = IF udp_fd THEN "sock_close" ELSE IF net_fd THEN "ip_close" ELSE "closed"
  BY <1>2, Going, Shutting DEF PollLink, LinkChange, setup
<1>4. SetUp'
  BY <1>3 DEF IosKept, SetUp, fds
<1>5. (udp_fd => net_fd) /\ UNCHANGED <<net_fd, udp_fd>>
  BY <1>3 DEF IosKept, Layered, fds
<1>6. \A k \in FileKinds : Holds(k)' <=> Owes(k)
  BY <1>1, <1>3, <1>5 DEF Holds
<1>7. Layered'
  BY <1>3, <1>5 DEF Layered
<1>. QED BY <1>1, <1>3, <1>4, <1>6, <1>7, Moves, Stationed

-----------------------------------------------------------------------------
(* The request, and IOS.                                                   *)

LEMMA StepSend ==
    ASSUME IosKept, Send
    PROVE  IosKept'
<1>1. /\ at \in Requests /\ ipc = "call" /\ ipc' = "wait" /\ (block' <=> Blocking(at))
      /\ block' \in BOOLEAN /\ req' = [n |-> Unused, op |-> at, res |-> 0] /\ val' \in {0, val}
      /\ sent' = TRUE
      /\ UNCHANGED <<at, ret, taken, reply, fds, setup, loop, world, counts>>
      /\ (odd' <=> odd) /\ (own' <=> own)
  <2>1. /\ at \in Requests /\ ipc = "call" /\ ipc' = "wait"
        /\ req' = [n |-> Unused, op |-> at, res |-> 0] /\ val' \in {0, val}
        /\ sent' = TRUE
        /\ UNCHANGED <<at, ret, taken, reply, fds, setup, loop, world, counts>>
    BY DEF Send
  <2>2. (block' <=> Blocking(at)) /\ block' \in BOOLEAN
    <3>1. block' = Blocking(at)
      BY DEF Send
    <3>2. Blocking(at) \in BOOLEAN
      BY DEF Blocking
    <3>. QED BY <3>1, <3>2, Zenon
  <2>3. (odd' <=> odd) /\ (own' <=> own)
    BY Zenon DEF Send, history
  <2>. QED BY <2>1, <2>2, <2>3
<1>2. Unused \in Nat \ {0}
  BY UnusedNumber DEF IosKept, ShapeOf
<1>3. ShapeOf'
  BY <1>1, <1>2 DEF IosKept, ShapeOf, world
<1>4. SetUp' /\ Layered'
  BY <1>1 DEF IosKept, SetUp, Layered, fds, setup, loop
<1>5. ASSUME ~odd PROVE own' /\ Single' /\ Accounts'
  <2>1. own /\ ~sent /\ taken = {} /\ reply = 0 /\ Accounts
    BY <1>1, <1>5 DEF IosKept, Single
  <2>2. Single'
    BY <1>1, <1>2, <2>1 DEF Single, Blocking
  <2>3. \A k : Owes(k)' <=> Owes(k)
    BY <1>1, <2>1 DEF Owes, Opened, Shut, Answered, Holds, fds
  <2>4. files' = files
    BY <1>1 DEF world
  <2>. QED BY <1>1, <2>1, <2>2, <2>3, <2>4 DEF Accounts
<1>. QED BY <1>1, <1>3, <1>4, <1>5 DEF IosKept

LEMMA StepReceive ==
    ASSUME IosKept, Receive
    PROVE  IosKept'
<1>1. /\ ipc = "wait" /\ reply # 0 /\ ipc' = "ret" /\ ret' = req.res /\ block' = FALSE
      /\ reply' = 0
      /\ UNCHANGED <<at, req, val, sent, taken, fds, setup, loop, iface, files>>
      /\ (odd' <=> odd) /\ (own' <=> own /\ reply = req.n)
  <2>1. (odd' <=> odd) /\ (own' <=> own /\ reply = req.n)
    BY Zenon DEF Receive
  <2>. QED BY <2>1 DEF Receive, buffers, world
<1>2. ShapeOf'
  BY <1>1 DEF IosKept, ShapeOf
<1>3. SetUp' /\ Layered'
  BY <1>1 DEF IosKept, SetUp, Layered, fds, setup, loop
<1>4. ASSUME ~odd PROVE own' /\ Single' /\ Accounts'
  <2>1. own /\ ~sent /\ taken = {} /\ reply = req.n /\ Accounts
    BY <1>1, <1>4 DEF IosKept, Single
  <2>2. Single'
    BY <1>1, <2>1 DEF Single
  <2>3. \A k : Owes(k)' <=> Owes(k)
    BY <1>1 DEF Owes, Opened, Shut, Answered, Result, Holds, fds
  <2>. QED BY <1>1, <2>1, <2>2, <2>3 DEF Accounts
<1>. QED BY <1>1, <1>2, <1>3, <1>4 DEF IosKept

\* ipc_block: what has a time-out is neither sendto nor recvfrom.
LEMMA StepAbandon ==
    ASSUME IosKept, Abandon
    PROVE  IosKept'
<1>1. /\ ipc = "wait" /\ ~block /\ ipc' = "ret" /\ ret' = ETIMEDOUT
      /\ UNCHANGED <<at, block, req, val, sent, taken, reply, fds, setup, loop, iface>>
  BY DEF Abandon, buffers, mail, world
<1>2. odd' <=> odd \/ at \notin {"recv", "send"}
  BY Zenon DEF Abandon
<1>3. odd'
  BY <1>1, <1>2 DEF IosKept, Single, Blocking
<1>4. ShapeOf'
  BY <1>1 DEF IosKept, ShapeOf
<1>5. SetUp' /\ Layered'
  BY <1>1 DEF IosKept, SetUp, Layered, fds, setup, loop
<1>. QED BY <1>3, <1>4, <1>5 DEF IosKept

LEMMA StepIosTakes ==
    ASSUME IosKept, IosTakes
    PROVE  IosKept'
<1>. DEFINE r == [n |-> req.n, op |-> req.op]
<1>1. /\ sent /\ sent' = FALSE /\ taken' = taken \cup {r}
      /\ UNCHANGED <<at, ipc, ret, block, req, val, reply, fds, setup, loop, iface, files>>
      /\ (odd' <=> odd) /\ (own' <=> own)
  <2>1. (odd' <=> odd) /\ (own' <=> own)
    BY Zenon DEF IosTakes, history
  <2>. QED BY <2>1 DEF IosTakes, call, buffers, world
<1>2. r \in [n : Nat, op : Requests]
  BY <1>1 DEF IosKept, ShapeOf
<1>3. IsFiniteSet(taken')
  <2>. HIDE DEF r
  <2>. QED BY <1>1, FS_AddElement DEF IosKept, ShapeOf
<1>4. ShapeOf'
  <2>. HIDE DEF r
  <2>. QED BY <1>1, <1>2, <1>3 DEF IosKept, ShapeOf
<1>5. SetUp' /\ Layered'
  BY <1>1 DEF IosKept, SetUp, Layered, fds, setup, loop
<1>6. ASSUME ~odd PROVE own' /\ Single' /\ Accounts'
  <2>1. own /\ ipc = "wait" /\ taken = {} /\ reply = 0 /\ Accounts /\ Single
    BY <1>1, <1>6 DEF IosKept, Single
  <2>2. Single'
    BY <1>1, <2>1 DEF Single
  <2>3. \A k : Owes(k)' <=> Owes(k)
    BY <1>1 DEF Owes, Opened, Shut, Answered, Result, Holds, fds
  <2>. QED BY <1>1, <2>1, <2>2, <2>3 DEF Accounts
<1>. QED BY <1>1, <1>4, <1>5, <1>6 DEF IosKept

LEMMA StepArrivePlug ==
    ASSUME IosKept, Datagram \/ Plug
    PROVE  IosKept'
<1>1. /\ UNCHANGED <<at, ipc, ret, block, req, val, sent, taken, reply, fds, setup, loop, iface, files>>
      /\ (odd' <=> odd) /\ (own' <=> own)
  <2>1. (odd' <=> odd) /\ (own' <=> own)
    <3>1. odd' = odd /\ own' = own
      BY DEF Datagram, Plug, history
    <3>. QED BY <3>1, Zenon
  <2>. QED BY <2>1 DEF Datagram, Plug, call, buffers, mail
<1>2. ShapeOf'
  BY <1>1 DEF IosKept, ShapeOf
<1>3. SetUp' /\ Layered'
  BY <1>1 DEF IosKept, SetUp, Layered, fds, setup, loop
<1>4. ASSUME Single /\ Accounts PROVE Single' /\ Accounts'
  BY <1>1, <1>4 DEF Single, Accounts, Owes, Holds, Opened, Shut, Answered, Result, fds
<1>. QED BY <1>1, <1>2, <1>3, <1>4 DEF IosKept

\* IOS has finished a request.
LEMMA Posted ==
    ASSUME IosKept, NEW r \in taken, NEW x \in {Busy, Refused, 0, 1}, NEW v \in {0, 1},
           Posts(r, x, v), reply = 0
    PROVE  /\ ShapeOf' /\ SetUp' /\ Layered' /\ (odd' <=> odd)
           /\ at' = at /\ ipc' = ipc /\ UNCHANGED fds
           /\ ~odd => /\ own' /\ Single' /\ ipc = "wait" /\ r.op = at /\ req'.res = x
                      /\ \A k : Owes(k) <=> Holds(k)
                      /\ \A k : Owes(k)' <=>
                            \/ x >= 0 /\ at \in DOMAIN Opens /\ Opens[at] = k
                            \/ Holds(k) /\ ~(at \in DOMAIN Closes /\ Closes[at] = k)
<1>1. /\ taken' = taken \ {r} /\ reply' = r.n /\ req' = [req EXCEPT !.res = x] /\ val' = v
      /\ UNCHANGED <<at, ipc, ret, block, sent, fds, setup, loop, iface>>
      /\ (odd' <=> odd) /\ (own' <=> own)
  <2>1. (odd' <=> odd) /\ (own' <=> own)
    BY Zenon DEF Posts, history
  <2>. QED BY <2>1 DEF Posts, call
<1>2. r \in [n : Nat, op : Requests]
  BY DEF IosKept, ShapeOf
<1>3. req' \in [n : Nat, op : Requests \cup {"none"}, res : {Busy, Refused, 0, 1}]
      /\ req'.n = req.n /\ req'.op = req.op /\ req'.res = x
  BY <1>1 DEF IosKept, ShapeOf
<1>4. IsFiniteSet(taken')
  BY <1>1, FS_Subset DEF IosKept, ShapeOf
<1>5. ShapeOf'
  BY <1>1, <1>2, <1>3, <1>4 DEF IosKept, ShapeOf
<1>6. SetUp' /\ Layered'
  BY <1>1 DEF IosKept, SetUp, Layered, fds, setup, loop
<1>7. ASSUME ~odd
      PROVE  /\ own' /\ Single' /\ ipc = "wait" /\ r.op = at
             /\ \A k : Owes(k) <=> Holds(k)
             /\ \A k : Owes(k)' <=>
                   \/ x >= 0 /\ at \in DOMAIN Opens /\ Opens[at] = k
                   \/ Holds(k) /\ ~(at \in DOMAIN Closes /\ Closes[at] = k)
  <2>1. /\ own /\ Single /\ ipc = "wait" /\ ~sent /\ taken = {r} /\ r.n = req.n /\ r.op = req.op
        /\ req.op = at /\ req.n # 0 /\ r.op = at
    BY <1>7 DEF IosKept, Single
  <2>2. Single'
    BY <1>1, <1>3, <2>1 DEF Single
  <2>3. \A k : Owes(k) <=> Holds(k)
    BY <2>1 DEF Owes, Opened, Shut, Answered
  <2>4. Answered' /\ Result' = x
    BY <1>1, <1>3, <2>1 DEF Answered, Result
  <2>5. \A k : Holds(k)' <=> Holds(k)
    BY <1>1 DEF Holds, fds
  <2>6. \A k : Owes(k)' <=>
           \/ x >= 0 /\ at \in DOMAIN Opens /\ Opens[at] = k
           \/ Holds(k) /\ ~(at \in DOMAIN Closes /\ Closes[at] = k)
    BY <1>1, <2>4, <2>5 DEF Owes, Opened, Shut
  <2>. QED BY <1>1, <2>1, <2>2, <2>3, <2>6
<1>. QED BY <1>1, <1>3, <1>5, <1>6, <1>7

LEMMA StepIosReplies ==
    ASSUME IosKept, NEW r \in taken, IosReplies(r)
    PROVE  IosKept'
<1>. DEFINE x == CASE r.op \in DOMAIN Opens \cup {"recv", "send"} -> 1
                   [] r.op = "getip" -> Bit(cable)
                   [] OTHER -> 0
            v == CASE r.op = "poll" -> Bit(inbox > 0)
                   [] r.op \in {"link", "if_link"} -> Bit(cable)
                   [] r.op \in {"lease", "if_mac"} -> 1
                   [] OTHER -> val
<1>1. reply = 0 /\ Posts(r, x, v)
  BY DEF IosReplies
<1>2. x \in {0, 1} /\ v \in {0, 1} /\ (r.op \in DOMAIN Opens => x = 1)
  <2>1. Bit(cable) \in {0, 1} /\ Bit(inbox > 0) \in {0, 1} /\ val \in {0, 1}
    BY DEF Bit, IosKept, ShapeOf
  <2>2. r.op \in DOMAIN Opens => r.op # "getip"
    BY Tables
  <2>. QED BY <2>1, <2>2
<1>3. files' = CASE r.op \in DOMAIN Opens -> [files EXCEPT ![Opens[r.op]] = @ + 1]
                 [] r.op \in DOMAIN Closes -> [files EXCEPT ![Closes[r.op]] = Max({@ - 1, 0})]
                 [] OTHER -> files
  BY DEF IosReplies
<1>. HIDE DEF x, v
<1>4. /\ ShapeOf' /\ SetUp' /\ Layered' /\ (odd' <=> odd)
      /\ ~odd => /\ own' /\ Single' /\ r.op = at /\ (\A k : Owes(k) <=> Holds(k))
                 /\ \A k : Owes(k)' <=>
                       \/ x >= 0 /\ at \in DOMAIN Opens /\ Opens[at] = k
                       \/ Holds(k) /\ ~(at \in DOMAIN Closes /\ Closes[at] = k)
  BY <1>1, <1>2, Posted
<1>5. ASSUME ~odd PROVE Accounts'
  <2>1. /\ files \in [FileKinds -> {0, 1}] /\ (\A k \in FileKinds : files[k] = 1 <=> Holds(k)) /\ Layered
    BY <1>4, <1>5 DEF IosKept, Accounts
  <2>2. /\ r.op = at
        /\ \A k : Owes(k)' <=> \/ at \in DOMAIN Opens /\ Opens[at] = k
                               \/ Holds(k) /\ ~(at \in DOMAIN Closes /\ Closes[at] = k)
    BY <1>2, <1>4, <1>5
  <2>3. CASE at \in DOMAIN Opens
    <3>1. Opens[at] \in FileKinds /\ ~Holds(Opens[at])
      BY <2>1, <2>3, Tables DEF FileKinds, Holds, Layered
    <3>. DEFINE o == Opens[at]
    <3>2. files' = [files EXCEPT ![o] = files[o] + 1]
      <4>1. files' = [files EXCEPT ![Opens[r.op]] = files[Opens[r.op]] + 1]
        BY <1>3, <2>2, <2>3, Tables
      <4>. QED BY <2>2, <4>1
    <3>3. at \notin DOMAIN Closes
      BY <2>3, Tables
    <3>. HIDE DEF o
    <3>4. files[o] = 0 /\ o \in FileKinds
      BY <2>1, <3>1 DEF o
    <3>5. files' \in [FileKinds -> {0, 1}] /\ \A k \in FileKinds : files'[k] = IF k = o THEN 1 ELSE files[k]
      BY <2>1, <3>2, <3>4
    <3>. QED BY <2>1, <2>2, <2>3, <3>3, <3>5 DEF Accounts, o
  <2>4. CASE at \in DOMAIN Closes
    <3>1. Closes[at] \in FileKinds /\ at \notin DOMAIN Opens
      BY <2>4, Tables DEF FileKinds
    <3>. DEFINE c == Closes[at]
    <3>2. files' = [files EXCEPT ![c] = Max({files[c] - 1, 0})]
      BY <1>3, <2>2, <2>4, <3>1
    <3>. HIDE DEF c
    <3>3. Max({files[c] - 1, 0}) = 0
      <4>1. files[c] \in {0, 1}
        BY <2>1, <3>1 DEF c
      <4>. QED BY <4>1, MaxZero
    <3>4. files' \in [FileKinds -> {0, 1}] /\ \A k \in FileKinds : files'[k] = IF k = c THEN 0 ELSE files[k]
      BY <2>1, <3>2, <3>3
    <3>. QED BY <2>1, <2>2, <2>4, <3>1, <3>4 DEF Accounts, c
  <2>5. CASE at \notin DOMAIN Opens \cup DOMAIN Closes
    <3>1. files' = files
      BY <1>3, <2>2, <2>5
    <3>. QED BY <2>1, <2>2, <2>5, <3>1 DEF Accounts
  <2>. QED BY <2>3, <2>4, <2>5
<1>. QED BY <1>4, <1>5 DEF IosKept

LEMMA StepIosRefuses ==
    ASSUME IosKept, NEW r \in taken, IosRefuses(r)
    PROVE  IosKept'
<1>1. PICK x \in {Refused, Busy} : Posts(r, x, val)
  BY DEF IosRefuses
<1>2. reply = 0 /\ r.op \notin DOMAIN Closes /\ files' = files
  BY DEF IosRefuses
<1>3. val \in {0, 1} /\ x \in {Busy, Refused, 0, 1} /\ ~(x >= 0)
  BY DEF IosKept, ShapeOf, Refused, Busy
<1>4. /\ ShapeOf' /\ SetUp' /\ Layered' /\ (odd' <=> odd)
      /\ ~odd => /\ own' /\ Single' /\ r.op = at /\ (\A k : Owes(k) <=> Holds(k))
                 /\ \A k : Owes(k)' <=>
                       \/ x >= 0 /\ at \in DOMAIN Opens /\ Opens[at] = k
                       \/ Holds(k) /\ ~(at \in DOMAIN Closes /\ Closes[at] = k)
  BY <1>1, <1>2, <1>3, Posted
<1>5. ASSUME ~odd PROVE Accounts'
  <2>1. \A k : Owes(k)' <=> Owes(k)
    BY <1>2, <1>3, <1>4, <1>5
  <2>. QED BY <1>2, <1>5, <2>1 DEF IosKept, Accounts
<1>. QED BY <1>4, <1>5 DEF IosKept

-----------------------------------------------------------------------------
(* The theorem.                                                            *)

LEMMA InitIos == IosInit => IosKept
<1>. SUFFICES ASSUME IosInit PROVE IosKept
  OBVIOUS
<1>1. ShapeOf
  BY FS_EmptySet, Stationed DEF IosInit, ShapeOf
<1>2. SetUp /\ Layered
  BY DEF IosInit, SetUp, Layered
<1>3. Single /\ own
  BY DEF IosInit, Single
<1>4. Accounts
  BY DEF IosInit, Accounts, Owes, Opened, Shut, Answered, Holds
<1>. QED BY <1>1, <1>2, <1>3, <1>4 DEF IosKept

LEMMA NextIos == IosKept /\ [IosNext]_iosVars => IosKept'
<1>. SUFFICES ASSUME IosKept, [IosNext]_iosVars PROVE IosKept'
  OBVIOUS
<1>1. CASE Ipc
  BY <1>1, StepSend, StepReceive, StepAbandon DEF Ipc
<1>2. CASE Bringup
  BY <1>2, StepOpenNcd, StepReadNcd, StepGiveUpNcd, StepOpenIp, StepStartUp, StepPollLocalIp,
     StepProbeMacs, StepMakeSocket, StepBind, StepClose, StepClosed DEF Bringup
<1>3. CASE Loop
  BY <1>3, StepPass, StepPollRecv, StepHandle, StepSent, StepKeep, StepPollLink, StepLease DEF Loop
<1>4. CASE Ios
  BY <1>4, StepIosTakes, StepIosReplies, StepIosRefuses DEF Ios
<1>5. CASE Settled \/ GuestSends \/ GuestEnds \/ Datagram \/ Plug
  BY <1>5, StepSettled, StepGuest, StepArrivePlug
<1>6. CASE UNCHANGED iosVars
  <2>1. UNCHANGED <<call, buffers, mail, fds, setup, loop, world, history>>
    BY <1>6 DEF iosVars
  <2>2. /\ UNCHANGED <<at, ipc, ret, block, req, val, sent, taken, reply, fds, setup, loop, iface, files>>
        /\ (odd' <=> odd) /\ (own' <=> own)
    <3>1. (odd' <=> odd) /\ (own' <=> own)
      BY <2>1, Zenon DEF history
    <3>. QED BY <2>1, <3>1 DEF call, buffers, mail, world
  <2>3. ShapeOf'
    BY <2>2 DEF IosKept, ShapeOf
  <2>4. SetUp' /\ Layered'
    BY <2>2 DEF IosKept, SetUp, Layered, fds, setup, loop
  <2>5. ASSUME Single /\ Accounts PROVE Single' /\ Accounts'
    BY <2>2, <2>5 DEF Single, Accounts, Owes, Holds, Opened, Shut, Answered, Result, fds
  <2>. QED BY <2>2, <2>3, <2>4, <2>5 DEF IosKept
<1>. QED BY <1>1, <1>2, <1>3, <1>4, <1>5, <1>6 DEF IosNext, Loader

LEMMA KeptInv == IosKept => IosInv
<1>. SUFFICES ASSUME IosKept PROVE IosInv
  OBVIOUS
<1>1. IosTypeOK
  BY DEF IosKept, ShapeOf, SetUp, IosTypeOK, Stations
<1>2. OwnAnswers
  BY DEF IosKept, OwnAnswers
<1>3. FilesAccount
  <2>. SUFFICES ASSUME ~odd, at \in {"top", "keep", "lease?", "guest"}
                PROVE  /\ udp_fd => net_fd
                       /\ files = [ncd |-> 0, kd |-> 0, ip |-> Bit(net_fd), sock |-> Bit(udp_fd)]
    BY DEF FilesAccount
  <2>1. files \in [FileKinds -> {0, 1}] /\ \A k \in FileKinds : files[k] = 1 <=> Holds(k)
    BY Between DEF IosKept, Accounts
  <2>2. udp_fd => net_fd
    BY DEF IosKept, Layered
  <2>3. files["ncd"] = 0 /\ files["kd"] = 0 /\ files["ip"] = Bit(net_fd) /\ files["sock"] = Bit(udp_fd)
    BY <2>1 DEF Holds, FileKinds, Bit
  <2>. DEFINE g == [ncd |-> 0, kd |-> 0, ip |-> Bit(net_fd), sock |-> Bit(udp_fd)]
  <2>4. files = [k \in FileKinds |-> files[k]]
    BY <2>1
  <2>5. g = [k \in FileKinds |-> g[k]]
    BY DEF FileKinds
  <2>6. \A k \in FileKinds : files[k] = g[k]
    BY <2>3 DEF FileKinds
  <2>7. files = g
    <3>. HIDE DEF g
    <3>. QED BY <2>4, <2>5, <2>6
  <2>. QED BY <2>2, <2>7
<1>. QED BY <1>1, <1>2, <1>3 DEF IosInv

(***************************************************************************)
(* Whatever IOS refuses, however late it answers and whenever the cable is *)
(* pulled, until a request is given up that IOS still holds: the replies   *)
(* ipc_sync takes are those of its own requests, though all go through one *)
(* buffer, and whenever the loop runs the files open in IOS are those the  *)
(* code takes for open - open_network_devices, wii_ios_net_init and        *)
(* wii_ios_net_shutdown leak none on any of their ways out.                *)
(***************************************************************************)
THEOREM WiiKept == IosSpec => []IosInv
<1>. QED BY InitIos, NextIos, KeptInv, PTL DEF IosSpec

-----------------------------------------------------------------------------
(* The shapes of the state.                                                *)

Ops == [do : {"write", "read", "probe"}, n : Nat \ {0}]
Answers == {NoAnswer} \cup [to : Reads, size : 0..2]
Setups == {"device", "address", "qualifier", "string", "conf"}

\* A ring of bytes up to number n.
RingAt(r, n) ==
    r \in [buf : [0..Ring - 1 -> 0..n], head : 0..Wrap - 1, tail : 0..Wrap - 1] /\ Used(r) <= Ring

PipeAt(p, n) == p = [rx |-> p.rx, tx |-> p.tx] /\ RingAt(p.rx, n) /\ RingAt(p.tx, n)

UsbDrivers == [configured : BOOLEAN, armed : BOOLEAN, busy : BOOLEAN,
            phase : {"setup", "token", "data", "status"}, reply : Answers, speed : 0..2,
            used : 0..MaxService, error : BOOLEAN, size : 0..2]
UsbEvents == [latched : SUBSET {"reset", "enum", "config", "intf"}, speed : 1..2]
Controls == [setup : Setups \cup {"none"}, token : BOOLEAN, fifo : Answers, sent : BOOLEAN,
             out : {"free", "posted", "done"}, inNak : BOOLEAN, outNak : BOOLEAN,
             inOn : BOOLEAN, stall : BOOLEAN]
Bulks == [on : BOOLEAN, out : {"free", "armed", "done", "failed"}, outBuf : Seq(Nat),
          in : {"free", "armed", "done"}, inBuf : Seq(Nat)]
Systems == [at : {"off", "speed", "ask", "data", "ack", "status", "config", "done"},
            ask : 1..5, got : Reads \cup {"none"}, size : 0..2, attempt : Nat,
            troubles : 0..MaxTroubles]
Tools == [talk : Talks \cup {"none"}, op : Nat, left : Int, buf : Seq(Nat),
          urb : {"none", "in"}, got : Seq(Nat), probed : BOOLEAN, talks : Nat, tries : Nat,
          stalls : Nat]
Tallies == [hostSent : Nat, devGot : Nat, devLast : Nat, devSent : Nat, hostGot : Nat,
            hostLast : Nat, lost : BOOLEAN]

Total == seen.hostSent + seen.devSent

\* No ring, buffer or packet holds a byte that was not sent.
BytesOK ==
    /\ PipeAt(pipe, Total)
    /\ bulk \in Bulks /\ bulk.outBuf \in Seq(0..Total) /\ seen \in Tallies

\* kos-tool's buffer, and where it is in an exchange while a transfer is under way.
ToolOK ==
    /\ host \in Tools
    /\ host.talk # "none" => host.op \in 1..Len(HostOps(host.talk))
    /\ host.urb = "in" => Doing("probe") \/ (Doing("read") /\ host.buf = <<>>)
    /\ Len(host.buf) + Len(host.got) <= 2 * MaxPkt
    /\ host.urb = "none" => host.got = <<>>
    /\ Doing("read") \/ Doing("write") => host.left >= 1
    /\ host.probed => Doing("probe") /\ host.urb = "none"

\* The driver answers the request the host is at, or has yet to take it.
RequestOK ==
    /\ os.at = "data" =>
          /\ Asked \in Reads
          /\ \/ ep0.setup = Asked /\ ep0.inNak
             \/ /\ ep0.setup = "none"
                /\ ep0.fifo # NoAnswer => ep0.fifo.to = Asked
                /\ driver.phase = "token" => driver.reply.to = Asked
    /\ os.at = "status" => os.got = Asked
    /\ os.at = "ack" => Asked \notin Reads

\* The sizes in the answers are those of the latched speed: when that changes they
\* are void.
SpeedOK ==
    /\ driver.reply.to = "conf" => driver.reply.size = driver.speed
    /\ ep0.fifo.to = "conf" => ep0.fifo.size = driver.speed

\* No reset or change of speed is going to be served before the next configuration.
Calm == gev.latched \cap {"reset", "enum"} = {} \/ driver.used = MaxService

\* While a configuration waits to be applied the host is at most at the first request
\* of its next enumeration, without an answer.
EventsOK ==
    "config" \in gev.latched =>
        /\ os.at \in {"speed", "ask", "data", "done"}
        /\ os.at \in {"ask", "data"} => os.ask = 1
        /\ os.at = "data" => \/ ep0.setup # "none"
                             \/ ep0.fifo = NoAnswer /\ dev.at # "ep0"

AnswerOK ==
    os.at = "data" /\ ep0.setup = "none" /\ (dev.at = "ep0" \/ ep0.fifo # NoAnswer) => Calm

\* From the configuration descriptor on.
SizeOK ==
    /\ os.at = "config" \/ (os.at = "status" /\ Asked = "conf") =>
          os.size = driver.speed /\ Calm
    /\ os.at = "done" =>
          \/ "config" \in gev.latched /\ os.size = driver.speed
          \/ "config" \notin gev.latched /\ (driver.configured => driver.size = os.size)

Shaped == /\ driver \in UsbDrivers /\ gev \in UsbEvents /\ ep0 \in Controls /\ os \in Systems
          /\ "at" \in DOMAIN dev /\ dev.at \in {"go", "gev", "ep0", "rx", "tx", "gone"}
Settles == RequestOK /\ SpeedOK /\ EventsOK /\ AnswerOK /\ SizeOK
PipeKept == Shaped /\ BytesOK /\ ToolOK /\ Settles

-----------------------------------------------------------------------------
(* Rings.                                                                  *)

LEMMA Moduli ==
    /\ \A n \in Nat \ {0} : \A x \in Int : x % n \in 0..n - 1
    /\ \A n \in Nat \ {0} : \A x \in 0..n - 1 : x % n = x
    /\ \A n \in Nat \ {0} : \A x \in n..2 * n - 1 : x % n = x - n
    /\ \A n \in Nat \ {0} : \A x \in 1 - n..-1 : x % n = x + n
<1>1. \A n \in Nat \ {0} : \A x \in Int : x % n \in 0..n - 1
  OBVIOUS
<1>2. \A n \in Nat \ {0} : \A x \in 0..n - 1 : x % n = x
  OBVIOUS
<1>3. \A n \in Nat \ {0} : \A x \in n..2 * n - 1 : x % n = x - n
  OBVIOUS
<1>4. \A n \in Nat \ {0} : \A x \in 1 - n..-1 : x % n = x + n
  OBVIOUS
<1>. QED BY <1>1, <1>2, <1>3, <1>4

LEMMA Sized ==
    /\ Ring \in Nat \ {0} /\ Wrap \in Nat \ {0} /\ Ring < Wrap
    /\ MaxPkt \in Nat \ {0} /\ MaxPkt <= Ring
BY PipeAssumption

\* What the counters of the rings are modulo Wrap.
LEMMA Wraps ==
    /\ \A x \in Int : x % Wrap \in 0..Wrap - 1 /\ x % Ring \in 0..Ring - 1
    /\ \A x \in 0..Wrap - 1 : x % Wrap = x
    /\ \A x \in Wrap..2 * Wrap - 1 : x % Wrap = x - Wrap
    /\ \A x \in 1 - Wrap..-1 : x % Wrap = x + Wrap
<1>1. \A x \in Int : x % Wrap \in 0..Wrap - 1 /\ x % Ring \in 0..Ring - 1
  BY Moduli, Sized
<1>2. \A x \in 0..Wrap - 1 : x % Wrap = x
  BY Moduli, Sized
<1>3. \A x \in Wrap..2 * Wrap - 1 : x % Wrap = x - Wrap
  BY Moduli, Sized
<1>4. \A x \in 1 - Wrap..-1 : x % Wrap = x + Wrap
  BY Moduli, Sized
<1>. QED BY <1>1, <1>2, <1>3, <1>4

\* How much the ring holds, and how that changes.
LEMMA UsedIs ==
    ASSUME NEW h \in 0..Wrap - 1, NEW t \in 0..Wrap - 1
    PROVE  (h - t) % Wrap = IF h >= t THEN h - t ELSE (h - t) + Wrap
<1>. DEFINE d == h - t
<1>1. CASE h >= t
  <2>1. d \in 0..Wrap - 1
    BY <1>1, Sized
  <2>. HIDE DEF d
  <2>2. d % Wrap = d
    BY <2>1, Wraps
  <2>. QED BY <1>1, <2>2 DEF d
<1>2. CASE h < t
  <2>1. d \in 1 - Wrap..-1
    BY <1>2, Sized
  <2>. HIDE DEF d
  <2>2. d % Wrap = d + Wrap
    BY <2>1, Wraps
  <2>. QED BY <1>2, <2>2 DEF d
<1>. QED BY <1>1, <1>2

LEMMA Moved ==
    ASSUME NEW h \in 0..Wrap - 1, NEW k \in 0..Ring
    PROVE  (h + k) % Wrap = IF h + k < Wrap THEN h + k ELSE (h + k) - Wrap
<1>. DEFINE d == h + k
<1>1. CASE d < Wrap
  <2>1. d \in 0..Wrap - 1
    BY <1>1, Sized
  <2>. HIDE DEF d
  <2>2. d % Wrap = d
    BY <2>1, Wraps
  <2>. QED BY <1>1, <2>2 DEF d
<1>2. CASE d >= Wrap
  <2>1. d \in Wrap..2 * Wrap - 1
    BY <1>2, Sized
  <2>. HIDE DEF d
  <2>2. d % Wrap = d - Wrap
    BY <2>1, Wraps
  <2>. QED BY <1>2, <2>1, <2>2, Sized DEF d
<1>. QED BY <1>1, <1>2, Sized

LEMMA Fills ==
    ASSUME NEW h \in 0..Wrap - 1, NEW t \in 0..Wrap - 1, NEW k \in 0..Ring,
           ((h - t) % Wrap) + k <= Ring
    PROVE  /\ (h + k) % Wrap \in 0..Wrap - 1
           /\ (((h + k) % Wrap) - t) % Wrap = ((h - t) % Wrap) + k
<1>1. (h + k) % Wrap = IF h + k < Wrap THEN h + k ELSE (h + k) - Wrap
  BY Moved
<1>. DEFINE g == (h + k) % Wrap
<1>2. g \in 0..Wrap - 1
  BY <1>1, Sized
<1>3. (g - t) % Wrap = IF g >= t THEN g - t ELSE (g - t) + Wrap
  <2>. HIDE DEF g
  <2>. QED BY <1>2, UsedIs
<1>4. (h - t) % Wrap = IF h >= t THEN h - t ELSE (h - t) + Wrap
  BY UsedIs
<1>. DEFINE u == (h - t) % Wrap
            w == (g - t) % Wrap
<1>5. w = u + k
  <2>1. g = IF h + k < Wrap THEN h + k ELSE (h + k) - Wrap
    BY <1>1
  <2>2. w = IF g >= t THEN g - t ELSE (g - t) + Wrap
    BY <1>3
  <2>3. u = IF h >= t THEN h - t ELSE (h - t) + Wrap
    BY <1>4
  <2>4. u + k <= Ring
    OBVIOUS
  <2>. HIDE DEF g, u, w
  <2>. QED BY <2>1, <2>2, <2>3, <2>4, Sized
<1>. QED BY <1>2, <1>5

LEMMA Drains ==
    ASSUME NEW h \in 0..Wrap - 1, NEW t \in 0..Wrap - 1, NEW k \in 0..Ring,
           k <= (h - t) % Wrap
    PROVE  /\ (t + k) % Wrap \in 0..Wrap - 1
           /\ (h - ((t + k) % Wrap)) % Wrap = ((h - t) % Wrap) - k
<1>1. (t + k) % Wrap = IF t + k < Wrap THEN t + k ELSE (t + k) - Wrap
  BY Moved
<1>. DEFINE g == (t + k) % Wrap
<1>2. g \in 0..Wrap - 1
  BY <1>1, Sized
<1>3. (h - g) % Wrap = IF h >= g THEN h - g ELSE (h - g) + Wrap
  <2>. HIDE DEF g
  <2>. QED BY <1>2, UsedIs
<1>4. (h - t) % Wrap = IF h >= t THEN h - t ELSE (h - t) + Wrap
  BY UsedIs
<1>. DEFINE u == (h - t) % Wrap
            w == (h - g) % Wrap
<1>5. w = u - k
  <2>1. g = IF t + k < Wrap THEN t + k ELSE (t + k) - Wrap
    BY <1>1
  <2>2. w = IF h >= g THEN h - g ELSE (h - g) + Wrap
    BY <1>3
  <2>3. u = IF h >= t THEN h - t ELSE (h - t) + Wrap
    BY <1>4
  <2>4. k <= u
    OBVIOUS
  <2>. HIDE DEF g, u, w
  <2>. QED BY <2>1, <2>2, <2>3, <2>4, Sized
<1>. QED BY <1>2, <1>5

LEMMA RingTypes ==
    ASSUME NEW n, NEW r, RingAt(r, n)
    PROVE  /\ r.head \in 0..Wrap - 1 /\ r.tail \in 0..Wrap - 1 /\ r.buf \in [0..Ring - 1 -> 0..n]
           /\ Used(r) = (r.head - r.tail) % Wrap /\ Used(r) \in 0..Ring
<1>1. r.head \in 0..Wrap - 1 /\ r.tail \in 0..Wrap - 1 /\ r.buf \in [0..Ring - 1 -> 0..n]
  BY DEF RingAt
<1>2. Used(r) = (r.head - r.tail) % Wrap /\ Used(r) <= Ring
  BY DEF RingAt, Used
<1>3. Used(r) \in Int /\ Used(r) >= 0
  <2>. DEFINE h == r.head
              t == r.tail
  <2>1. h \in 0..Wrap - 1 /\ t \in 0..Wrap - 1
    BY <1>1
  <2>2. h - t \in Int
    BY <2>1, Sized
  <2>. HIDE DEF h, t
  <2>3. (h - t) % Wrap \in 0..Wrap - 1
    BY <2>2, Wraps
  <2>. QED BY <1>2, <2>3 DEF h, t
<1>. QED BY <1>1, <1>2, <1>3, Sized

LEMMA Widen ==
    ASSUME NEW n \in Nat, NEW m \in Nat, n <= m, NEW r, RingAt(r, n)
    PROVE  RingAt(r, m)
BY DEF RingAt

LEMMA Pushed ==
    ASSUME NEW n \in Nat, NEW r, RingAt(r, n), Used(r) < Ring, NEW b \in 0..n
    PROVE  RingAt(Push(r, b), n)
<1>. DEFINE h == r.head
            t == r.tail
<1>1. /\ h \in 0..Wrap - 1 /\ t \in 0..Wrap - 1 /\ r.buf \in [0..Ring - 1 -> 0..n]
      /\ Used(r) = (h - t) % Wrap /\ Used(r) \in 0..Ring
  BY RingTypes
<1>2. Push(r, b) = [buf |-> [r.buf EXCEPT ![h % Ring] = b], head |-> (h + 1) % Wrap, tail |-> t]
  <2>. DEFINE f == r.buf
              g == [f EXCEPT ![h % Ring] = b]
              c == (h + 1) % Wrap
  <2>1. r = [buf |-> f, head |-> h, tail |-> t]
    BY DEF RingAt
  <2>. HIDE DEF h, t
  <2>2. Push(r, b) = [r EXCEPT !.buf = g, !.head = c]
    BY <2>1 DEF Push, h
  <2>. HIDE DEF g, c, f
  <2>3. Push(r, b) = [buf |-> g, head |-> c, tail |-> t]
    BY <2>1, <2>2
  <2>. QED BY <2>3 DEF g, c, f
<1>. HIDE DEF h, t
<1>3. (h + 1) % Wrap \in 0..Wrap - 1 /\ (((h + 1) % Wrap) - t) % Wrap = ((h - t) % Wrap) + 1
  <2>1. ((h - t) % Wrap) + 1 <= Ring /\ 1 \in 0..Ring
    BY <1>1, Sized
  <2>. QED BY <1>1, <2>1, Fills
<1>4. Used(Push(r, b)) = Used(r) + 1
  BY <1>1, <1>2, <1>3 DEF Used
<1>5. [r.buf EXCEPT ![h % Ring] = b] \in [0..Ring - 1 -> 0..n]
  BY <1>1
<1>. QED BY <1>1, <1>2, <1>3, <1>4, <1>5, Sized DEF RingAt

LEMMA Popped ==
    ASSUME NEW n \in Nat, NEW r, RingAt(r, n), Used(r) > 0
    PROVE  RingAt(Pop(r), n) /\ Oldest(r) \in 0..n
<1>. DEFINE h == r.head
            t == r.tail
<1>1. /\ h \in 0..Wrap - 1 /\ t \in 0..Wrap - 1 /\ r.buf \in [0..Ring - 1 -> 0..n]
      /\ Used(r) = (h - t) % Wrap /\ Used(r) \in 0..Ring
  BY RingTypes
<1>2. Pop(r) = [buf |-> r.buf, head |-> h, tail |-> (t + 1) % Wrap]
  BY DEF Pop, RingAt
<1>6. Oldest(r) = r.buf[t % Ring]
  BY DEF Oldest
<1>. HIDE DEF h, t
<1>3. (t + 1) % Wrap \in 0..Wrap - 1 /\ (h - ((t + 1) % Wrap)) % Wrap = ((h - t) % Wrap) - 1
  BY <1>1, Drains, Sized
<1>4. Used(Pop(r)) = Used(r) - 1
  BY <1>1, <1>2, <1>3 DEF Used
<1>5. t % Ring \in 0..Ring - 1
  BY <1>1, Wraps
<1>. QED BY <1>1, <1>2, <1>3, <1>4, <1>5, <1>6, Sized DEF RingAt

\* A received packet: what does not fit is dropped.
LEMMA Filled ==
    ASSUME NEW n \in Nat, NEW r, RingAt(r, n), NEW s \in Seq(0..n)
    PROVE  RingAt(PushAll(r, s), n)
<1>. DEFINE h == r.head
            t == r.tail
            k == Lesser(Len(s), Ring - Used(r))
            buf == [i \in 0..Ring - 1 |-> LET j == (i - h) % Ring IN IF j < k THEN s[j + 1] ELSE r.buf[i]]
<1>1. /\ h \in 0..Wrap - 1 /\ t \in 0..Wrap - 1 /\ r.buf \in [0..Ring - 1 -> 0..n]
      /\ Used(r) = (h - t) % Wrap /\ Used(r) \in 0..Ring
  BY RingTypes
<1>2. PushAll(r, s) = [buf |-> buf, head |-> (h + k) % Wrap, tail |-> t]
  BY DEF PushAll
<1>3. k \in 0..Ring /\ k <= Len(s) /\ Used(r) + k <= Ring /\ Len(s) \in Nat
  <2>. HIDE DEF h, t
  <2>1. Ring - Used(r) \in 0..Ring /\ Len(s) \in Nat
    BY <1>1, Sized
  <2>. QED BY <1>1, <2>1, Sized DEF Lesser
<1>4. buf \in [0..Ring - 1 -> 0..n]
  <2>1. ASSUME NEW i \in 0..Ring - 1 PROVE buf[i] \in 0..n
    <3>. DEFINE j == (i - h) % Ring
    <3>1. j \in 0..Ring - 1
      <4>. HIDE DEF h
      <4>1. i - h \in Int
        BY <1>1, Sized
      <4>. QED BY <4>1, Wraps
    <3>2. buf[i] = IF j < k THEN s[j + 1] ELSE r.buf[i]
      OBVIOUS
    <3>. HIDE DEF j, k, h, t
    <3>3. CASE j < k
      <4>1. j + 1 \in 1..Len(s)
        BY <1>3, <3>1, <3>3, Sized
      <4>. QED BY <3>2, <3>3, <4>1
    <3>. QED BY <1>1, <3>1, <1>3, <3>2, <3>3, Sized
  <2>. QED BY <2>1
<1>. HIDE DEF h, t, k, buf
<1>5. (h + k) % Wrap \in 0..Wrap - 1 /\ (((h + k) % Wrap) - t) % Wrap = ((h - t) % Wrap) + k
  BY <1>1, <1>3, Fills
<1>6. Used(PushAll(r, s)) = Used(r) + k
  BY <1>1, <1>2, <1>5 DEF Used
<1>. QED BY <1>1, <1>2, <1>3, <1>4, <1>5, <1>6 DEF RingAt

\* A packet taken out of the ring.
LEMMA Takes ==
    ASSUME NEW n \in Nat, NEW r, RingAt(r, n), NEW k \in 0..Ring, k <= Used(r)
    PROVE  /\ RingAt([r EXCEPT !.tail = (@ + k) % Wrap], n)
           /\ Held(r, k) \in Seq(0..n) /\ Len(Held(r, k)) = k
<1>. DEFINE h == r.head
            t == r.tail
            q == [r EXCEPT !.tail = (@ + k) % Wrap]
<1>1. /\ h \in 0..Wrap - 1 /\ t \in 0..Wrap - 1 /\ r.buf \in [0..Ring - 1 -> 0..n]
      /\ Used(r) = (h - t) % Wrap /\ Used(r) \in 0..Ring
  BY RingTypes
<1>2. q = [buf |-> r.buf, head |-> h, tail |-> (t + k) % Wrap]
  BY DEF RingAt
<1>6. Held(r, k) = [i \in 1..k |-> r.buf[(t + i - 1) % Ring]]
  BY DEF Held
<1>. HIDE DEF h, t, q
<1>3. (t + k) % Wrap \in 0..Wrap - 1 /\ (h - ((t + k) % Wrap)) % Wrap = ((h - t) % Wrap) - k
  BY <1>1, Drains
<1>4. Used(q) = Used(r) - k
  BY <1>1, <1>2, <1>3 DEF Used
<1>5. RingAt(q, n)
  BY <1>1, <1>2, <1>3, <1>4, Sized DEF RingAt
<1>7. \A i \in 1..k : (t + i - 1) % Ring \in 0..Ring - 1
  <2>. SUFFICES ASSUME NEW i \in 1..k PROVE (t + i - 1) % Ring \in 0..Ring - 1
    OBVIOUS
  <2>1. t + i - 1 \in Int
    BY <1>1, Sized
  <2>. QED BY <2>1, Wraps
<1>8. \A i \in 1..k : r.buf[(t + i - 1) % Ring] \in 0..n
  BY <1>1, <1>7
<1>9. Held(r, k) \in Seq(0..n) /\ Len(Held(r, k)) = k
  <2>. DEFINE e(i) == r.buf[(t + i - 1) % Ring]
  <2>1. Held(r, k) = [i \in 1..k |-> e(i)]
    BY <1>6
  <2>2. \A i \in 1..k : e(i) \in 0..n
    BY <1>8
  <2>. HIDE DEF e
  <2>. QED BY <2>1, <2>2, Sized
<1>. QED BY <1>5, <1>9 DEF q

LEMMA Lengths == \A a, b \in Nat : Lesser(a, b) \in Nat /\ Lesser(a, b) <= a /\ Lesser(a, b) <= b
BY DEF Lesser

\* The next packet to the host.
LEMMA Starts ==
    ASSUME NEW n \in Nat, NEW tx, RingAt(tx, n), RingAt(pipe.rx, n),
           pipe = [rx |-> pipe.rx, tx |-> pipe.tx], bulk \in Bulks, driver \in UsbDrivers, HwTx(tx)
    PROVE  /\ PipeAt(pipe', n) /\ bulk' \in Bulks /\ bulk'.outBuf = bulk.outBuf
           /\ driver' \in [configured : {driver.configured}, armed : {driver.armed}, busy : BOOLEAN,
                        phase : {driver.phase}, reply : {driver.reply}, speed : {driver.speed},
                        used : {driver.used}, error : {driver.error}, size : {driver.size}]
<1>. DEFINE u == Used(tx)
            k == Lesser(MaxPkt, u)
            rest == [tx EXCEPT !.tail = (@ + k) % Wrap]
            packet == Held(tx, k)
<1>1. u \in 0..Ring
  BY RingTypes
<1>2. k \in 0..Ring /\ k <= u
  <2>. HIDE DEF u
  <2>1. MaxPkt \in Nat /\ u \in Nat
    BY <1>1, Sized
  <2>2. k \in Nat /\ k <= MaxPkt /\ k <= u
    BY <2>1, Lengths
  <2>. HIDE DEF k
  <2>. QED BY <2>1, <2>2, Sized
<1>3. RingAt(rest, n) /\ packet \in Seq(0..n)
  BY <1>2, Takes
<1>4. packet \in Seq(Nat)
  <2>. HIDE DEF packet
  <2>. QED BY <1>3
<1>5. PICK go \in BOOLEAN, done \in BOOLEAN, b \in BOOLEAN :
         /\ pipe' = [pipe EXCEPT !.tx = IF go THEN rest ELSE tx]
         /\ driver' = [driver EXCEPT !.busy = b]
         /\ bulk' = IF go THEN [bulk EXCEPT !.in = "armed", !.inBuf = packet]
                    ELSE IF done THEN [bulk EXCEPT !.in = "free", !.inBuf = <<>>]
                    ELSE bulk
  <2>. DEFINE d == driver.busy /\ bulk.in = "done"
              y == driver.busy /\ ~d
              g == driver.configured /\ ~y /\ k > 0
              e == d /\ driver.configured
              b == IF driver.configured THEN y \/ g ELSE driver.busy
  <2>1. d \in BOOLEAN /\ y \in BOOLEAN /\ g \in BOOLEAN /\ e \in BOOLEAN /\ b \in BOOLEAN
    BY DEF UsbDrivers
  <2>2. /\ pipe' = [pipe EXCEPT !.tx = IF g THEN rest ELSE tx]
        /\ driver' = [driver EXCEPT !.busy = b]
        /\ bulk' = IF g THEN [bulk EXCEPT !.in = "armed", !.inBuf = packet]
                   ELSE IF e THEN [bulk EXCEPT !.in = "free", !.inBuf = <<>>]
                   ELSE bulk
    BY DEF HwTx
  <2>. HIDE DEF g, e, b, rest, packet, k
  <2>. QED BY <2>1, <2>2
<1>. HIDE DEF rest, packet
<1>6. PipeAt(pipe', n)
  BY <1>3, <1>5 DEF PipeAt
<1>7. bulk' \in Bulks /\ bulk'.outBuf = bulk.outBuf
  <2>1. CASE go
    BY <1>4, <1>5, <2>1 DEF Bulks
  <2>2. CASE ~go
    <3>1. bulk' = bulk \/ bulk' = [bulk EXCEPT !.in = "free", !.inBuf = <<>>]
      BY <1>5, <2>2
    <3>2. <<>> \in Seq(Nat)
      OBVIOUS
    <3>. QED BY <3>1, <3>2 DEF Bulks
  <2>. QED BY <2>1, <2>2
<1>8. driver' \in [configured : {driver.configured}, armed : {driver.armed}, busy : BOOLEAN,
                phase : {driver.phase}, reply : {driver.reply}, speed : {driver.speed},
                used : {driver.used}, error : {driver.error}, size : {driver.size}]
  BY <1>5 DEF UsbDrivers
<1>. QED BY <1>6, <1>7, <1>8

-----------------------------------------------------------------------------
(* What the steps leave alone.                                             *)

\* Bytes move; the enumeration stands.
LEMMA SettlesSame ==
    ASSUME Shaped, Settles, UNCHANGED <<os, ep0, gev>>, driver' \in UsbDrivers,
           driver'.phase = driver.phase, driver'.reply = driver.reply, driver'.speed = driver.speed,
           driver'.used = driver.used, driver'.configured = driver.configured, driver'.size = driver.size,
           "at" \in DOMAIN dev', dev'.at \in {"go", "gev", "ep0", "rx", "tx", "gone"},
           dev'.at = "ep0" => dev.at = "ep0"
    PROVE  Shaped' /\ Settles'
<1>1. Shaped'
  BY DEF Shaped
<1>2. Calm' <=> Calm
  BY DEF Calm
<1>3. RequestOK' /\ SpeedOK'
  BY DEF Settles, RequestOK, SpeedOK, Asked
<1>4. EventsOK'
  BY DEF Settles, EventsOK
<1>5. AnswerOK'
  BY <1>2 DEF Settles, AnswerOK
<1>6. SizeOK'
  BY <1>2 DEF Settles, SizeOK, Asked
<1>. QED BY <1>1, <1>3, <1>4, <1>5, <1>6 DEF Settles

\* The enumeration goes on; no byte moves.
LEMMA BytesSame ==
    ASSUME BytesOK, UNCHANGED pipe, seen' \in Tallies, seen'.hostSent = seen.hostSent,
           seen'.devSent = seen.devSent, bulk' \in Bulks,
           bulk'.outBuf = bulk.outBuf \/ bulk'.outBuf = <<>>
    PROVE  BytesOK'
<1>1. Total' = Total
  BY DEF Total
<1>2. bulk'.outBuf \in Seq(0..Total)
  <2>1. <<>> \in Seq(0..Total)
    OBVIOUS
  <2>. QED BY <2>1 DEF BytesOK
<1>. QED BY <1>1, <1>2 DEF BytesOK

LEMMA ToolSame ==
    ASSUME ToolOK, UNCHANGED host
    PROVE  ToolOK'
BY DEF ToolOK, Doing, HostOp

\* Where the loader goes.
LEMMA DevGoes ==
    ASSUME NEW d, "at" \in DOMAIN d, NEW x
    PROVE  "at" \in DOMAIN [d EXCEPT !.at = x] /\ [d EXCEPT !.at = x].at = x
OBVIOUS

LEMMA Advancing ==
    ASSUME NEW d
    PROVE  "at" \in DOMAIN Advance(d) /\ Advance(d).at = "go"
BY DEF Advance

LEMMA Lessening ==
    ASSUME NEW d, "at" \in DOMAIN d
    PROVE  "at" \in DOMAIN OneLess(d) /\ OneLess(d).at = "go"
BY Advancing DEF OneLess

-----------------------------------------------------------------------------
(* The loader's steps on the data path.                                    *)

\* usb_hw_rx.
LEMMA StepPollRx ==
    ASSUME PipeKept, PollRx
    PROVE  PipeKept'
<1>. DEFINE n == Total
<1>1. /\ dev.at = "rx" /\ dev' = [dev EXCEPT !.at = "tx"] /\ HwRx
      /\ UNCHANGED <<gev, ep0, os, host, seen>>
  BY DEF PollRx
<1>2. "at" \in DOMAIN dev' /\ dev'.at = "tx"
  BY <1>1, DevGoes DEF PipeKept, Shaped
<1>3. n \in Nat /\ Total' = n
  BY <1>1 DEF PipeKept, BytesOK, Tallies, Total
<1>4. PICK a \in BOOLEAN, e \in BOOLEAN :
         driver' = driver \/ driver' = [driver EXCEPT !.armed = a] \/ driver' = [driver EXCEPT !.armed = a, !.error = e]
  BY <1>1 DEF HwRx
<1>5. /\ driver' \in UsbDrivers /\ driver'.phase = driver.phase /\ driver'.reply = driver.reply
      /\ driver'.speed = driver.speed /\ driver'.used = driver.used /\ driver'.configured = driver.configured
      /\ driver'.size = driver.size
  <2>1. driver \in UsbDrivers
    BY DEF PipeKept, Shaped
  <2>. QED BY <1>4, <2>1 DEF UsbDrivers
<1>6. Shaped' /\ Settles'
  BY <1>1, <1>2, <1>5, SettlesSame DEF PipeKept
<1>7. bulk' \in Bulks /\ (bulk'.outBuf = bulk.outBuf \/ bulk'.outBuf = <<>>)
  <2>1. \/ bulk' = bulk \/ bulk' = [bulk EXCEPT !.out = "armed", !.outBuf = <<>>]
        \/ bulk' = [bulk EXCEPT !.out = "free", !.outBuf = <<>>]
    BY <1>1 DEF HwRx
  <2>2. bulk \in Bulks /\ <<>> \in Seq(Nat)
    BY DEF PipeKept, BytesOK
  <2>. QED BY <2>1, <2>2 DEF Bulks
<1>8. PipeAt(pipe', n)
  <2>1. PipeAt(pipe, n) /\ bulk.outBuf \in Seq(0..n)
    BY DEF PipeKept, BytesOK
  <2>2. pipe' = pipe \/ pipe' = [pipe EXCEPT !.rx = PushAll(@, bulk.outBuf)]
    BY <1>1 DEF HwRx
  <2>. DEFINE b == bulk.outBuf
              r == pipe.rx
  <2>3. RingAt(PushAll(r, b), n)
    <3>1. RingAt(r, n) /\ b \in Seq(0..n)
      BY <2>1 DEF PipeAt
    <3>. HIDE DEF b, r, n
    <3>. QED BY <1>3, <3>1, Filled
  <2>. HIDE DEF n
  <2>. QED BY <2>1, <2>2, <2>3 DEF PipeAt
<1>9. BytesOK'
  <2>1. bulk'.outBuf \in Seq(0..n)
    <3>1. <<>> \in Seq(0..n)
      OBVIOUS
    <3>. QED BY <1>7, <3>1 DEF PipeKept, BytesOK
  <2>. QED BY <1>1, <1>3, <1>7, <1>8, <2>1 DEF PipeKept, BytesOK
<1>. QED BY <1>1, <1>6, <1>9, ToolSame DEF PipeKept

\* A transfer is started on a ring that holds what was sent.
LEMMA StepSends ==
    ASSUME PipeKept, NEW tx, NEW n \in Nat, Total <= n, Total' = n, RingAt(tx, n),
           HwTx(tx) \/ (pipe' = [pipe EXCEPT !.tx = tx] /\ UNCHANGED <<driver, bulk>>),
           UNCHANGED <<gev, ep0, os, host>>, seen' \in Tallies,
           "at" \in DOMAIN dev', dev'.at \in {"go", "gev", "rx", "tx", "gone"}
    PROVE  PipeKept'
<1>1. /\ driver \in UsbDrivers /\ bulk \in Bulks /\ PipeAt(pipe, Total) /\ Total \in Nat
      /\ bulk.outBuf \in Seq(0..Total)
  BY DEF PipeKept, Shaped, BytesOK, Total, Tallies
<1>2. PipeAt(pipe, n)
  BY <1>1, Widen DEF PipeAt
<1>3. bulk.outBuf \in Seq(0..n)
  <2>1. 0..Total \subseteq 0..n
    BY <1>1
  <2>. DEFINE b == bulk.outBuf
  <2>2. Len(b) \in Nat /\ b \in [1..Len(b) -> 0..Total]
    BY <1>1
  <2>. HIDE DEF b
  <2>3. b \in Seq(0..n)
    BY <2>1, <2>2
  <2>. QED BY <2>3 DEF b
<1>4. /\ PipeAt(pipe', n) /\ bulk' \in Bulks /\ bulk'.outBuf = bulk.outBuf
      /\ driver' \in [configured : {driver.configured}, armed : {driver.armed}, busy : BOOLEAN,
                   phase : {driver.phase}, reply : {driver.reply}, speed : {driver.speed},
                   used : {driver.used}, error : {driver.error}, size : {driver.size}]
  <2>1. CASE HwTx(tx)
    BY <1>1, <1>2, <2>1, Starts DEF PipeAt
  <2>2. CASE pipe' = [pipe EXCEPT !.tx = tx] /\ UNCHANGED <<driver, bulk>>
    <3>1. PipeAt(pipe', n)
      BY <1>2, <2>2 DEF PipeAt
    <3>. QED BY <1>1, <2>2, <3>1 DEF UsbDrivers
  <2>. QED BY <2>1, <2>2
<1>5. BytesOK'
  BY <1>3, <1>4 DEF BytesOK
<1>6. /\ driver' \in UsbDrivers /\ driver'.phase = driver.phase /\ driver'.reply = driver.reply
      /\ driver'.speed = driver.speed /\ driver'.used = driver.used /\ driver'.configured = driver.configured
      /\ driver'.size = driver.size
  BY <1>1, <1>4 DEF UsbDrivers
<1>7. Shaped' /\ Settles'
  BY <1>6, SettlesSame DEF PipeKept
<1>. QED BY <1>5, <1>7, ToolSame DEF PipeKept

LEMMA StepPollTx ==
    ASSUME PipeKept, PollTx \/ TxFlush
    PROVE  PipeKept'
<1>. DEFINE n == Total
            tx == pipe.tx
<1>1. HwTx(tx) /\ UNCHANGED <<gev, ep0, os, host, seen>>
  BY DEF PollTx, TxFlush
<1>2. n \in Nat /\ Total' = n /\ Total <= n /\ seen' \in Tallies /\ RingAt(tx, n)
  BY <1>1 DEF PipeKept, BytesOK, PipeAt, Total, Tallies
<1>3. "at" \in DOMAIN dev' /\ dev'.at \in {"go", "gev", "rx", "tx", "gone"}
  BY DevGoes, Advancing DEF PollTx, TxFlush, PipeKept, Shaped
<1>. HIDE DEF n, tx
<1>. QED BY <1>1, <1>2, <1>3, StepSends

LEMMA StepTxByte ==
    ASSUME PipeKept, TxByte
    PROVE  PipeKept'
<1>. DEFINE n == Total
            m == seen.devSent + 1
            r == pipe.tx
            tx == Push(r, m)
<1>1. /\ Used(r) < Ring /\ seen' = [seen EXCEPT !.devSent = @ + 1] /\ dev' = OneLess(dev)
      /\ UNCHANGED <<gev, ep0, os, host>>
      /\ HwTx(tx) \/ (pipe' = [pipe EXCEPT !.tx = tx] /\ UNCHANGED <<driver, bulk>>)
  BY DEF TxByte
<1>2. seen \in Tallies /\ RingAt(r, n)
  BY DEF PipeKept, BytesOK, PipeAt
<1>3. n \in Nat /\ n + 1 \in Nat /\ Total <= n + 1 /\ Total' = n + 1 /\ seen' \in Tallies
      /\ m \in 0..n + 1
  BY <1>1, <1>2 DEF Total, Tallies
<1>4. "at" \in DOMAIN dev' /\ dev'.at \in {"go", "gev", "rx", "tx", "gone"}
  BY <1>1, Lessening DEF PipeKept, Shaped
<1>. HIDE DEF n, m, r
<1>5. RingAt(r, n + 1)
  BY <1>2, <1>3, Widen
<1>6. RingAt(tx, n + 1)
  BY <1>1, <1>3, <1>5, Pushed
<1>. HIDE DEF tx
<1>. QED BY <1>1, <1>3, <1>4, <1>6, StepSends

LEMMA StepRxByte ==
    ASSUME PipeKept, RxByte
    PROVE  PipeKept'
<1>. DEFINE n == Total
            r == pipe.rx
<1>1. /\ Used(r) > 0 /\ pipe' = [pipe EXCEPT !.rx = Pop(@)]
      /\ seen' = [seen EXCEPT !.devGot = @ + 1, !.devLast = Oldest(r)]
      /\ dev' = OneLess(IF dev.op = 2 THEN [dev EXCEPT !.talk = host.talk] ELSE dev)
      /\ UNCHANGED <<driver, gev, ep0, bulk, os, host>>
  BY DEF RxByte
<1>2. /\ seen \in Tallies /\ PipeAt(pipe, n) /\ RingAt(r, n) /\ n \in Nat
  BY DEF PipeKept, BytesOK, PipeAt, Tallies, Total
<1>3. RingAt(Pop(r), n) /\ Oldest(r) \in 0..n
  <2>. HIDE DEF r, n
  <2>. QED BY <1>1, <1>2, Popped
<1>4. PipeAt(pipe', n)
  <2>. HIDE DEF n
  <2>. QED BY <1>1, <1>2, <1>3 DEF PipeAt
<1>5. seen' \in Tallies /\ Total' = n
  <2>. DEFINE f == Oldest(r)
  <2>1. f \in Nat
    BY <1>3
  <2>. HIDE DEF f, r
  <2>2. seen' = [seen EXCEPT !.devGot = @ + 1, !.devLast = f]
    BY <1>1 DEF f
  <2>. DEFINE g == seen.devGot + 1
  <2>3. g \in Nat /\ seen' = [seen EXCEPT !.devGot = g, !.devLast = f]
    BY <1>2, <2>2 DEF Tallies
  <2>. HIDE DEF g
  <2>4. seen' \in Tallies /\ seen'.hostSent = seen.hostSent /\ seen'.devSent = seen.devSent
    BY <1>2, <2>1, <2>3 DEF Tallies
  <2>. QED BY <2>4 DEF Total
<1>6. "at" \in DOMAIN dev' /\ dev'.at \in {"go", "gev", "rx", "tx", "gone"}
  <2>. DEFINE d == IF dev.op = 2 THEN [dev EXCEPT !.talk = host.talk] ELSE dev
  <2>1. "at" \in DOMAIN d
    BY DEF PipeKept, Shaped
  <2>. HIDE DEF d
  <2>2. dev' = OneLess(d)
    BY <1>1 DEF d
  <2>. QED BY <2>1, <2>2, Lessening
<1>7. BytesOK'
  BY <1>1, <1>4, <1>5 DEF PipeKept, BytesOK
<1>8. Shaped' /\ Settles'
  BY <1>1, <1>6, SettlesSame DEF PipeKept, Shaped
<1>. QED BY <1>1, <1>7, <1>8, ToolSame DEF PipeKept

LEMMA StepPollStarts ==
    ASSUME PipeKept, StartPoll \/ RunGuest
    PROVE  PipeKept'
<1>1. UNCHANGED <<pipe, driver, gev, ep0, bulk, os, host, seen>>
  BY DEF StartPoll, RunGuest
<1>2. "at" \in DOMAIN dev' /\ dev'.at \in {"go", "gev", "rx", "tx", "gone"}
  BY DevGoes, Advancing DEF StartPoll, RunGuest, PipeKept, Shaped
<1>3. BytesOK'
  BY <1>1 DEF PipeKept, BytesOK, Total
<1>4. Shaped' /\ Settles'
  BY <1>1, <1>2, SettlesSame DEF PipeKept, Shaped
<1>. QED BY <1>1, <1>3, <1>4, ToolSame DEF PipeKept

LEMMA StepHandoff ==
    ASSUME PipeKept, PrepareHandoff
    PROVE  PipeKept'
<1>1. /\ UNCHANGED <<pipe, gev, ep0, os, host, seen>> /\ bulk' = [bulk EXCEPT !.on = FALSE]
      /\ driver' = [driver EXCEPT !.configured = FALSE, !.armed = FALSE, !.busy = FALSE]
      /\ dev' = [dev EXCEPT !.at = "gone"]
  BY DEF PrepareHandoff, Applied
<1>2. "at" \in DOMAIN dev' /\ dev'.at = "gone"
  BY <1>1, DevGoes DEF PipeKept, Shaped
<1>3. BytesOK'
  BY <1>1 DEF PipeKept, BytesOK, Bulks, Total
<1>4. /\ driver' \in UsbDrivers /\ driver'.phase = driver.phase /\ driver'.reply = driver.reply
      /\ driver'.speed = driver.speed /\ driver'.used = driver.used /\ driver'.configured = FALSE
      /\ driver'.size = driver.size
  BY <1>1 DEF PipeKept, Shaped, UsbDrivers
<1>5. Shaped'
  BY <1>1, <1>2, <1>4 DEF PipeKept, Shaped
<1>6. Calm' <=> Calm
  BY <1>1, <1>4 DEF Calm
<1>7. RequestOK' /\ SpeedOK'
  BY <1>1, <1>4 DEF PipeKept, Settles, RequestOK, SpeedOK, Asked
<1>8. EventsOK' /\ AnswerOK'
  BY <1>1, <1>2, <1>6 DEF PipeKept, Settles, EventsOK, AnswerOK
<1>9. SizeOK'
  BY <1>1, <1>4, <1>6 DEF PipeKept, Settles, SizeOK, Asked
<1>. QED BY <1>1, <1>3, <1>5, <1>7, <1>8, <1>9, ToolSame DEF PipeKept, Settles

-----------------------------------------------------------------------------
(* The loader's steps on endpoint 0.                                       *)

LEMMA RequestList ==
    /\ Len(SetupRequests) = 5 /\ SetupRequests[1] = "device" /\ SetupRequests[2] = "address"
    /\ SetupRequests[3] = "qualifier" /\ SetupRequests[4] = "string" /\ SetupRequests[5] = "conf"
    /\ \A i \in 1..5 : SetupRequests[i] \in Setups
    /\ Reads = {"device", "qualifier", "conf"} /\ "none" \notin Setups
BY DEF SetupRequests, Setups, Reads

\* usb_global_events: afterwards no configuration waits, and nothing else is served.
LEMMA StepGlobalEvents ==
    ASSUME PipeKept, GlobalEvents
    PROVE  PipeKept'
<1>. DEFINE events == gev.latched
            conf == IF "config" \in events THEN Applied(driver, TRUE) ELSE driver
            served == events \cap {"reset", "enum"} # {} /\ conf.used < MaxService
            reset == served /\ "reset" \in events
            sped == IF served /\ "enum" \in events THEN gev.speed
                    ELSE IF reset THEN 1 ELSE driver.speed
            anew == reset \/ sped # driver.speed
            counted == [conf EXCEPT !.used = IF served THEN @ + 1 ELSE @, !.speed = sped]
<1>1. /\ dev.at = "gev" /\ dev' = [dev EXCEPT !.at = "ep0"]
      /\ gev' = [gev EXCEPT !.latched =
                    @ \ ({"config", "intf"} \cup IF served THEN {"reset", "enum"} ELSE {})]
      /\ driver' = IF anew THEN Restarted(counted) ELSE counted
      /\ ep0' = IF anew THEN Ep0Quiet ELSE ep0
      /\ bulk' = IF anew THEN [bulk EXCEPT !.on = FALSE]
                 ELSE IF "config" \in events THEN BulkConfigured ELSE bulk
      /\ UNCHANGED <<pipe, os, host, seen>>
  BY DEF GlobalEvents
<1>2. "at" \in DOMAIN dev' /\ dev'.at = "ep0"
  BY <1>1, DevGoes DEF PipeKept, Shaped
<1>3. /\ driver \in UsbDrivers /\ gev \in UsbEvents /\ ep0 \in Controls /\ bulk \in Bulks
      /\ MaxService \in Nat
  BY PipeAssumption DEF PipeKept, Shaped, BytesOK
<1>4. /\ conf \in UsbDrivers /\ conf.speed = driver.speed /\ conf.phase = driver.phase
      /\ conf.reply = driver.reply
      /\ "config" \in events => conf.size = driver.speed /\ conf.configured /\ conf.used = 0
      /\ "config" \notin events => conf = driver
  <2>1. CASE "config" \in events
    <3>. DEFINE z == driver.speed
    <3>1. conf = [driver EXCEPT !.configured = TRUE, !.used = 0, !.size = z]
      BY <2>1 DEF Applied
    <3>2. z \in 0..2 /\ 0 \in 0..MaxService
      BY <1>3 DEF UsbDrivers
    <3>. HIDE DEF z, conf
    <3>3. /\ conf \in UsbDrivers /\ conf.speed = driver.speed /\ conf.phase = driver.phase
          /\ conf.reply = driver.reply /\ conf.size = z /\ conf.configured /\ conf.used = 0
      BY <1>3, <3>1, <3>2 DEF UsbDrivers
    <3>. QED BY <2>1, <3>3 DEF z
  <2>2. CASE "config" \notin events
    BY <1>3, <2>2
  <2>. QED BY <2>1, <2>2
<1>. HIDE DEF conf
<1>5. sped \in 0..2 /\ served \in BOOLEAN
  BY <1>3 DEF UsbDrivers, UsbEvents
<1>6. /\ counted \in UsbDrivers /\ counted.speed = sped /\ counted.phase = driver.phase
      /\ counted.reply = driver.reply /\ counted.size = conf.size
      /\ counted.configured = conf.configured
      /\ ~served => counted.used = conf.used
  <2>. DEFINE v == IF served THEN conf.used + 1 ELSE conf.used
  <2>1. v \in 0..MaxService
    BY <1>3, <1>4 DEF UsbDrivers
  <2>2. counted = [conf EXCEPT !.used = v, !.speed = sped]
    OBVIOUS
  <2>3. ~served => v = conf.used
    OBVIOUS
  <2>. HIDE DEF v, sped, served, counted
  <2>. QED BY <1>4, <1>5, <2>1, <2>2, <2>3 DEF UsbDrivers
<1>. HIDE DEF counted
<1>7. NoAnswer \in Answers /\ NoAnswer.to = "none"
  BY DEF Answers, NoAnswer
<1>8. /\ driver' \in UsbDrivers /\ driver'.speed = sped
      /\ anew => driver'.configured = FALSE /\ driver'.phase = "setup" /\ driver'.reply = NoAnswer
      /\ ~anew => driver' = counted
  <2>. HIDE DEF anew, sped
  <2>. QED BY <1>1, <1>6, <1>7 DEF Restarted, UsbDrivers
<1>9. /\ ep0' \in Controls
      /\ anew => ep0'.setup = "none" /\ ep0'.fifo = NoAnswer
      /\ ~anew => ep0' = ep0
  <2>. HIDE DEF anew
  <2>. QED BY <1>1, <1>3, <1>7 DEF Ep0Quiet, Controls
<1>10. /\ gev' \in UsbEvents /\ "config" \notin gev'.latched
       /\ gev'.latched \subseteq gev.latched
       /\ served => gev'.latched \cap {"reset", "enum"} = {}
       /\ ~served => gev'.latched \cap {"reset", "enum"} = gev.latched \cap {"reset", "enum"}
  <2>. HIDE DEF served
  <2>. QED BY <1>1, <1>3, <1>5 DEF UsbEvents
<1>11. Calm'
  <2>1. CASE served
    BY <1>10, <2>1 DEF Calm
  <2>2. CASE ~served /\ events \cap {"reset", "enum"} = {}
    BY <1>10, <2>2 DEF Calm
  <2>3. CASE ~served /\ ~(conf.used < MaxService)
    <3>1. conf.used = MaxService
      BY <1>3, <1>4, <2>3 DEF UsbDrivers
    <3>2. ~anew
      BY <2>3
    <3>. QED BY <1>6, <1>8, <2>3, <3>1, <3>2 DEF Calm
  <2>. QED BY <2>1, <2>2, <2>3
<1>12. Shaped'
  BY <1>1, <1>2, <1>8, <1>9, <1>10 DEF PipeKept, Shaped
<1>13. BytesOK'
  <2>1. /\ bulk' \in Bulks /\ (bulk'.outBuf = bulk.outBuf \/ bulk'.outBuf = <<>>)
    <3>1. <<>> \in Seq(Nat)
      OBVIOUS
    <3>. QED BY <1>1, <1>3, <3>1 DEF Bulks, BulkConfigured
  <2>. QED BY <1>1, <2>1, BytesSame DEF PipeKept, BytesOK
<1>14. ~anew => sped = driver.speed
  OBVIOUS
<1>15. RequestOK'
  <2>1. CASE anew
    <3>1. Asked' = Asked
      BY <1>1 DEF Asked
    <3>. QED BY <1>1, <1>8, <1>9, <2>1, <3>1 DEF PipeKept, Settles, RequestOK
  <2>2. CASE ~anew
    <3>. HIDE DEF anew
    <3>. QED BY <1>1, <1>6, <1>8, <1>9, <2>2 DEF PipeKept, Settles, RequestOK, Asked
  <2>. QED BY <2>1, <2>2
<1>16. SpeedOK'
  <2>. HIDE DEF anew, sped
  <2>. QED BY <1>6, <1>7, <1>8, <1>9, <1>14 DEF PipeKept, Settles, SpeedOK
<1>17. EventsOK' /\ AnswerOK'
  BY <1>10, <1>11 DEF EventsOK, AnswerOK
<1>18. SizeOK'
  <2>1. ASSUME os.at = "config" \/ (os.at = "status" /\ Asked = "conf") PROVE os.size = driver'.speed
    <3>1. os.size = driver.speed /\ Calm
      BY <2>1 DEF PipeKept, Settles, SizeOK
    <3>2. "config" \notin events
      BY <2>1 DEF PipeKept, Settles, EventsOK
    <3>3. ~served
      BY <1>3, <1>4, <3>1, <3>2 DEF Calm
    <3>. QED BY <1>8, <3>1, <3>3
  <2>2. ASSUME os.at = "done" PROVE driver'.configured => driver'.size = os.size
    <3>1. CASE anew
      BY <1>8, <3>1
    <3>2. CASE ~anew
      <4>1. CASE "config" \in events
        BY <1>4, <1>6, <1>8, <2>2, <3>2, <4>1 DEF PipeKept, Settles, SizeOK
      <4>2. CASE "config" \notin events
        BY <1>4, <1>6, <1>8, <2>2, <3>2, <4>2 DEF PipeKept, Settles, SizeOK
      <4>. QED BY <4>1, <4>2
    <3>. QED BY <3>1, <3>2
  <2>. QED BY <1>1, <1>10, <1>11, <2>1, <2>2 DEF SizeOK, Asked
<1>. QED BY <1>1, <1>12, <1>13, <1>15, <1>16, <1>17, <1>18, ToolSame DEF PipeKept, Settles

\* ep0_take_setup.
LEMMA SetupTaken ==
    ASSUME Shaped, Settles, dev.at = "ep0", TakeSetup, UNCHANGED <<gev, os>>, dev'.at = "rx",
           "at" \in DOMAIN dev'
    PROVE  Shaped' /\ Settles'
<1>. DEFINE what == ep0.setup
            e == [ep0 EXCEPT !.setup = "none", !.fifo = NoAnswer,
                             !.out = IF driver.phase = "setup" THEN @ ELSE "free"]
<1>1. what # "none" /\ HandleSetup(e, what)
  BY DEF TakeSetup
<1>2. driver \in UsbDrivers /\ ep0 \in Controls /\ what \in Setups
  BY <1>1 DEF Shaped, Controls
<1>3. NoAnswer \in Answers /\ NoAnswer.to = "none"
  BY DEF Answers, NoAnswer
<1>4. e \in Controls /\ e.setup = "none" /\ e.fifo = NoAnswer
  BY <1>2, <1>3 DEF Controls
<1>. HIDE DEF e
<1>5. ep0' \in Controls /\ ep0'.setup = "none" /\ ep0'.fifo = NoAnswer
  BY <1>1, <1>4 DEF HandleSetup, SendAnswer, Controls
<1>6. /\ Answer(what).to = what /\ (what = "conf" => Answer(what).size = driver.speed)
      /\ what \in Reads => Answer(what) \in Answers
  <2>. DEFINE z == IF what = "conf" THEN driver.speed ELSE 0
  <2>1. Answer(what) = [to |-> what, size |-> z]
    BY DEF Answer
  <2>2. z \in 0..2
    BY <1>2 DEF UsbDrivers
  <2>. QED BY <2>1, <2>2 DEF Answers
<1>7. /\ driver' \in UsbDrivers /\ driver'.speed = driver.speed /\ driver'.used = driver.used
      /\ driver'.configured = driver.configured /\ driver'.size = driver.size
      /\ \/ what \in Reads /\ driver'.phase = "token" /\ driver'.reply = Answer(what)
         \/ what \notin Reads /\ driver'.phase = "setup" /\ driver'.reply = driver.reply
  <2>. DEFINE a == Answer(what)
  <2>1. \/ what \in Reads /\ driver' = [driver EXCEPT !.phase = "token", !.reply = a]
        \/ what \notin Reads /\ driver' = [driver EXCEPT !.phase = "setup"]
    BY <1>1 DEF HandleSetup, SendAnswer, Reads
  <2>2. what \in Reads => a \in Answers
    BY <1>6
  <2>. HIDE DEF a, what
  <2>3. CASE what \in Reads /\ driver' = [driver EXCEPT !.phase = "token", !.reply = a]
    BY <1>2, <2>2, <2>3 DEF UsbDrivers, a
  <2>4. CASE what \notin Reads /\ driver' = [driver EXCEPT !.phase = "setup"]
    BY <1>2, <2>4 DEF UsbDrivers
  <2>. QED BY <2>1, <2>3, <2>4
<1>8. Asked' = Asked /\ (Calm' <=> Calm)
  BY <1>7 DEF Asked, Calm
<1>9. RequestOK'
  <2>1. ASSUME os.at = "data" PROVE Asked \in Reads /\ (driver'.phase = "token" => driver'.reply.to = Asked)
    <3>1. Asked \in Reads /\ what = Asked
      BY <1>1, <2>1 DEF Settles, RequestOK
    <3>. QED BY <1>6, <1>7, <3>1
  <2>. QED BY <1>5, <1>8, <2>1 DEF Settles, RequestOK
<1>10. SpeedOK'
  BY <1>3, <1>5, <1>6, <1>7 DEF Settles, SpeedOK
<1>11. EventsOK' /\ AnswerOK'
  BY <1>5 DEF Settles, EventsOK, AnswerOK
<1>12. SizeOK'
  BY <1>7, <1>8 DEF Settles, SizeOK
<1>13. Shaped'
  BY <1>5, <1>7 DEF Shaped
<1>. QED BY <1>9, <1>10, <1>11, <1>12, <1>13 DEF Settles

LEMMA StepEp0Poll ==
    ASSUME PipeKept, Ep0Poll
    PROVE  PipeKept'
<1>1. /\ dev.at = "ep0" /\ dev' = [dev EXCEPT !.at = "rx"]
      /\ UNCHANGED <<pipe, gev, bulk, os, host, seen>>
      /\ Ep0Work \/ UNCHANGED <<driver, ep0>>
  BY DEF Ep0Poll
<1>2. "at" \in DOMAIN dev' /\ dev'.at = "rx"
  BY <1>1, DevGoes DEF PipeKept, Shaped
<1>3. BytesOK'
  BY <1>1 DEF PipeKept, BytesOK, Total
<1>4. driver \in UsbDrivers /\ ep0 \in Controls
  BY DEF PipeKept, Shaped
<1>5. Shaped' /\ Settles'
  <2>1. CASE TakeSetup
    BY <1>1, <1>2, <2>1, SetupTaken DEF PipeKept
  <2>2. CASE UNCHANGED <<driver, ep0>>
    BY <1>1, <1>2, <2>2, SettlesSame DEF PipeKept, Shaped
  <2>3. CASE driver.phase = "token" /\ ~TakeSetup /\ Ep0Work
    <3>1. /\ ep0.setup = "none"
          /\ ep0' = [ep0 EXCEPT !.fifo = driver.reply, !.token = FALSE, !.sent = FALSE]
          /\ driver' = [driver EXCEPT !.phase = "data"]
      BY <2>3 DEF Ep0Work, WaitSetup, WaitToken, WaitData, WaitStatus
    <3>2. /\ ep0' \in Controls /\ ep0'.setup = "none" /\ ep0'.fifo = driver.reply
          /\ driver' \in UsbDrivers /\ driver'.phase = "data" /\ driver'.reply = driver.reply
          /\ driver'.speed = driver.speed /\ driver'.used = driver.used /\ driver'.configured = driver.configured
          /\ driver'.size = driver.size
      BY <1>4, <3>1 DEF Controls, UsbDrivers
    <3>3. Asked' = Asked /\ (Calm' <=> Calm)
      BY <1>1, <3>2 DEF Asked, Calm
    <3>4. RequestOK'
      BY <1>1, <2>3, <3>1, <3>2, <3>3, RequestList DEF PipeKept, Settles, RequestOK
    <3>5. SpeedOK'
      BY <3>2 DEF PipeKept, Settles, SpeedOK
    <3>6. EventsOK'
      BY <1>1, <3>1, <3>2 DEF PipeKept, Settles, EventsOK
    <3>7. AnswerOK'
      BY <1>1, <3>1, <3>3 DEF PipeKept, Settles, AnswerOK
    <3>8. SizeOK'
      BY <1>1, <3>2, <3>3 DEF PipeKept, Settles, SizeOK
    <3>9. Shaped'
      BY <1>1, <1>2, <3>2 DEF PipeKept, Shaped
    <3>. QED BY <3>4, <3>5, <3>6, <3>7, <3>8, <3>9 DEF Settles
  <2>4. CASE driver.phase \in {"data", "status"} /\ ~TakeSetup /\ Ep0Work
    <3>1. PICK o \in {"free", ep0.out}, s \in BOOLEAN, t \in BOOLEAN, k \in BOOLEAN,
               p \in {"data", "status", "setup"} :
             /\ ep0' = [ep0 EXCEPT !.out = o, !.sent = s, !.token = t, !.outNak = k]
             /\ driver' = [driver EXCEPT !.phase = p]
      <4>1. CASE /\ driver.phase = "data"
                 /\ ep0' = [ep0 EXCEPT !.sent = FALSE, !.token = FALSE,
                                       !.outNak = IF driver.error THEN @ ELSE FALSE]
                 /\ driver' = [driver EXCEPT !.phase = IF driver.error THEN @ ELSE "status"]
        <5>. DEFINE k == IF driver.error THEN ep0.outNak ELSE FALSE
                    p == IF driver.error THEN driver.phase ELSE "status"
        <5>1. /\ ep0' = [ep0 EXCEPT !.out = ep0.out, !.sent = FALSE, !.token = FALSE, !.outNak = k]
              /\ driver' = [driver EXCEPT !.phase = p]
          BY <1>4, <4>1 DEF Controls
        <5>2. k \in BOOLEAN /\ p \in {"data", "status", "setup"}
          BY <1>4, <4>1 DEF Controls
        <5>. HIDE DEF k, p
        <5>. QED BY <5>1, <5>2
      <4>2. CASE /\ ep0' = [ep0 EXCEPT !.out = "free"]
                 /\ driver' = [driver EXCEPT !.phase = "setup"]
        <5>1. ep0' = [ep0 EXCEPT !.out = "free", !.sent = ep0.sent, !.token = ep0.token,
                                 !.outNak = ep0.outNak]
          BY <1>4, <4>2 DEF Controls
        <5>2. ep0.sent \in BOOLEAN /\ ep0.token \in BOOLEAN /\ ep0.outNak \in BOOLEAN
          BY <1>4 DEF Controls
        <5>. QED BY <4>2, <5>1, <5>2
      <4>. QED BY <2>4, <4>1, <4>2 DEF Ep0Work, WaitSetup, WaitToken, WaitData, WaitStatus
    <3>2. /\ ep0' \in Controls /\ ep0'.setup = ep0.setup /\ ep0'.fifo = ep0.fifo
          /\ ep0'.inNak = ep0.inNak
          /\ driver' \in UsbDrivers /\ driver'.phase # "token" /\ driver'.reply = driver.reply
          /\ driver'.speed = driver.speed /\ driver'.used = driver.used /\ driver'.configured = driver.configured
          /\ driver'.size = driver.size
      BY <1>4, <3>1 DEF Controls, UsbDrivers
    <3>3. Asked' = Asked /\ (Calm' <=> Calm)
      BY <1>1, <3>2 DEF Asked, Calm
    <3>4. RequestOK'
      BY <1>1, <3>2, <3>3 DEF PipeKept, Settles, RequestOK
    <3>5. SpeedOK'
      BY <3>2 DEF PipeKept, Settles, SpeedOK
    <3>6. EventsOK' /\ AnswerOK'
      BY <1>1, <1>2, <3>2, <3>3 DEF PipeKept, Settles, EventsOK, AnswerOK
    <3>8. SizeOK'
      BY <1>1, <3>2, <3>3 DEF PipeKept, Settles, SizeOK
    <3>9. Shaped'
      BY <1>1, <1>2, <3>2 DEF PipeKept, Shaped
    <3>. QED BY <3>4, <3>5, <3>6, <3>8, <3>9 DEF Settles
  <2>. QED BY <1>1, <1>4, <2>1, <2>2, <2>3, <2>4 DEF Ep0Work, WaitSetup, WaitToken, WaitData, WaitStatus
<1>. QED BY <1>1, <1>3, <1>5, ToolSame DEF PipeKept

-----------------------------------------------------------------------------
(* The host's operating system.                                            *)

LEMMA StepBusReset ==
    ASSUME PipeKept, BusReset
    PROVE  PipeKept'
<1>1. /\ gev' = [gev EXCEPT !.latched = @ \cup {"reset"}]
      /\ ep0' = [ep0 EXCEPT !.fifo = NoAnswer, !.inNak = TRUE, !.outNak = TRUE]
      /\ bulk' = [on |-> FALSE, out |-> "free", outBuf |-> <<>>, in |-> "free", inBuf |-> <<>>]
      /\ seen' = [seen EXCEPT !.lost = @ \/ bulk.out = "done" \/ bulk.in = "armed"]
      /\ UNCHANGED <<pipe, driver, dev, host>>
  BY DEF BusReset
<1>2. os \in Systems /\ gev \in UsbEvents /\ ep0 \in Controls /\ MaxTroubles \in Nat
  BY PipeAssumption DEF PipeKept, Shaped
<1>3. os' \in Systems /\ os'.at = "speed"
  <2>. DEFINE v == os.attempt + 1
              w == os.troubles + 1
  <2>1. CASE os' = [os EXCEPT !.at = "speed", !.attempt = @ + 1, !.size = 0]
    <3>1. os' = [at |-> "speed", ask |-> os.ask, got |-> os.got, size |-> 0, attempt |-> v,
                 troubles |-> os.troubles]
      BY <1>2, <2>1 DEF Systems
    <3>2. v \in Nat
      BY <1>2 DEF Systems
    <3>. HIDE DEF v
    <3>. QED BY <1>2, <3>1, <3>2 DEF Systems
  <2>2. CASE Trouble /\ os' = [os EXCEPT !.at = "speed", !.troubles = @ + 1, !.size = 0]
    <3>1. os' = [at |-> "speed", ask |-> os.ask, got |-> os.got, size |-> 0,
                 attempt |-> os.attempt, troubles |-> w]
      BY <1>2, <2>2 DEF Systems
    <3>2. w \in 0..MaxTroubles
      BY <1>2, <2>2 DEF Systems, Trouble
    <3>. HIDE DEF w
    <3>. QED BY <1>2, <3>1, <3>2 DEF Systems
  <2>. QED BY <2>1, <2>2 DEF BusReset
<1>4. NoAnswer \in Answers /\ NoAnswer.to = "none"
  BY DEF Answers, NoAnswer
<1>5. ep0' \in Controls /\ ep0'.fifo = NoAnswer /\ gev' \in UsbEvents
  BY <1>1, <1>2, <1>4 DEF Controls, UsbEvents
<1>6. Shaped'
  BY <1>1, <1>3, <1>5 DEF PipeKept, Shaped
<1>7. BytesOK'
  <2>1. seen \in Tallies
    BY DEF PipeKept, BytesOK
  <2>. DEFINE l == seen.lost \/ bulk.out = "done" \/ bulk.in = "armed"
  <2>2. l \in BOOLEAN
    BY <2>1 DEF Tallies
  <2>3. seen' = [seen EXCEPT !.lost = l]
    BY <1>1
  <2>. HIDE DEF l
  <2>4. seen' \in Tallies /\ seen'.hostSent = seen.hostSent /\ seen'.devSent = seen.devSent
    BY <2>1, <2>2, <2>3 DEF Tallies
  <2>5. <<>> \in Seq(Nat)
    OBVIOUS
  <2>6. bulk' \in Bulks /\ bulk'.outBuf = <<>>
    BY <1>1, <2>5 DEF Bulks
  <2>. QED BY <1>1, <2>4, <2>6, BytesSame DEF PipeKept
<1>8. SpeedOK'
  BY <1>1, <1>4, <1>5 DEF PipeKept, Settles, SpeedOK
<1>9. RequestOK' /\ EventsOK' /\ AnswerOK' /\ SizeOK'
  BY <1>3 DEF RequestOK, EventsOK, AnswerOK, SizeOK
<1>. QED BY <1>1, <1>6, <1>7, <1>8, <1>9, ToolSame DEF PipeKept, Settles

\* Steps of the enumeration: no byte moves, and kos-tool and the loader stand.
LEMMA Enumerating ==
    ASSUME PipeKept, UNCHANGED <<pipe, driver, bulk, dev, host, seen>>
    PROVE  /\ BytesOK' /\ ToolOK'
           /\ gev' \in UsbEvents /\ ep0' \in Controls /\ os' \in Systems => Shaped'
           /\ os \in Systems /\ gev \in UsbEvents /\ ep0 \in Controls /\ driver \in UsbDrivers
<1>1. BytesOK'
  BY DEF PipeKept, BytesOK, Total
<1>. QED BY <1>1, ToolSame DEF PipeKept, Shaped

LEMMA StepSpeedKnown ==
    ASSUME PipeKept, SpeedKnown
    PROVE  PipeKept'
<1>1. PICK s \in {1, 2} :
         /\ os.at = "speed" /\ gev' = [latched |-> gev.latched \cup {"enum"}, speed |-> s]
         /\ os' = [os EXCEPT !.at = "ask", !.ask = 1]
         /\ UNCHANGED <<pipe, driver, ep0, bulk, dev, host, seen>>
  BY DEF SpeedKnown
<1>2. /\ BytesOK' /\ ToolOK' /\ (gev' \in UsbEvents /\ ep0' \in Controls /\ os' \in Systems => Shaped')
      /\ os \in Systems /\ gev \in UsbEvents /\ ep0 \in Controls
  BY <1>1, Enumerating
<1>3. gev' \in UsbEvents /\ os' \in Systems /\ os'.at = "ask" /\ os'.ask = 1 /\ ep0' = ep0
  <2>1. gev' \in UsbEvents
    BY <1>1, <1>2 DEF UsbEvents
  <2>2. os' \in Systems /\ os'.at = "ask" /\ os'.ask = 1
    <3>1. os' = [at |-> "ask", ask |-> 1, got |-> os.got, size |-> os.size,
                 attempt |-> os.attempt, troubles |-> os.troubles]
      BY <1>1, <1>2 DEF Systems
    <3>. QED BY <1>2, <3>1 DEF Systems
  <2>. QED BY <1>1, <2>1, <2>2
<1>4. SpeedOK'
  BY <1>1 DEF PipeKept, Settles, SpeedOK
<1>5. RequestOK' /\ EventsOK' /\ AnswerOK' /\ SizeOK'
  BY <1>3 DEF RequestOK, EventsOK, AnswerOK, SizeOK
<1>. QED BY <1>2, <1>3, <1>4, <1>5 DEF PipeKept, Settles

LEMMA StepSetup ==
    ASSUME PipeKept, Setup
    PROVE  PipeKept'
<1>1. /\ os.at = "ask" /\ ep0.setup = "none"
      /\ ep0' = [ep0 EXCEPT !.setup = Asked, !.inNak = TRUE, !.outNak = TRUE, !.stall = FALSE]
      /\ os' = [os EXCEPT !.at = IF Asked \in Reads THEN "data" ELSE "ack"]
      /\ UNCHANGED <<pipe, driver, gev, bulk, dev, host, seen>>
  BY DEF Setup
<1>2. /\ BytesOK' /\ ToolOK' /\ (gev' \in UsbEvents /\ ep0' \in Controls /\ os' \in Systems => Shaped')
      /\ os \in Systems /\ gev \in UsbEvents /\ ep0 \in Controls
  BY <1>1, Enumerating
<1>3. Asked \in Setups
  BY <1>2, RequestList DEF Asked, Systems
<1>4. /\ ep0' \in Controls /\ ep0'.setup = Asked /\ ep0'.inNak = TRUE /\ ep0'.fifo = ep0.fifo
      /\ os' \in Systems /\ os'.at = (IF Asked \in Reads THEN "data" ELSE "ack")
      /\ os'.ask = os.ask /\ gev' = gev
  <2>. DEFINE w == IF Asked \in Reads THEN "data" ELSE "ack"
              a == Asked
  <2>. HIDE DEF a
  <2>. QED BY <1>1, <1>2, <1>3 DEF Controls, Systems, a
<1>5. Asked' = Asked /\ Asked # "none"
  BY <1>3, <1>4, RequestList DEF Asked
<1>6. RequestOK'
  BY <1>4, <1>5 DEF RequestOK
<1>7. SpeedOK'
  BY <1>1, <1>4 DEF PipeKept, Settles, SpeedOK
<1>8. EventsOK'
  <2>1. ASSUME "config" \in gev.latched PROVE os.ask = 1 /\ Asked \in Reads
    BY <1>1, <2>1, RequestList DEF PipeKept, Settles, EventsOK, Asked
  <2>. QED BY <1>4, <1>5, <2>1 DEF EventsOK
<1>9. AnswerOK' /\ SizeOK'
  BY <1>4, <1>5 DEF AnswerOK, SizeOK
<1>. QED BY <1>2, <1>4, <1>6, <1>7, <1>8, <1>9, <1>1 DEF PipeKept, Settles

LEMMA StepInToken ==
    ASSUME PipeKept, InToken
    PROVE  PipeKept'
<1>1. /\ ep0' = [ep0 EXCEPT !.token = TRUE]
      /\ UNCHANGED <<pipe, driver, gev, bulk, dev, os, host, seen>>
  BY DEF InToken
<1>2. /\ BytesOK' /\ ToolOK' /\ (gev' \in UsbEvents /\ ep0' \in Controls /\ os' \in Systems => Shaped')
      /\ os \in Systems /\ gev \in UsbEvents /\ ep0 \in Controls
  BY <1>1, Enumerating
<1>3. ep0' \in Controls /\ ep0'.setup = ep0.setup /\ ep0'.fifo = ep0.fifo /\ ep0'.inNak = ep0.inNak
  BY <1>1, <1>2 DEF Controls
<1>4. Asked' = Asked /\ (Calm' <=> Calm)
  BY <1>1 DEF Asked, Calm
<1>5. RequestOK' /\ SpeedOK' /\ EventsOK' /\ AnswerOK' /\ SizeOK'
  BY <1>1, <1>3, <1>4 DEF PipeKept, Settles, RequestOK, SpeedOK, EventsOK, AnswerOK, SizeOK
<1>. QED BY <1>1, <1>2, <1>3, <1>5 DEF PipeKept, Settles

\* What the host reads is the answer to its request, with the sizes of the speed.
LEMMA StepInData ==
    ASSUME PipeKept, InData
    PROVE  PipeKept'
<1>1. /\ os.at = "data" /\ ~ep0.inNak /\ ep0.fifo # NoAnswer
      /\ ep0' = [ep0 EXCEPT !.fifo = NoAnswer, !.sent = TRUE]
      /\ os' = [os EXCEPT !.at = "status", !.got = ep0.fifo.to,
                          !.size = IF Asked = "conf" THEN ep0.fifo.size ELSE @]
      /\ UNCHANGED <<pipe, driver, gev, bulk, dev, host, seen>>
  BY DEF InData, CanIn
<1>2. /\ BytesOK' /\ ToolOK' /\ (gev' \in UsbEvents /\ ep0' \in Controls /\ os' \in Systems => Shaped')
      /\ os \in Systems /\ gev \in UsbEvents /\ ep0 \in Controls
  BY <1>1, Enumerating
<1>3. /\ Asked \in Reads /\ ep0.setup = "none" /\ ep0.fifo.to = Asked
  BY <1>1 DEF PipeKept, Settles, RequestOK
<1>4. ep0.fifo.to \in Reads /\ ep0.fifo.size \in 0..2
  BY <1>1, <1>2 DEF Controls, Answers
<1>5. NoAnswer \in Answers /\ NoAnswer.to = "none"
  BY DEF Answers, NoAnswer
<1>. DEFINE z == IF Asked = "conf" THEN ep0.fifo.size ELSE os.size
            g == ep0.fifo.to
<1>6. z \in 0..2
  BY <1>2, <1>4 DEF Systems
<1>7. /\ ep0' \in Controls /\ ep0'.fifo = NoAnswer /\ ep0'.setup = "none"
      /\ os' \in Systems /\ os'.at = "status" /\ os'.got = Asked /\ os'.size = z
      /\ os'.ask = os.ask
  <2>1. os' = [os EXCEPT !.at = "status", !.got = g, !.size = z]
    BY <1>1
  <2>2. g \in Reads /\ g = Asked
    BY <1>3, <1>4
  <2>. HIDE DEF z, g
  <2>. QED BY <1>1, <1>2, <1>3, <1>5, <1>6, <2>1, <2>2 DEF Controls, Systems
<1>8. Asked' = Asked /\ (Calm' <=> Calm)
  BY <1>1, <1>7 DEF Asked, Calm
<1>9. RequestOK'
  BY <1>7, <1>8 DEF RequestOK
<1>10. SpeedOK'
  BY <1>1, <1>5, <1>7 DEF PipeKept, Settles, SpeedOK
<1>11. Calm /\ "config" \notin gev.latched
  BY <1>1, <1>3 DEF PipeKept, Settles, AnswerOK, EventsOK
<1>12. EventsOK' /\ AnswerOK'
  BY <1>1, <1>7, <1>11 DEF EventsOK, AnswerOK
<1>13. SizeOK'
  <2>1. Asked = "conf" => z = driver.speed
    BY <1>3 DEF PipeKept, Settles, SpeedOK
  <2>. HIDE DEF z
  <2>. QED BY <1>1, <1>7, <1>8, <1>11, <2>1 DEF SizeOK
<1>. QED BY <1>1, <1>2, <1>7, <1>9, <1>10, <1>12, <1>13 DEF PipeKept, Settles

\* The host asks for something, or has asked for everything.
LEMMA AskAgain ==
    ASSUME PipeKept, UNCHANGED <<pipe, driver, gev, bulk, dev, host, seen>>,
           ep0' \in Controls, ep0'.fifo = ep0.fifo, os' \in Systems, os'.at \in {"ask", "config"},
           "config" \in gev.latched => os'.at = "ask" /\ os'.ask = 1,
           os'.at = "config" => os'.size = driver.speed /\ Calm
    PROVE  PipeKept'
<1>1. BytesOK' /\ ToolOK' /\ Shaped'
  BY Enumerating
<1>2. Calm' <=> Calm
  BY DEF Calm
<1>3. RequestOK' /\ SpeedOK' /\ AnswerOK'
  BY DEF PipeKept, Settles, RequestOK, SpeedOK, AnswerOK
<1>4. EventsOK' /\ SizeOK'
  BY <1>2 DEF EventsOK, SizeOK
<1>. QED BY <1>1, <1>3, <1>4 DEF PipeKept, Settles

LEMMA NextAsked ==
    ASSUME NEW o \in Systems
    PROVE  /\ NextRequest(o) \in Systems /\ NextRequest(o).size = o.size
           /\ NextRequest(o).at = (IF o.ask = 5 THEN "config" ELSE "ask")
<1>1. o.ask \in 1..5 /\ o.size \in 0..2 /\ o.attempt \in Nat /\ o.troubles \in 0..MaxTroubles
  BY DEF Systems
<1>2. CASE o.ask = 5
  <2>1. NextRequest(o) = [at |-> "config", ask |-> 1, got |-> "none", size |-> o.size,
                          attempt |-> o.attempt, troubles |-> o.troubles]
    BY <1>2, RequestList DEF NextRequest, Systems
  <2>. QED BY <1>1, <1>2, <2>1 DEF Systems
<1>3. CASE o.ask # 5
  <2>. DEFINE v == o.ask + 1
  <2>1. NextRequest(o) = [at |-> "ask", ask |-> v, got |-> "none", size |-> o.size,
                          attempt |-> o.attempt, troubles |-> o.troubles]
    BY <1>3, RequestList DEF NextRequest, Systems
  <2>2. v \in 1..5
    BY <1>1, <1>3
  <2>. HIDE DEF v
  <2>. QED BY <1>1, <1>3, <2>1, <2>2 DEF Systems
<1>. QED BY <1>2, <1>3

LEMMA StepStatus ==
    ASSUME PipeKept, StatusOut \/ StatusIn
    PROVE  PipeKept'
<1>1. /\ os' = NextRequest(os) /\ UNCHANGED <<pipe, driver, gev, bulk, dev, host, seen>>
      /\ ep0' = ep0 \/ ep0' = [ep0 EXCEPT !.out = "done"]
      /\ os.at = "status" \/ (os.at = "ack" /\ Asked \notin Reads)
  BY DEF StatusOut, StatusIn, CanStatusOut, CanStatusIn, PipeKept, Settles, RequestOK
<1>2. os \in Systems /\ ep0 \in Controls
  BY DEF PipeKept, Shaped
<1>3. ep0' \in Controls /\ ep0'.fifo = ep0.fifo
  BY <1>1, <1>2 DEF Controls
<1>4. /\ os' \in Systems /\ os'.size = os.size
      /\ os'.at = (IF os.ask = 5 THEN "config" ELSE "ask")
  BY <1>1, <1>2, NextAsked
<1>5. "config" \notin gev.latched
  BY <1>1 DEF PipeKept, Settles, EventsOK
<1>6. ASSUME os'.at = "config" PROVE os'.size = driver.speed /\ Calm
  <2>1. Asked = "conf" /\ os.at = "status"
    BY <1>1, <1>4, <1>6, RequestList DEF Asked
  <2>. QED BY <1>4, <2>1 DEF PipeKept, Settles, SizeOK
<1>. QED BY <1>1, <1>3, <1>4, <1>5, <1>6, AskAgain

\* A transfer given up: the first request is not left out.
LEMMA StepGivesUp ==
    ASSUME PipeKept, AbandonTransfer \/ ControlTimeout
    PROVE  PipeKept'
<1>1. PICK o \in {os, [os EXCEPT !.troubles = @ + 1]} :
         /\ o = os \/ Trouble
         /\ os' = [o EXCEPT !.at = "ask", !.got = "none"]
            \/ (Asked \in Optional /\ os' = NextRequest(o))
  BY DEF AbandonTransfer, ControlTimeout, GiveUp
<1>2. /\ os.at \in {"data", "ack", "status"}
      /\ UNCHANGED <<pipe, driver, gev, ep0, bulk, dev, host, seen>>
  BY DEF AbandonTransfer, ControlTimeout
<1>3. os \in Systems /\ ep0 \in Controls /\ MaxTroubles \in Nat
  BY PipeAssumption DEF PipeKept, Shaped
<1>4. o \in Systems /\ o.ask = os.ask
  <2>. DEFINE w == os.troubles + 1
  <2>1. CASE o # os
    <3>1. o = [at |-> os.at, ask |-> os.ask, got |-> os.got, size |-> os.size,
               attempt |-> os.attempt, troubles |-> w]
      BY <1>1, <1>3, <2>1 DEF Systems
    <3>2. w \in 0..MaxTroubles
      BY <1>1, <1>3, <2>1 DEF Systems, Trouble
    <3>. HIDE DEF w
    <3>. QED BY <1>3, <3>1, <3>2 DEF Systems
  <2>. QED BY <1>3, <2>1
<1>5. /\ os' \in Systems /\ os'.at = "ask"
      /\ "config" \in gev.latched => os'.ask = 1
  <2>1. "config" \in gev.latched => os.ask = 1
    BY <1>2 DEF PipeKept, Settles, EventsOK
  <2>2. CASE os' = [o EXCEPT !.at = "ask", !.got = "none"]
    <3>1. os' = [at |-> "ask", ask |-> o.ask, got |-> "none", size |-> o.size,
                 attempt |-> o.attempt, troubles |-> o.troubles]
      BY <1>4, <2>2 DEF Systems
    <3>. QED BY <1>4, <2>1, <3>1 DEF Systems
  <2>3. CASE Asked \in Optional /\ os' = NextRequest(o)
    <3>1. o.ask # 5 /\ os.ask # 1
      BY <1>4, <2>3, RequestList DEF Asked, Optional
    <3>. QED BY <1>4, <2>1, <2>3, <3>1, NextAsked
  <2>. QED BY <1>1, <2>2, <2>3
<1>. QED BY <1>2, <1>3, <1>5, AskAgain

\* SET_CONFIGURATION: the sizes the host has read are applied unless a reset comes first.
LEMMA StepSetConfig ==
    ASSUME PipeKept, SetConfig
    PROVE  PipeKept'
<1>1. PICK e \in {{"config"}, {"config", "intf"}} :
         gev' = [gev EXCEPT !.latched = @ \cup e]
  BY DEF SetConfig
<1>2. /\ os.at = "config" /\ os' = [os EXCEPT !.at = "done", !.troubles = 0]
      /\ UNCHANGED <<pipe, driver, ep0, bulk, dev, host, seen>>
  BY DEF SetConfig
<1>3. /\ BytesOK' /\ ToolOK' /\ (gev' \in UsbEvents /\ ep0' \in Controls /\ os' \in Systems => Shaped')
      /\ os \in Systems /\ gev \in UsbEvents /\ ep0 \in Controls
  BY <1>2, Enumerating
<1>4. os' \in Systems /\ os'.at = "done" /\ os'.size = os.size
  <2>1. os' = [at |-> "done", ask |-> os.ask, got |-> os.got, size |-> os.size,
               attempt |-> os.attempt, troubles |-> 0]
    BY <1>2, <1>3 DEF Systems
  <2>2. 0 \in 0..MaxTroubles
    BY PipeAssumption
  <2>. QED BY <1>3, <2>1, <2>2 DEF Systems
<1>5. gev' \in UsbEvents /\ "config" \in gev'.latched
  <2>. DEFINE l == gev.latched \cup e
  <2>1. l \subseteq {"reset", "enum", "config", "intf"} /\ "config" \in l
    BY <1>1, <1>3 DEF UsbEvents
  <2>. HIDE DEF l
  <2>2. gev' = [gev EXCEPT !.latched = l]
    BY <1>1 DEF l
  <2>. QED BY <1>3, <2>1, <2>2 DEF UsbEvents
<1>6. SpeedOK'
  BY <1>2 DEF PipeKept, Settles, SpeedOK
<1>7. RequestOK' /\ EventsOK' /\ AnswerOK'
  BY <1>4 DEF RequestOK, EventsOK, AnswerOK
<1>8. SizeOK'
  BY <1>2, <1>4, <1>5 DEF PipeKept, Settles, SizeOK
<1>. QED BY <1>2, <1>3, <1>4, <1>5, <1>6, <1>7, <1>8 DEF PipeKept, Settles

-----------------------------------------------------------------------------
(* kos-tool.                                                               *)

\* What is said on the pipe, piece by piece.
LEMMA Joined ==
    ASSUME NEW a \in Seq(Ops), NEW b \in Seq(Ops)
    PROVE  a \o b \in Seq(Ops) /\ Len(a \o b) = Len(a) + Len(b)
BY ConcatProperties

LEMMA Repeated ==
    ASSUME NEW k \in Nat, NEW x \in Ops
    PROVE  Times(k, x) \in Seq(Ops)
<1>1. Times(k, x) = [i \in 1..k |-> x]
  BY DEF Times
<1>. HIDE DEF Ops
<1>. QED BY <1>1

LEMMA Scripts ==
    ASSUME NEW t \in Talks
    PROVE  HostOps(t) \in Seq(Ops) /\ Len(HostOps(t)) >= 1
<1>1. Word \in Nat \ {0} /\ Block \in Nat \ {0} /\ t \in {"upload", "run", "update"}
  BY PipeAssumption
<1>2. /\ Write(1) \in Ops /\ Read(1) \in Ops /\ Write(Block) \in Ops /\ Read(Block) \in Ops
      /\ Probe(Word) \in Ops
  BY <1>1 DEF Ops, Write, Read, Probe
<1>. HIDE DEF Ops
<1>3. Times(Word, Write(1)) \in Seq(Ops) /\ Times(Word, Read(1)) \in Seq(Ops)
  BY <1>1, <1>2, Repeated
<1>4. SendUint \in Seq(Ops) /\ RecvUint \in Seq(Ops)
  BY <1>3, Joined DEF SendUint, RecvUint
<1>5. Command \in Seq(Ops) /\ Len(Command) = 2
  BY <1>2 DEF Command
<1>6. LzoSend \in Seq(Ops)
  <2>1. <<Write(1)>> \in Seq(Ops) /\ <<Write(Block), Write(1), Read(1)>> \in Seq(Ops)
    BY <1>2
  <2>. QED BY <1>4, <2>1, Joined DEF LzoSend
<1>7. LzoRecv \in Seq(Ops)
  <2>1. <<Read(1)>> \in Seq(Ops) /\ <<Read(Block), Read(1), Write(1)>> \in Seq(Ops)
    BY <1>2
  <2>. QED BY <1>4, <2>1, Joined DEF LzoRecv
<1>8. SyscallWrite \in Seq(Ops) /\ SyscallExit \in Seq(Ops)
  <2>1. <<Read(1)>> \in Seq(Ops) /\ SyscallExit \in Seq(Ops)
    BY <1>2 DEF SyscallExit
  <2>2. <<Read(1)>> \o RecvUint \in Seq(Ops)
    BY <1>4, <2>1, Joined
  <2>3. <<Read(1)>> \o RecvUint \o RecvUint \in Seq(Ops)
    BY <1>4, <2>2, Joined
  <2>4. <<Read(1)>> \o RecvUint \o RecvUint \o LzoRecv \in Seq(Ops)
    BY <1>7, <2>3, Joined
  <2>. QED BY <1>4, <2>1, <2>4, Joined DEF SyscallWrite
<1>9. /\ SendUint \o SendUint \in Seq(Ops) /\ SendUint \o SendUint \o LzoSend \in Seq(Ops)
      /\ SendUint \o SendUint \o SyscallWrite \o SyscallExit \in Seq(Ops)
  <2>1. SendUint \o SendUint \in Seq(Ops)
    BY <1>4, Joined
  <2>2. SendUint \o SendUint \o SyscallWrite \in Seq(Ops)
    BY <1>8, <2>1, Joined
  <2>. QED BY <1>6, <1>8, <2>1, <2>2, Joined
<1>10. \E rest \in Seq(Ops) : HostOps(t) = Command \o rest
  BY <1>1, <1>9 DEF HostOps
<1>. QED BY <1>5, <1>10, Joined

\* The operation kos-tool is at.
LEMMA AtOp ==
    ASSUME ToolOK, host.talk # "none"
    PROVE  /\ host.talk \in Talks /\ host.op \in 1..Len(HostOps(host.talk))
           /\ HostOp \in Ops
<1>1. host.talk \in Talks /\ host.op \in 1..Len(HostOps(host.talk))
  BY DEF ToolOK, Tools
<1>. QED BY <1>1, Scripts DEF HostOp

\* kos-tool's state in an exchange.
InTalk(h) ==
    /\ h \in Tools /\ h.talk # "none" /\ h.op \in 1..Len(HostOps(h.talk))

\* The tool goes on to its next operation.
LEMMA NextOp ==
    ASSUME NEW h, InTalk(h), host' = HostNext(h), h.urb = "none", h.got = <<>>,
           Len(h.buf) <= 2 * MaxPkt
    PROVE  ToolOK'
<1>. DEFINE ops == HostOps(h.talk)
<1>1. /\ h \in Tools /\ h.talk \in Talks /\ h.op \in 1..Len(ops) /\ ops \in Seq(Ops)
      /\ Len(ops) \in Nat
  BY Scripts DEF InTalk, Tools
<1>2. CASE h.op = Len(ops)
  <2>1. host' = [talk |-> "none", op |-> 1, left |-> 0, buf |-> h.buf, urb |-> h.urb,
                 got |-> h.got, probed |-> FALSE, talks |-> h.talks, tries |-> 0, stalls |-> 0]
    BY <1>1, <1>2 DEF HostNext, Tools
  <2>2. host' \in Tools
    BY <1>1, <2>1 DEF Tools
  <2>. QED BY <2>1, <2>2 DEF ToolOK, Doing, Tools
<1>3. CASE h.op # Len(ops)
  <2>. DEFINE j == h.op + 1
              v == ops[j].n
  <2>1. host' = [talk |-> h.talk, op |-> j, left |-> v, buf |-> h.buf, urb |-> h.urb,
                 got |-> h.got, probed |-> FALSE, talks |-> h.talks, tries |-> 0,
                 stalls |-> h.stalls]
    BY <1>1, <1>3 DEF HostNext, Tools
  <2>2. j \in 1..Len(ops) /\ j \in Nat
    BY <1>1, <1>3
  <2>3. v \in Nat \ {0}
    <3>1. ops[j] \in Ops
      BY <1>1, <2>2
    <3>. QED BY <3>1 DEF Ops
  <2>. HIDE DEF v, j
  <2>4. host' \in Tools
    BY <1>1, <2>1, <2>2, <2>3 DEF Tools
  <2>. QED BY <1>1, <2>1, <2>2, <2>3, <2>4 DEF ToolOK, Doing, Tools
<1>. QED BY <1>2, <1>3

\* Steps of kos-tool alone.
LEMMA ToolOnly ==
    ASSUME PipeKept, UNCHANGED <<pipe, driver, gev, ep0, dev, os>>, BytesOK', ToolOK'
    PROVE  PipeKept'
<1>1. Shaped' /\ Settles'
  BY SettlesSame DEF PipeKept, Shaped
<1>. QED BY <1>1 DEF PipeKept

LEMMA StepStartTalk ==
    ASSUME PipeKept, StartTalk
    PROVE  PipeKept'
<1>1. PICK t \in Talks :
         host' = [host EXCEPT !.talk = t, !.op = 1, !.left = HostOps(t)[1].n, !.talks = @ + 1]
  BY DEF StartTalk
<1>2. host.talk = "none" /\ UNCHANGED <<pipe, driver, gev, ep0, bulk, dev, os, seen>>
  BY DEF StartTalk
<1>3. /\ host \in Tools /\ host.urb = "none" /\ host.got = <<>> /\ ~host.probed
      /\ Len(host.buf) + Len(host.got) <= 2 * MaxPkt
  BY <1>2 DEF PipeKept, ToolOK, Doing, Tools
<1>. DEFINE v == HostOps(t)[1].n
            w == host.talks + 1
<1>4. v \in Nat \ {0} /\ w \in Nat /\ 1 \in 1..Len(HostOps(t))
  <2>1. HostOps(t)[1] \in Ops /\ 1 \in 1..Len(HostOps(t))
    BY Scripts
  <2>. QED BY <1>3, <2>1 DEF Ops, Tools
<1>5. host' = [talk |-> t, op |-> 1, left |-> v, buf |-> host.buf, urb |-> host.urb,
               got |-> host.got, probed |-> host.probed, talks |-> w, tries |-> host.tries,
               stalls |-> host.stalls]
  BY <1>1, <1>3 DEF Tools
<1>. HIDE DEF v, w
<1>6. host' \in Tools
  BY <1>3, <1>4, <1>5 DEF Tools
<1>7. ToolOK'
  BY <1>3, <1>4, <1>5, <1>6 DEF ToolOK, Tools
<1>8. BytesOK'
  BY <1>2 DEF PipeKept, BytesOK, Total
<1>. QED BY <1>2, <1>7, <1>8, ToolOnly

LEMMA StepQuitTalk ==
    ASSUME PipeKept, QuitTalk
    PROVE  PipeKept'
<1>1. /\ host' = [host EXCEPT !.talk = "none", !.op = 1, !.left = 0, !.buf = <<>>, !.got = <<>>,
                              !.urb = "none", !.tries = 0, !.stalls = 0, !.probed = FALSE]
      /\ UNCHANGED <<pipe, driver, gev, ep0, bulk, dev, os, seen>>
  BY DEF QuitTalk
<1>2. host \in Tools
  BY DEF PipeKept, ToolOK
<1>3. host' = [talk |-> "none", op |-> 1, left |-> 0, buf |-> <<>>, urb |-> "none",
               got |-> <<>>, probed |-> FALSE, talks |-> host.talks, tries |-> 0, stalls |-> 0]
  BY <1>1, <1>2 DEF Tools
<1>4. host' \in Tools
  BY <1>2, <1>3 DEF Tools
<1>5. ToolOK'
  BY <1>3, <1>4, Sized DEF ToolOK, Doing
<1>6. BytesOK'
  BY <1>1 DEF PipeKept, BytesOK, Total
<1>. QED BY <1>1, <1>5, <1>6, ToolOnly

\* The tool stays at its operation.
LEMMA SameOp ==
    ASSUME ToolOK, NEW h, h \in Tools, h.talk = host.talk, h.op = host.op, host' = h,
           h.urb = "in" => Doing("probe") \/ (Doing("read") /\ h.buf = <<>>),
           Len(h.buf) + Len(h.got) <= 2 * MaxPkt,
           h.urb = "none" => h.got = <<>>,
           Doing("read") \/ Doing("write") => h.left >= 1,
           h.probed => Doing("probe") /\ h.urb = "none"
    PROVE  ToolOK'
<1>1. HostOp' = HostOp
  BY DEF HostOp
<1>2. \A x : Doing(x)' = Doing(x)
  BY <1>1 DEF Doing
<1>3. h.talk # "none" => h.op \in 1..Len(HostOps(h.talk))
  BY DEF ToolOK
<1>. QED BY <1>2, <1>3 DEF ToolOK

\* Bytes of the operation have gone, or have come.
LEMMA LessLeft ==
    ASSUME ToolOK, host.talk # "none", NEW h, h \in Tools, h.talk = host.talk, h.op = host.op,
           h.urb = "none", h.got = <<>>, Len(h.buf) <= 2 * MaxPkt,
           h.probed => Doing("probe"), Doing("read") \/ Doing("write") => h.left >= 0,
           host' = IF h.left = 0 THEN HostNext(h) ELSE h
    PROVE  ToolOK'
<1>1. InTalk(h)
  BY AtOp DEF InTalk
<1>2. CASE h.left = 0
  BY <1>1, <1>2, NextOp
<1>3. CASE h.left # 0
  <2>1. Len(h.buf) + Len(h.got) <= 2 * MaxPkt
    BY DEF Tools
  <2>2. Doing("read") \/ Doing("write") => h.left >= 1
    BY <1>3 DEF Tools
  <2>. QED BY <1>3, <2>1, <2>2, SameOp
<1>. QED BY <1>2, <1>3

\* usb_write: the packet holds the next bytes in the order they are sent.
LEMMA Packet ==
    ASSUME PipeKept, NEW result \in {"done", "failed"}, OutPacket(result),
           seen'.hostSent = seen.hostSent + Lesser(MaxPkt, host.left), seen' \in Tallies,
           seen'.devSent = seen.devSent, UNCHANGED pipe
    PROVE  BytesOK' /\ ToolOK'
<1>. DEFINE k == Lesser(MaxPkt, host.left)
            s == seen.hostSent
            b == [i \in 1..k |-> s + i]
            h == [host EXCEPT !.left = @ - k, !.tries = 0]
            n == Total + k
<1>1. /\ Doing("write") /\ bulk' = [bulk EXCEPT !.out = result, !.outBuf = b]
      /\ host' = IF h.left = 0 THEN HostNext(h) ELSE h
  BY DEF OutPacket, CanOut
<1>2. /\ host \in Tools /\ host.talk # "none" /\ host.left >= 1 /\ seen \in Tallies
      /\ bulk \in Bulks /\ PipeAt(pipe, Total)
  BY <1>1 DEF PipeKept, ToolOK, BytesOK, Doing
<1>3. k \in Nat /\ k <= host.left
  BY <1>2, Sized DEF Lesser, Tools
<1>4. /\ n \in Nat /\ Total \in Nat /\ Total <= n /\ Total' = n /\ s \in Nat /\ s + k <= n
  <2>. HIDE DEF k
  <2>. QED BY <1>2, <1>3 DEF Total, Tallies, k
<1>5. b \in Seq(0..n) /\ b \in Seq(Nat)
  <2>1. \A i \in 1..k : s + i \in 0..n /\ s + i \in Nat
    <3>. HIDE DEF k, s, n
    <3>. QED BY <1>3, <1>4
  <2>. DEFINE e(i) == s + i
  <2>2. \A i \in 1..k : e(i) \in 0..n /\ e(i) \in Nat
    BY <2>1
  <2>3. b = [i \in 1..k |-> e(i)]
    OBVIOUS
  <2>. HIDE DEF e, k, s, n, b
  <2>. QED BY <1>3, <2>2, <2>3
<1>6. BytesOK'
  <2>1. PipeAt(pipe', n)
    <3>. HIDE DEF n
    <3>. QED BY <1>2, <1>4, Widen DEF PipeAt
  <2>. HIDE DEF b, n
  <2>2. bulk' \in Bulks /\ bulk'.outBuf = b
    BY <1>1, <1>2, <1>5 DEF Bulks
  <2>. QED BY <1>4, <1>5, <2>1, <2>2 DEF BytesOK
<1>7. ToolOK'
  <2>. DEFINE v == host.left - k
  <2>1. v \in Int /\ v >= 0
    <3>. HIDE DEF k
    <3>. QED BY <1>2, <1>3 DEF Tools
  <2>2. h = [talk |-> host.talk, op |-> host.op, left |-> v, buf |-> host.buf, urb |-> host.urb,
             got |-> host.got, probed |-> host.probed, talks |-> host.talks, tries |-> 0,
             stalls |-> host.stalls]
    <3>1. h = [host EXCEPT !.left = v, !.tries = 0]
      BY <1>2 DEF Tools
    <3>. HIDE DEF h, v
    <3>. QED BY <1>2, <3>1 DEF Tools
  <2>. HIDE DEF v, h
  <2>3. h \in Tools
    BY <1>2, <2>1, <2>2 DEF Tools
  <2>4. /\ host.urb = "none" /\ host.got = <<>> /\ ~host.probed
        /\ Len(host.buf) + Len(host.got) <= 2 * MaxPkt
    BY <1>1, <1>2 DEF PipeKept, ToolOK, Doing, Tools
  <2>5. Len(host.buf) <= 2 * MaxPkt
    BY <1>2, <2>4 DEF Tools
  <2>. QED BY <1>1, <1>2, <2>1, <2>2, <2>3, <2>4, <2>5, LessLeft DEF PipeKept
<1>. QED BY <1>6, <1>7

LEMMA StepBusOut ==
    ASSUME PipeKept, BusOut \/ BusOutFails
    PROVE  PipeKept'
<1>. DEFINE k == Lesser(MaxPkt, host.left)
            v == seen.hostSent + k
<1>1. PICK result \in {"done", "failed"}, l \in BOOLEAN :
         /\ OutPacket(result) /\ seen' = [seen EXCEPT !.hostSent = v, !.lost = l]
         /\ UNCHANGED <<pipe, driver, gev, ep0, dev, os>>
  <2>1. seen \in Tallies
    BY DEF PipeKept, BytesOK
  <2>2. CASE BusOut
    <3>1. seen' = [seen EXCEPT !.hostSent = v, !.lost = seen.lost] /\ seen.lost \in BOOLEAN
      BY <2>1, <2>2 DEF BusOut, Tallies
    <3>. QED BY <2>2, <3>1 DEF BusOut
  <2>3. CASE BusOutFails
    BY <2>3 DEF BusOutFails
  <2>. QED BY <2>2, <2>3
<1>2. k \in Nat /\ seen \in Tallies
  <2>1. host.left \in Int /\ host.left >= 1 /\ seen \in Tallies
    BY <1>1 DEF PipeKept, ToolOK, BytesOK, OutPacket, CanOut, Tools
  <2>. QED BY <2>1, Sized DEF Lesser
<1>3. /\ seen' \in Tallies /\ seen'.hostSent = seen.hostSent + k
      /\ seen'.devSent = seen.devSent
  <2>1. v \in Nat
    <3>. HIDE DEF k
    <3>. QED BY <1>2 DEF Tallies
  <2>2. seen'.hostSent = v /\ seen' \in Tallies /\ seen'.devSent = seen.devSent
    <3>. HIDE DEF v
    <3>. QED BY <1>1, <1>2, <2>1 DEF Tallies
  <2>. QED BY <2>2
<1>4. BytesOK' /\ ToolOK'
  BY <1>1, <1>3, Packet
<1>. QED BY <1>1, <1>4, ToolOnly

\* A bulk OUT transfer that makes no progress.
LEMMA StepWriteTimeout ==
    ASSUME PipeKept, WriteTimeout
    PROVE  PipeKept'
<1>. DEFINE h == [host EXCEPT !.stalls = @ + 1, !.tries = @ + 1]
            v == host.stalls + 1
            w == host.tries + 1
<1>1. /\ Doing("write") /\ host' = (IF h.tries <= StallRetries THEN h ELSE HostNext(h))
      /\ UNCHANGED <<pipe, driver, gev, ep0, bulk, dev, os, seen>>
  BY DEF WriteTimeout
<1>2. /\ host \in Tools /\ host.talk # "none" /\ host.left >= 1
      /\ host.urb = "none" /\ host.got = <<>> /\ ~host.probed
      /\ Len(host.buf) + Len(host.got) <= 2 * MaxPkt
  BY <1>1 DEF PipeKept, ToolOK, Doing, Tools
<1>3. h = [talk |-> host.talk, op |-> host.op, left |-> host.left, buf |-> host.buf,
           urb |-> host.urb, got |-> host.got, probed |-> host.probed, talks |-> host.talks,
           tries |-> w, stalls |-> v]
  <2>1. h = [host EXCEPT !.stalls = v, !.tries = w]
    BY <1>2 DEF Tools
  <2>. HIDE DEF h, v, w
  <2>. QED BY <1>2, <2>1 DEF Tools
<1>4. v \in Nat /\ w \in Nat
  BY <1>2 DEF Tools
<1>. HIDE DEF v, w, h
<1>5. h \in Tools
  BY <1>2, <1>3, <1>4 DEF Tools
<1>6. Len(h.buf) <= 2 * MaxPkt /\ Len(h.buf) + Len(h.got) <= 2 * MaxPkt
  BY <1>2, <1>3, <1>5 DEF Tools
<1>7. ToolOK'
  <2>1. CASE host' = h
    <3>1. /\ h.talk = host.talk /\ h.op = host.op /\ h.urb = "none" /\ h.got = <<>>
          /\ h.left >= 1 /\ ~h.probed
      BY <1>2, <1>3
    <3>. QED BY <1>5, <1>6, <2>1, <3>1, SameOp DEF PipeKept
  <2>2. CASE host' = HostNext(h)
    <3>1. InTalk(h)
      BY <1>2, <1>3, <1>5, AtOp DEF PipeKept, InTalk
    <3>. QED BY <1>2, <1>3, <1>6, <2>2, <3>1, NextOp
  <2>. QED BY <1>1, <2>1, <2>2
<1>8. BytesOK'
  BY <1>1 DEF PipeKept, BytesOK, Total
<1>. QED BY <1>1, <1>7, <1>8, ToolOnly

\* Bytes of the buffer are read.
LEMMA Reading ==
    ASSUME PipeKept, Doing("read") \/ (Doing("probe") /\ host.probed), NEW k \in 1..Len(host.buf),
           Doing("read") => k <= host.left, host.urb = "none", Taken(k),
           UNCHANGED <<pipe, driver, gev, ep0, bulk, dev, os>>
    PROVE  PipeKept'
<1>. DEFINE c == host.buf
            b == SubSeq(c, k + 1, Len(c))
            v == host.left - k
            h == [host EXCEPT !.left = @ - k, !.buf = SubSeq(@, k + 1, Len(@))]
<1>1. /\ seen' = [seen EXCEPT !.hostGot = @ + k, !.hostLast = c[k]]
      /\ host' = IF h.left = 0 THEN HostNext(h) ELSE h
  BY DEF Taken
<1>2. /\ host \in Tools /\ host.talk # "none" /\ host.got = <<>> /\ c \in Seq(Nat)
      /\ Len(host.buf) + Len(host.got) <= 2 * MaxPkt /\ seen \in Tallies /\ Len(c) \in Nat
      /\ k \in Nat /\ k <= Len(c) /\ k >= 1
  BY DEF PipeKept, ToolOK, BytesOK, Doing, Tools
<1>3. b \in Seq(Nat) /\ Len(b) <= Len(c)
  <2>1. \A i \in k + 1..Len(c) : c[i] \in Nat
    BY <1>2
  <2>. HIDE DEF c
  <2>2. b \in Seq(Nat) /\ Len(b) = IF k + 1 <= Len(c) THEN Len(c) - (k + 1) + 1 ELSE 0
    BY <1>2, <2>1, SubSeqProperties
  <2>. QED BY <1>2, <2>2
<1>4. v \in Int /\ (Doing("read") => v >= 0)
  BY <1>2 DEF Tools
<1>5. h = [talk |-> host.talk, op |-> host.op, left |-> v, buf |-> b, urb |-> host.urb,
           got |-> host.got, probed |-> host.probed, talks |-> host.talks,
           tries |-> host.tries, stalls |-> host.stalls]
  <2>1. h = [host EXCEPT !.left = v, !.buf = b]
    BY <1>2 DEF Tools
  <2>. HIDE DEF h, v, b
  <2>. QED BY <1>2, <2>1 DEF Tools
<1>6. Len(c) <= 2 * MaxPkt
  BY <1>2
<1>7. seen' \in Tallies /\ seen'.hostSent = seen.hostSent /\ seen'.devSent = seen.devSent
  <2>. DEFINE x == c[k]
              y == seen.hostGot + k
  <2>1. x \in Nat /\ y \in Nat
    <3>1. c[k] \in Nat
      <4>. HIDE DEF c
      <4>. QED BY <1>2
    <3>2. seen.hostGot \in Nat
      BY <1>2 DEF Tallies
    <3>3. y \in Nat
      BY <1>2, <3>2
    <3>. QED BY <3>1, <3>3
  <2>2. seen' = [seen EXCEPT !.hostGot = y, !.hostLast = x]
    BY <1>1
  <2>. HIDE DEF x, y
  <2>. QED BY <1>2, <2>1, <2>2 DEF Tallies
<1>8. BytesOK'
  BY <1>7, BytesSame DEF PipeKept, BytesOK
<1>9. ToolOK'
  <2>1. Doing("write") => FALSE
    BY DEF Doing
  <2>2. host.probed => Doing("probe")
    BY DEF PipeKept, ToolOK
  <2>. HIDE DEF h, v, b, c
  <2>3. h \in Tools
    BY <1>2, <1>3, <1>4, <1>5 DEF Tools
  <2>4. Len(h.buf) <= 2 * MaxPkt
    <3>1. Len(b) \in Nat
      BY <1>3
    <3>. QED BY <1>2, <1>3, <1>5, <1>6, <3>1, Sized
  <2>5. /\ h.talk = host.talk /\ h.op = host.op /\ h.urb = "none" /\ h.got = <<>> /\ h.left = v
        /\ h.probed => Doing("probe")
    BY <1>2, <1>5, <2>2
  <2>6. Doing("read") \/ Doing("write") => h.left >= 0
    BY <1>4, <2>1, <2>5
  <2>. QED BY <1>1, <1>2, <2>3, <2>4, <2>5, <2>6, LessLeft DEF PipeKept
<1>. QED BY <1>8, <1>9, ToolOnly

\* usb_read and ser_try_recv_uint.
LEMMA StepReads ==
    ASSUME PipeKept, UsbRead \/ TryRecvUint
    PROVE  PipeKept'
<1>1. UNCHANGED <<pipe, driver, gev, ep0, bulk, dev, os>>
  BY DEF UsbRead, TryRecvUint
<1>2. host \in Tools /\ host.buf \in Seq(Nat) /\ Len(host.buf) \in Nat
  BY DEF PipeKept, ToolOK, Tools
<1>3. CASE UsbRead
  <2>. DEFINE k == Lesser(host.left, Len(host.buf))
  <2>1. Doing("read") /\ host.buf # <<>> /\ Taken(k)
    BY <1>3 DEF UsbRead
  <2>2. host.urb = "none" /\ host.left >= 1 /\ host.left \in Int
    BY <1>2, <2>1 DEF PipeKept, ToolOK, Doing, Tools
  <2>3. Len(host.buf) >= 1
    BY <1>2, <2>1
  <2>4. k \in 1..Len(host.buf) /\ k <= host.left
    BY <1>2, <2>2, <2>3 DEF Lesser
  <2>. HIDE DEF k
  <2>. QED BY <1>1, <2>1, <2>2, <2>4, Reading
<1>4. CASE TryRecvUint
  <2>1. Doing("probe") /\ host.probed /\ host.urb = "none" /\ host.talk # "none"
    BY <1>4 DEF TryRecvUint, PipeKept, ToolOK, Doing
  <2>2. CASE Len(host.buf) >= HostOp.n /\ Taken(HostOp.n)
    <3>1. HostOp.n \in 1..Len(host.buf)
      BY <1>2, <2>1, <2>2, AtOp DEF PipeKept, Ops
    <3>2. ~Doing("read")
      BY <2>1 DEF Doing
    <3>. QED BY <1>1, <2>1, <2>2, <3>1, <3>2, Reading
  <2>3. CASE host' = [host EXCEPT !.probed = FALSE] /\ UNCHANGED seen
    <3>1. /\ host' \in Tools /\ host'.talk = host.talk /\ host'.op = host.op
          /\ host'.urb = host.urb /\ host'.buf = host.buf /\ host'.got = host.got
          /\ host'.left = host.left /\ ~host'.probed
      BY <1>2, <2>3 DEF Tools
    <3>2. ToolOK'
      BY <3>1, SameOp DEF PipeKept, ToolOK
    <3>3. BytesOK'
      BY <1>1, <2>3 DEF PipeKept, BytesOK, Total
    <3>. QED BY <1>1, <3>2, <3>3, ToolOnly
  <2>. QED BY <1>4, <2>2, <2>3 DEF TryRecvUint
<1>. QED BY <1>3, <1>4

\* A bulk IN transfer is submitted, or the buffer has no room for one.
LEMMA StepFills ==
    ASSUME PipeKept, UsbFill \/ BytesAvailable
    PROVE  PipeKept'
<1>1. /\ UNCHANGED <<pipe, driver, gev, ep0, bulk, dev, os, seen>> /\ host.urb = "none"
      /\ \/ host' = [host EXCEPT !.urb = "in"] /\ (Doing("probe") \/ (Doing("read") /\ host.buf = <<>>))
            /\ ~host.probed
         \/ host' = [host EXCEPT !.probed = TRUE] /\ Doing("probe")
  BY DEF UsbFill, BytesAvailable, PipeKept, ToolOK, Doing
<1>2. host \in Tools
  BY DEF PipeKept, ToolOK
<1>3. /\ host' \in Tools /\ host'.talk = host.talk /\ host'.op = host.op
      /\ host'.buf = host.buf /\ host'.got = host.got /\ host'.left = host.left
      /\ host'.urb = "in" => ~host'.probed /\ (Doing("probe") \/ (Doing("read") /\ host.buf = <<>>))
      /\ host'.probed => Doing("probe") /\ host'.urb = "none"
  <2>1. CASE /\ host' = [host EXCEPT !.urb = "in"] /\ ~host.probed
             /\ Doing("probe") \/ (Doing("read") /\ host.buf = <<>>)
    <3>1. /\ host' \in Tools /\ host'.talk = host.talk /\ host'.op = host.op
          /\ host'.buf = host.buf /\ host'.got = host.got /\ host'.left = host.left
          /\ host'.urb = "in" /\ host'.probed = host.probed
      BY <1>2, <2>1 DEF Tools
    <3>. QED BY <2>1, <3>1
  <2>2. CASE host' = [host EXCEPT !.probed = TRUE] /\ Doing("probe")
    <3>1. /\ host' \in Tools /\ host'.talk = host.talk /\ host'.op = host.op
          /\ host'.buf = host.buf /\ host'.got = host.got /\ host'.left = host.left
          /\ host'.urb = host.urb
      BY <1>2, <2>2 DEF Tools
    <3>. QED BY <1>1, <2>2, <3>1
  <2>. QED BY <1>1, <2>1, <2>2
<1>4. host.got = <<>>
  BY <1>1 DEF PipeKept, ToolOK
<1>5. ToolOK'
  BY <1>3, <1>4, SameOp DEF PipeKept, ToolOK
<1>6. BytesOK'
  BY <1>1 DEF PipeKept, BytesOK, Total
<1>. QED BY <1>1, <1>5, <1>6, ToolOnly

\* The end of a bulk IN transfer.
LEMMA Ended ==
    ASSUME ToolOK, host.urb = "in", NEW g \in Seq(Nat), Len(host.buf) + Len(g) <= 2 * MaxPkt,
           host' = Received(host, g)
    PROVE  ToolOK'
<1>. DEFINE b == host.buf \o g
            p == Doing("probe")
<1>1. host \in Tools /\ host.buf \in Seq(Nat)
  BY DEF ToolOK, Tools
<1>2. b \in Seq(Nat) /\ Len(b) = Len(host.buf) + Len(g)
  BY <1>1, ConcatProperties
<1>3. p \in BOOLEAN
  BY DEF Doing
<1>4. host' = [host EXCEPT !.buf = b, !.got = <<>>, !.urb = "none", !.probed = p]
  BY DEF Received
<1>. HIDE DEF b, p
<1>5. host' = [talk |-> host.talk, op |-> host.op, left |-> host.left, buf |-> b,
               urb |-> "none", got |-> <<>>, probed |-> p, talks |-> host.talks,
               tries |-> host.tries, stalls |-> host.stalls]
  BY <1>1, <1>4 DEF Tools
<1>6. host' \in Tools
  BY <1>1, <1>2, <1>3, <1>5 DEF Tools
<1>7. Len(b) + Len(<<>>) <= 2 * MaxPkt
  BY <1>2
<1>8. /\ host'.talk = host.talk /\ host'.op = host.op /\ host'.urb = "none" /\ host'.got = <<>>
      /\ host'.left = host.left /\ host'.buf = b /\ (host'.probed => Doing("probe"))
  BY <1>5 DEF p
<1>. QED BY <1>6, <1>7, <1>8, SameOp DEF ToolOK

LEMMA StepReadTimeout ==
    ASSUME PipeKept, ReadTimeout
    PROVE  PipeKept'
<1>1. /\ host.urb = "in" /\ host' = Received(host, host.got)
      /\ UNCHANGED <<pipe, driver, gev, ep0, bulk, dev, os, seen>>
  BY DEF ReadTimeout
<1>2. host.got \in Seq(Nat) /\ Len(host.buf) + Len(host.got) <= 2 * MaxPkt
  BY DEF PipeKept, ToolOK, Tools
<1>3. ToolOK'
  BY <1>1, <1>2, Ended DEF PipeKept
<1>4. BytesOK'
  BY <1>1 DEF PipeKept, BytesOK, Total
<1>. QED BY <1>1, <1>3, <1>4, ToolOnly

\* A packet from the device never takes more than the room there is.
LEMMA StepBusIn ==
    ASSUME PipeKept, BusIn
    PROVE  PipeKept'
<1>. DEFINE c == bulk.inBuf
            free == Room - Len(host.got)
            k == Lesser(Len(c), free)
            part == SubSeq(c, 1, k)
            got == host.got \o part
<1>1. /\ host.urb = "in" /\ bulk' = [bulk EXCEPT !.in = "done"]
      /\ UNCHANGED <<pipe, driver, gev, ep0, dev, os, seen>>
      /\ host' = Received(host, got) \/ host' = [host EXCEPT !.got = got]
  BY DEF BusIn
<1>2. /\ host \in Tools /\ host.got \in Seq(Nat) /\ host.buf \in Seq(Nat)
      /\ Len(host.buf) + Len(host.got) <= 2 * MaxPkt /\ bulk \in Bulks /\ c \in Seq(Nat)
  BY DEF PipeKept, ToolOK, BytesOK, Tools, Bulks
<1>. DEFINE p == Len(host.got)
            q == Len(host.buf)
<1>8. p \in Nat /\ q \in Nat /\ q + p <= 2 * MaxPkt
  <2>1. p \in Nat
    BY <1>2
  <2>2. q \in Nat
    BY <1>2
  <2>3. q + p <= 2 * MaxPkt
    BY <1>2
  <2>. QED BY <2>1, <2>2, <2>3
<1>9. free = (2 * MaxPkt - q) - p
  BY DEF Room
<1>3. k \in Nat /\ k <= Len(c) /\ k <= free /\ free \in Nat
  <2>1. Len(c) \in Nat
    BY <1>2
  <2>2. free \in Nat
    <3>. HIDE DEF free, p, q
    <3>. QED BY <1>8, <1>9, Sized
  <2>. HIDE DEF free, c
  <2>. QED BY <2>1, <2>2, Lengths
<1>4. part \in Seq(Nat) /\ Len(part) = k
  <2>1. \A i \in 1..k : c[i] \in Nat
    BY <1>2, <1>3
  <2>. HIDE DEF c, k
  <2>2. part \in Seq(Nat) /\ Len(part) = IF 1 <= k THEN k - 1 + 1 ELSE 0
    BY <1>3, <2>1, SubSeqProperties
  <2>. QED BY <1>3, <2>2
<1>5. got \in Seq(Nat) /\ Len(host.buf) + Len(got) <= 2 * MaxPkt
  <2>1. got \in Seq(Nat) /\ Len(got) = Len(host.got) + k
    <3>. HIDE DEF part, k
    <3>. QED BY <1>2, <1>4, ConcatProperties
  <2>2. q + (p + k) <= 2 * MaxPkt
    <3>. HIDE DEF k, p, q, free
    <3>. QED BY <1>3, <1>8, <1>9, Sized
  <2>3. q + Len(got) <= 2 * MaxPkt
    BY <2>1, <2>2
  <2>. QED BY <2>1, <2>3
<1>. HIDE DEF got
<1>6. ToolOK'
  <2>1. CASE host' = Received(host, got)
    BY <1>1, <1>5, <2>1, Ended DEF PipeKept
  <2>2. CASE host' = [host EXCEPT !.got = got]
    <3>1. /\ host' \in Tools /\ host'.talk = host.talk /\ host'.op = host.op
          /\ host'.urb = "in" /\ host'.buf = host.buf /\ host'.got = got
          /\ host'.left = host.left /\ host'.probed = host.probed
      BY <1>1, <1>2, <1>5, <2>2 DEF Tools
    <3>. QED BY <1>1, <1>5, <3>1, SameOp DEF PipeKept, ToolOK
  <2>. QED BY <1>1, <2>1, <2>2
<1>7. BytesOK'
  <2>1. bulk' \in Bulks /\ bulk'.outBuf = bulk.outBuf
    BY <1>1, <1>2 DEF Bulks
  <2>. QED BY <1>1, <2>1, BytesSame DEF PipeKept, BytesOK
<1>. QED BY <1>1, <1>6, <1>7 , SettlesSame DEF PipeKept, Shaped

\* usb_read returns -1, and serial_getc goes on without the byte.
LEMMA StepReadFails ==
    ASSUME PipeKept, ReadFails
    PROVE  PipeKept'
<1>. DEFINE h == [host EXCEPT !.urb = "none", !.got = <<>>]
<1>1. /\ host.urb = "in" /\ host' = HostNext(h)
      /\ UNCHANGED <<pipe, driver, gev, ep0, bulk, dev, os, seen>>
  BY DEF ReadFails
<1>2. /\ host \in Tools /\ host.talk # "none" /\ host.got \in Seq(Nat) /\ host.buf \in Seq(Nat)
      /\ Len(host.buf) + Len(host.got) <= 2 * MaxPkt
  BY <1>1 DEF PipeKept, ToolOK, Doing, Tools
<1>3. /\ h \in Tools /\ h.talk = host.talk /\ h.op = host.op /\ h.urb = "none"
      /\ h.got = <<>> /\ h.buf = host.buf
  <2>1. h = [talk |-> host.talk, op |-> host.op, left |-> host.left, buf |-> host.buf,
             urb |-> "none", got |-> <<>>, probed |-> host.probed, talks |-> host.talks,
             tries |-> host.tries, stalls |-> host.stalls]
    <3>. DEFINE e == <<>>
                u == "none"
    <3>1. host \in Tools
      BY <1>2
    <3>2. h = [host EXCEPT !.urb = u, !.got = e]
      OBVIOUS
    <3>. HIDE DEF e, u, h
    <3>3. h = [talk |-> host.talk, op |-> host.op, left |-> host.left, buf |-> host.buf,
               urb |-> u, got |-> e, probed |-> host.probed, talks |-> host.talks,
               tries |-> host.tries, stalls |-> host.stalls]
      BY <3>1, <3>2 DEF Tools
    <3>. QED BY <3>3 DEF e, u
  <2>2. <<>> \in Seq(Nat)
    OBVIOUS
  <2>. HIDE DEF h
  <2>. QED BY <1>2, <2>1, <2>2 DEF Tools
<1>. HIDE DEF h
<1>4. InTalk(h) /\ Len(h.buf) <= 2 * MaxPkt
  <2>1. Len(host.buf) \in Nat /\ Len(host.got) \in Nat
    BY <1>2
  <2>2. Len(h.buf) <= 2 * MaxPkt
    <3>. DEFINE p == Len(host.got)
                q == Len(host.buf)
    <3>1. p \in Nat /\ q \in Nat
      BY <2>1
    <3>2. q + p <= 2 * MaxPkt
      BY <1>2
    <3>. HIDE DEF p, q
    <3>3. q <= 2 * MaxPkt
      BY <3>1, <3>2, Sized
    <3>. QED BY <1>3, <3>3 DEF q
  <2>3. InTalk(h)
    BY <1>2, <1>3, AtOp DEF PipeKept, InTalk
  <2>. QED BY <2>2, <2>3
<1>5. ToolOK'
  BY <1>1, <1>3, <1>4, NextOp
<1>6. BytesOK'
  BY <1>1 DEF PipeKept, BytesOK, Total
<1>. QED BY <1>1, <1>5, <1>6, ToolOnly

-----------------------------------------------------------------------------
(* The specification.                                                      *)

LEMMA PipeStarts == PipeInit => PipeKept
<1>. SUFFICES ASSUME PipeInit PROVE PipeKept
  OBVIOUS
<1>1. /\ 0 \in 0..MaxService /\ 0 \in 0..MaxTroubles
  BY PipeAssumption
<1>2. NoAnswer \in Answers /\ NoAnswer.to = "none"
  BY DEF NoAnswer, Answers
<1>3. /\ driver \in UsbDrivers /\ gev \in UsbEvents /\ ep0 \in Controls /\ os \in Systems
  BY <1>1, <1>2 DEF PipeInit, Ep0Quiet, UsbDrivers, UsbEvents, Controls, Systems
<1>4. Shaped
  <2>1. dev = [talk |-> "none", op |-> 1, left |-> 0, at |-> "go"]
    BY DEF PipeInit
  <2>2. "at" \in DOMAIN dev /\ dev.at = "go"
    BY <2>1
  <2>. QED BY <1>3, <2>2 DEF Shaped
<1>5. seen \in Tallies /\ Total = 0
  BY DEF PipeInit, Tallies, Total
<1>6. RingAt(EmptyRing, 0)
  <2>1. /\ EmptyRing \in [buf : [0..Ring - 1 -> 0..0], head : 0..Wrap - 1, tail : 0..Wrap - 1]
        /\ EmptyRing.head = 0 /\ EmptyRing.tail = 0
    BY Sized DEF EmptyRing
  <2>2. Used(EmptyRing) = 0
    <3>1. 0 \in 0..Wrap - 1 /\ 0 - 0 = 0
      BY Sized
    <3>2. (0 - 0) % Wrap = 0
      BY <3>1, UsedIs
    <3>. QED BY <2>1, <3>2 DEF Used
  <2>. QED BY <2>1, <2>2, Sized DEF RingAt
<1>7. BytesOK
  <2>1. PipeAt(pipe, 0)
    BY <1>6 DEF PipeInit, PipeAt
  <2>2. <<>> \in Seq(Nat) /\ <<>> \in Seq(0..0)
    OBVIOUS
  <2>3. bulk \in Bulks /\ bulk.outBuf = <<>>
    BY <2>2 DEF PipeInit, Bulks
  <2>. QED BY <1>5, <2>1, <2>2, <2>3 DEF BytesOK
<1>8. ToolOK
  <2>1. host = [talk |-> "none", op |-> 1, left |-> 0, buf |-> <<>>, urb |-> "none",
                got |-> <<>>, probed |-> FALSE, talks |-> 0, tries |-> 0, stalls |-> 0]
    BY DEF PipeInit
  <2>2. <<>> \in Seq(Nat) /\ Len(<<>>) + Len(<<>>) <= 2 * MaxPkt
    BY Sized
  <2>3. host \in Tools
    BY <2>1, <2>2 DEF Tools
  <2>. QED BY <2>1, <2>2, <2>3 DEF ToolOK, Doing
<1>9. RequestOK /\ EventsOK /\ AnswerOK /\ SizeOK
  BY DEF PipeInit, RequestOK, EventsOK, AnswerOK, SizeOK
<1>10. SpeedOK
  BY <1>2 DEF PipeInit, SpeedOK, Ep0Quiet
<1>. QED BY <1>4, <1>7, <1>8, <1>9, <1>10 DEF PipeKept, Settles

LEMMA PipeStands ==
    ASSUME PipeKept, UNCHANGED pipeVars
    PROVE  PipeKept'
<1>1. UNCHANGED <<pipe, driver, gev, ep0, bulk, dev, os, host, seen>>
  BY DEF pipeVars
<1>2. BytesOK'
  BY <1>1 DEF PipeKept, BytesOK, Total
<1>. QED BY <1>1, <1>2, ToolSame, ToolOnly DEF PipeKept

LEMMA PipeSteps ==
    ASSUME PipeKept, [PipeNext]_pipeVars
    PROVE  PipeKept'
<1>1. CASE PspLoader
  BY <1>1, StepGlobalEvents, StepEp0Poll, StepPollRx, StepPollTx, StepPollStarts, StepRxByte,
     StepTxByte, StepHandoff DEF PspLoader
<1>2. CASE BusReset \/ Enumerate \/ AbandonTransfer
  BY <1>2, StepBusReset, StepSpeedKnown, StepSetup, StepInToken, StepInData, StepStatus,
     StepGivesUp, StepSetConfig DEF Enumerate
<1>3. CASE StartTalk \/ QuitTalk \/ BusOut \/ BusOutFails \/ WriteTimeout \/ BusIn \/ ReadFails
  BY <1>3, StepStartTalk, StepQuitTalk, StepBusOut, StepWriteTimeout, StepBusIn, StepReadFails
<1>4. CASE Tool
  BY <1>4, StepReads, StepFills, StepReadTimeout DEF Tool
<1>5. CASE UNCHANGED pipeVars
  BY <1>5, PipeStands
<1>. QED BY <1>1, <1>2, <1>3, <1>4, <1>5 DEF PipeNext

LEMMA PipeSound == PipeKept => PipeInv
<1>. SUFFICES ASSUME PipeKept PROVE PipeInv
  OBVIOUS
<1>1. PipeTypeOK
  <2>1. RingFits(pipe.rx) /\ RingFits(pipe.tx)
    BY DEF PipeKept, BytesOK, PipeAt, RingAt, RingFits, Bytes, Total
  <2>2. /\ driver.phase \in {"setup", "token", "data", "status"}
        /\ driver.used \in 0..MaxService /\ driver.speed \in 0..2
        /\ {driver.configured, driver.armed, driver.busy, driver.error} \subseteq BOOLEAN
    BY DEF PipeKept, Shaped, UsbDrivers
  <2>3. gev.latched \subseteq {"reset", "enum", "config", "intf"} /\ gev.speed \in 1..2
    BY DEF PipeKept, Shaped, UsbEvents
  <2>4. bulk.out \in {"free", "armed", "done", "failed"} /\ bulk.in \in {"free", "armed", "done"}
    BY DEF PipeKept, BytesOK, Bulks
  <2>5. dev.at \in {"go", "gev", "ep0", "rx", "tx", "gone"}
    BY DEF PipeKept, Shaped
  <2>6. os.ask \in 1..Len(SetupRequests) /\ os.troubles \in 0..MaxTroubles
    BY RequestList DEF PipeKept, Shaped, Systems
  <2>7. Len(host.buf) + Len(host.got) <= 2 * MaxPkt
    BY DEF PipeKept, ToolOK
  <2>. QED BY <2>1, <2>2, <2>3, <2>4, <2>5, <2>6, <2>7 DEF PipeTypeOK
<1>2. AnswerFits
  BY DEF PipeKept, Settles, RequestOK, AnswerFits
<1>3. SizesAgree
  BY DEF PipeKept, Settles, SizeOK, SizesAgree
<1>. QED BY <1>1, <1>2, <1>3 DEF PipeInv

(***************************************************************************)
(* Whatever the host's system resets, abandons and asks again: the rings   *)
(* and the host's buffers stay within their bounds, the data of a control  *)
(* transfer is the answer to its own question (ep0_take_setup), and when   *)
(* an enumeration has ended the host and the driver hold the same endpoint *)
(* sizes (usb_refresh_cfg_desc, usb_apply_configuration), although the     *)
(* speed of a reset is known only later.                                   *)
(***************************************************************************)
THEOREM PipeSettled == PipeSpec => []PipeInv
<1>1. PipeInit => PipeKept
  BY PipeStarts
<1>2. PipeKept /\ [PipeNext]_pipeVars => PipeKept'
  BY PipeSteps
<1>3. PipeKept => PipeInv
  BY PipeSound
<1>. QED BY <1>1, <1>2, <1>3, PTL DEF PipeSpec

=============================================================================
