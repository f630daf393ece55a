-------------------------- MODULE NetSyscallProofs --------------------------
(***************************************************************************)
(* Proofs about NetSyscall, for every number of calls, retries, copies,    *)
(* packets and losses and every starting sequence number, as long as the   *)
(* calls of a session stay below half of the sequence-number space.        *)
(***************************************************************************)
EXTENDS NetSyscall, TLAPS

-----------------------------------------------------------------------------
(* Type correctness *)

\* The sequence number i calls after s is again a nonzero sequence number.
LEMMA SeqPlusType ==
    ASSUME NEW s \in 1 .. SeqMod - 1, NEW i \in 0 .. ExitCopies
    PROVE  SeqPlus(s, i) \in 1 .. SeqMod - 1
BY NetSyscallAssumption DEF SeqPlus, SeqMod

\* What is captured stays within the cache and consists of host datagrams.
LEMMA CaptureType ==
    ASSUME CacheTypeOK, NEW ms \in Seq(Retvals \cup Commands), Capture(ms)
    PROVE  pkts' \subseteq Retvals \cup Commands /\ npkts' \in 0 .. DedupMax
<1>1. \A j \in 1 .. Len(ms) : ms[j] \in Retvals \cup Commands
  OBVIOUS
<1>2. pkts' \subseteq Retvals \cup Commands
  BY <1>1 DEF Capture, CacheTypeOK
<1>3. npkts' \in 0 .. DedupMax
  BY NetSyscallAssumption DEF Capture, CacheTypeOK
<1>. QED BY <1>2, <1>3

\* The same for the packets a capture opens with.
LEMMA BeginCaptureType ==
    ASSUME NEW ms \in Seq(Retvals \cup Commands), BeginCapture(ms)
    PROVE  /\ pkts' \subseteq Retvals \cup Commands
           /\ npkts' \in 0 .. DedupMax
           /\ age' \in 0 .. Window + 1
<1>1. \A j \in 1 .. Len(ms) : ms[j] \in Retvals \cup Commands
  OBVIOUS
<1>2. pkts' \subseteq Retvals \cup Commands
  BY <1>1 DEF BeginCapture
<1>3. npkts' \in 0 .. DedupMax /\ age' \in 0 .. Window + 1
  BY NetSyscallAssumption DEF BeginCapture
<1>. QED BY <1>2, <1>3

\* What is sent joins the host's datagrams in flight.
LEMMA SendType ==
    ASSUME NetTypeOK, NEW ms \in Seq(Retvals \cup Commands), Send(ms)
    PROVE  h2c' \subseteq Retvals \cup Commands
<1>1. \A j \in 1 .. Len(ms) : ms[j] \in Retvals \cup Commands
  OBVIOUS
<1>. QED BY <1>1 DEF Send, NetTypeOK

\* Delivery only ever removes datagrams.
LEMMA DeliverSubset ==
    ASSUME NEW net, NEW m, NEW rest \in Deliver(net, m)
    PROVE  rest \subseteq net
BY DEF Deliver

\* A datagram to the host marked "req" is a request, one to the client marked
\* "RETV" a RETVAL.
LEMMA RequestType ==
    ASSUME NetTypeOK, NEW m \in c2h, m.kind = "req"
    PROVE  m \in Requests
BY DEF NetTypeOK, Requests, Acks

LEMMA RetvalType ==
    ASSUME NEW S, S \subseteq Retvals \cup Commands, NEW m \in S, m.kind = "RETV"
    PROVE  m \in Retvals
BY DEF Retvals, Commands

\* The commands of a bulk leg and RETVALs with a result are host datagrams.
LEMMA CommandType ==
    /\ \A id \in {"LBIN", "PBIN", "DBIN", "SBIQ"} : Command(id) \in Retvals \cup Commands
    /\ \A s \in 0 .. SeqMod - 1, v \in Nat : Retval(s, v) \in Retvals \cup Commands
BY DEF Command, Retval, Retvals, Commands

\* Sequences of one or two of them.
LEMMA PacketsType ==
    /\ <<>> \in Seq(Retvals \cup Commands)
    /\ \A id \in {"LBIN", "PBIN", "DBIN", "SBIQ"} :
            <<Command(id)>> \in Seq(Retvals \cup Commands)
    /\ \A s \in 0 .. SeqMod - 1, v \in Nat :
            <<Retval(s, v)>> \in Seq(Retvals \cup Commands)
    /\ Burst \in Seq(Retvals \cup Commands)
BY CommandType DEF Burst

\* The last step of a handler keeps the types.
LEMMA FinishType ==
    ASSUME TypeOK, Finish
    PROVE  /\ HostTypeOK'
           /\ pkts' \subseteq Retvals \cup Commands /\ npkts' \in 0 .. DedupMax
           /\ dseq' \in 0 .. SeqMod - 1 /\ valid' \in BOOLEAN
           /\ h2c' \subseteq Retvals \cup Commands
<1>1. log' \in Seq(Nat) /\ Len(log') \in Nat /\ cur.seq \in 0 .. SeqMod - 1
  BY DEF TypeOK, HostTypeOK, Finish, Requests
<1>2. <<Retval(cur.seq, Len(log'))>> \in Seq(Retvals \cup Commands)
  BY <1>1, PacketsType
<1>3. Capture(<<Retval(cur.seq, Len(log'))>>) /\ Send(<<Retval(cur.seq, Len(log'))>>)
  BY DEF Finish
<1>4. /\ pkts' \subseteq Retvals \cup Commands /\ npkts' \in 0 .. DedupMax
      /\ h2c' \subseteq Retvals \cup Commands
  BY <1>2, <1>3, CaptureType, SendType DEF TypeOK
<1>5. HostTypeOK' /\ dseq' \in 0 .. SeqMod - 1 /\ valid' \in BOOLEAN
  BY <1>1 DEF Finish, EndCapture, TypeOK, HostTypeOK
<1>. QED BY <1>4, <1>5

\* So does every other step of a bulk leg.
LEMMA ProceedType ==
    ASSUME TypeOK, NEW phase, NEW ms \in Seq(Retvals \cup Commands),
           phase \in {"donebin", "loadbin2", "donebin2", "recover", "reload"},
           Proceed(phase, ms)
    PROVE  /\ HostTypeOK'
           /\ pkts' \subseteq Retvals \cup Commands /\ npkts' \in 0 .. DedupMax
           /\ dseq' \in 0 .. SeqMod - 1 /\ valid' \in BOOLEAN
           /\ h2c' \subseteq Retvals \cup Commands
<1>1. Capture(ms) /\ Send(ms)
  BY DEF Proceed
<1>2. /\ pkts' \subseteq Retvals \cup Commands /\ npkts' \in 0 .. DedupMax
      /\ h2c' \subseteq Retvals \cup Commands
  BY <1>1, CaptureType, SendType DEF TypeOK
<1>3. HostTypeOK' /\ dseq' \in 0 .. SeqMod - 1 /\ valid' \in BOOLEAN
  BY NetSyscallAssumption DEF Proceed, TypeOK, HostTypeOK, CacheTypeOK
<1>. QED BY <1>2, <1>3

-----------------------------------------------------------------------------
\* The steps of the client keep the types of the client's variables and of
\* the datagrams in flight, and leave the host's variables alone.
LEMMA ClientTypeStep ==
    ASSUME TypeOK,
           \/ \E o \in Ops : Syscall(o)
           \/ Progexit \/ ClientRecv \/ Tick \/ LoopTimesOut \/ WaitEnds
    PROVE  TypeOK'
<1>. USE DEF TypeOK
<1>a. /\ nextSeq \in 1 .. SeqMod - 1 /\ call \in Nat
      /\ SeqMod \in Nat /\ 0 .. SeqMod - 1 \subseteq Nat
      /\ 1 .. SeqMod - 1 \subseteq 0 .. SeqMod - 1
  BY NetSyscallAssumption DEF ClientTypeOK, SeqMod
<1>b. \A i \in 0 .. ExitCopies : SeqPlus(nextSeq, i) \in 1 .. SeqMod - 1
  BY <1>a, SeqPlusType
<1>c. 0 \in 0 .. ExitCopies /\ 1 \in 0 .. ExitCopies /\ ExitCopies - 1 \in 0 .. ExitCopies
  BY NetSyscallAssumption
<1>1. ASSUME NEW o \in Ops, Syscall(o) PROVE TypeOK'
  <2>1. Request(nextSeq, call + 1, o) \in Requests /\ o \in {"simple", "push", "pull"}
    BY <1>a, NetSyscallAssumption DEF Request, Requests
  <2>2. nextSeq' \in 1 .. SeqMod - 1
    BY <1>1, <1>b, <1>c DEF Syscall
  <2>3. call' \in 0 .. MaxCalls /\ retry' \in 0 .. MaxRetries
    BY <1>1, NetSyscallAssumption DEF Syscall, ClientTypeOK
  <2>4. ClientTypeOK'
    BY <1>1, <1>a, <2>1, <2>2, <2>3 DEF Syscall, ClientTypeOK
  <2>5. NetTypeOK'
    BY <1>1, <2>1 DEF Syscall, NetTypeOK
  <2>. QED
    BY <1>1, <2>4, <2>5 DEF Syscall, HostTypeOK, CacheTypeOK, hostVars, dedupVars
<1>2. CASE Progexit
  <2>1. \A i \in 0 .. ExitCopies - 1 :
            Request(SeqPlus(nextSeq, i), call + 1 + i, "exit") \in Requests
    BY <1>a, <1>b, NetSyscallAssumption DEF Request, Requests
  <2>2. seq' \in 0 .. SeqMod - 1 /\ nextSeq' \in 1 .. SeqMod - 1
    <3>1. /\ SeqPlus(nextSeq, ExitCopies - 1) \in 1 .. SeqMod - 1
          /\ SeqPlus(nextSeq, ExitCopies) \in 1 .. SeqMod - 1
      BY <1>b, <1>c, NetSyscallAssumption
    <3>. QED BY <1>2, <1>a, <3>1 DEF Progexit
  <2>3. NetTypeOK'
    BY <1>2, <2>1 DEF Progexit, NetTypeOK
  <2>4. ClientTypeOK'
    BY <1>2, <2>2 DEF Progexit, ClientTypeOK
  <2>. QED
    BY <1>2, <2>3, <2>4 DEF Progexit, HostTypeOK, CacheTypeOK, hostVars, dedupVars
<1>3. ASSUME NEW m \in h2c, AcceptRetval(m) PROVE TypeOK'
  <2>1. m.val \in Nat
    BY <1>3, RetvalType DEF AcceptRetval, NetTypeOK, Retvals
  <2>2. NetTypeOK'
    BY <1>3, DeliverSubset DEF AcceptRetval, NetTypeOK
  <2>3. retval' = m.val /\ returns' \in Seq(Nat \cup {-1}) /\ cpc' \in {"check", "guest"}
    BY <1>3, <2>1 DEF AcceptRetval, ReturnToGuest, ClientTypeOK
  <2>4. ClientTypeOK'
    BY <1>3, <2>1, <2>3 DEF AcceptRetval, ClientTypeOK
  <2>. QED
    BY <1>3, <2>2, <2>4 DEF AcceptRetval, HostTypeOK, CacheTypeOK, hostVars, dedupVars
<1>4. ASSUME NEW m \in h2c, DropRetval(m) PROVE TypeOK'
  <2>1. NetTypeOK'
    BY <1>4, DeliverSubset DEF DropRetval, NetTypeOK
  <2>. QED
    BY <1>4, <2>1 DEF DropRetval, ClientTypeOK, HostTypeOK, CacheTypeOK,
                      clientVars, hostVars, dedupVars
<1>5. ASSUME NEW m \in h2c, RecvBulk(m) PROVE TypeOK'
  <2>1. mapped \in BOOLEAN /\ mapped' \in BOOLEAN
    BY <1>5 DEF RecvBulk, ClientTypeOK
  <2>2. \A id \in {"LBIN", "DBIN", "SBIN"} : Ack(id, TRUE) \in Acks /\ Ack(id, mapped) \in Acks
    BY <2>1 DEF Ack, Acks
  <2>3. NetTypeOK'
    BY <1>5, <2>2, DeliverSubset DEF RecvBulk, NetTypeOK
  <2>4. clock' \in {"fresh", "bumped", "overrun", "expired"}
    BY <1>5 DEF RecvBulk, Bumped, ClientTypeOK
  <2>5. ClientTypeOK'
    BY <1>5, <2>1, <2>4 DEF RecvBulk, ClientTypeOK
  <2>. QED
    BY <1>5, <2>3, <2>5 DEF RecvBulk, HostTypeOK, CacheTypeOK, hostVars, dedupVars
<1>6. CASE Tick
  <2>1. CacheTypeOK'
    BY <1>6, NetSyscallAssumption DEF Tick, CacheTypeOK, dedupVars
  <2>. QED
    BY <1>6, <2>1 DEF Tick, Elapsed, ClientTypeOK, HostTypeOK, NetTypeOK, hostVars, netVars
<1>7. CASE LoopTimesOut
  BY <1>7 DEF LoopTimesOut, ClientTypeOK, HostTypeOK, CacheTypeOK, NetTypeOK,
              hostVars, dedupVars, netVars
<1>8. CASE WaitEnds
  <2>1. CASE WaitReturns
    BY <2>1 DEF WaitReturns, ReturnToGuest, ClientTypeOK, HostTypeOK, CacheTypeOK,
                NetTypeOK, hostVars, dedupVars, netVars
  <2>2. CASE Retransmit
    <3>1. Request(seq, call, op) \in Requests
      BY <1>a DEF Request, Requests, ClientTypeOK
    <3>2. NetTypeOK'
      BY <2>2, <3>1 DEF Retransmit, NetTypeOK
    <3>3. retry' \in 0 .. MaxRetries
      BY <2>2, NetSyscallAssumption DEF Retransmit, ClientTypeOK
    <3>4. ClientTypeOK'
      BY <2>2, <3>3 DEF Retransmit, ClientTypeOK
    <3>. QED
      BY <2>2, <3>2, <3>4 DEF Retransmit, HostTypeOK, CacheTypeOK, hostVars, dedupVars
  <2>3. CASE GiveUp
    BY <2>3 DEF GiveUp, ReturnToGuest, ClientTypeOK, HostTypeOK, CacheTypeOK,
                NetTypeOK, hostVars, dedupVars, netVars
  <2>. QED BY <1>8, <2>1, <2>2, <2>3 DEF WaitEnds
<1>. QED BY <1>1, <1>2, <1>3, <1>4, <1>5, <1>6, <1>7, <1>8 DEF ClientRecv

\* The steps of the host and of the network likewise.
LEMMA HostTypeStep ==
    ASSUME TypeOK, HostRecv \/ HostTimesOut \/ Lose
    PROVE  TypeOK'
<1>. USE DEF TypeOK
<1>1. ASSUME NEW m \in c2h, Replay(m) PROVE TypeOK'
  <2>1. NetTypeOK'
    BY <1>1, DeliverSubset DEF Replay, NetTypeOK, CacheTypeOK
  <2>. QED
    BY <1>1, <2>1 DEF Replay, ClientTypeOK, HostTypeOK, CacheTypeOK,
                      clientVars, hostVars, dedupVars
<1>2. ASSUME NEW m \in c2h, DropAtIdle(m) \/ DropInBulk(m) PROVE TypeOK'
  <2>1. /\ c2h' \in Deliver(c2h, m)
        /\ UNCHANGED <<clientVars, hostVars, dedupVars, age, h2c, lost>>
    BY <1>2 DEF DropAtIdle, DropInBulk
  <2>2. NetTypeOK'
    BY <2>1, DeliverSubset DEF NetTypeOK
  <2>. QED
    BY <2>1, <2>2 DEF ClientTypeOK, HostTypeOK, CacheTypeOK, clientVars, hostVars, dedupVars
<1>3. ASSUME NEW m \in c2h, Fresh(m),
             DispatchSimple(m) \/ DispatchPush(m) \/ DispatchPull(m) \/ DispatchExit(m)
      PROVE  TypeOK'
  <2>1. c2h' \subseteq Requests \cup Acks /\ lost' = lost /\ ClientTypeOK'
    BY <1>3, DeliverSubset DEF Fresh, NetTypeOK, ClientTypeOK, clientVars
  <2>2. m \in Requests /\ m.seq \in 0 .. SeqMod - 1 /\ m.call \in Nat
    BY <1>3, RequestType DEF Fresh, Requests
  <2>3. <<Retval(m.seq, Len(log) + 1)>> \in Seq(Retvals \cup Commands)
    BY <2>2, PacketsType DEF HostTypeOK
  <2>4. CASE DispatchSimple(m)
    <3>1. HostTypeOK'
      BY <2>2, <2>4 DEF DispatchSimple, HostTypeOK
    <3>2. CacheTypeOK'
      BY <2>2, <2>3, <2>4, BeginCaptureType DEF DispatchSimple, EndCapture, CacheTypeOK
    <3>3. NetTypeOK'
      BY <2>1, <2>3, <2>4, SendType DEF DispatchSimple, NetTypeOK
    <3>. QED BY <2>1, <3>1, <3>2, <3>3
  <2>5. CASE DispatchPush(m)
    <3>1. HostTypeOK'
      BY <2>2, <2>5, NetSyscallAssumption DEF DispatchPush, HostTypeOK
    <3>2. CacheTypeOK'
      BY <2>5, PacketsType, BeginCaptureType DEF DispatchPush, CacheTypeOK
    <3>3. NetTypeOK'
      BY <2>1, <2>5, PacketsType, SendType DEF DispatchPush, NetTypeOK
    <3>. QED BY <2>1, <3>1, <3>2, <3>3
  <2>6. CASE DispatchPull(m)
    <3>1. HostTypeOK'
      BY <2>2, <2>6, NetSyscallAssumption DEF DispatchPull, HostTypeOK
    <3>2. CacheTypeOK'
      BY <2>6, PacketsType, BeginCaptureType DEF DispatchPull, CacheTypeOK
    <3>3. NetTypeOK'
      BY <2>1, <2>6, PacketsType, SendType DEF DispatchPull, NetTypeOK
    <3>. QED BY <2>1, <3>1, <3>2, <3>3
  <2>7. CASE DispatchExit(m)
    <3>1. CacheTypeOK'
      BY <2>7, PacketsType, BeginCaptureType DEF DispatchExit, CacheTypeOK
    <3>. QED BY <2>1, <2>2, <2>7, <3>1 DEF DispatchExit, HostTypeOK, NetTypeOK
  <2>. QED BY <1>3, <2>4, <2>5, <2>6, <2>7
<1>4. ASSUME NEW m \in c2h, RecvAwaited(m) PROVE TypeOK'
  <2>1. /\ c2h' \subseteq Requests \cup Acks /\ lost' = lost /\ age' = age
        /\ ClientTypeOK'
    BY <1>4, DeliverSubset DEF RecvAwaited, NetTypeOK, ClientTypeOK, clientVars
  <2>2. Finish \/ \E phase \in {"donebin", "donebin2", "recover"} : Proceed(phase, Burst)
    BY <1>4 DEF RecvAwaited
  <2>3. CASE Finish
    BY <2>1, <2>3, FinishType DEF CacheTypeOK, NetTypeOK
  <2>4. ASSUME NEW phase \in {"donebin", "donebin2", "recover"}, Proceed(phase, Burst)
        PROVE  TypeOK'
    BY <2>1, <2>4, PacketsType, ProceedType DEF CacheTypeOK, NetTypeOK
  <2>. QED BY <2>2, <2>3, <2>4
<1>5. CASE Resend
  <2>1. Awaited \in {"LBIN", "DBIN", "SBIN"}
    BY <1>5 DEF Resend, Awaited
  <2>2. \E ms \in Seq(Retvals \cup Commands) : Capture(ms)
    BY <1>5, <2>1, PacketsType DEF Resend
  <2>3. \E ms \in Seq(Retvals \cup Commands) : Send(ms)
    BY <1>5, <2>1, PacketsType DEF Resend
  <2>4. CacheTypeOK'
    BY <1>5, <2>2, CaptureType DEF Resend, CacheTypeOK
  <2>5. NetTypeOK'
    BY <1>5, <2>3, SendType DEF Resend, NetTypeOK
  <2>6. HostTypeOK'
    BY <1>5, NetSyscallAssumption DEF Resend, HostTypeOK
  <2>. QED
    BY <1>5, <2>4, <2>5, <2>6 DEF Resend, ClientTypeOK, clientVars
<1>6. CASE Exhausted
  <2>1. c2h' = c2h /\ lost' = lost /\ age' = age /\ ClientTypeOK'
    BY <1>6 DEF Exhausted, ClientTypeOK, clientVars
  <2>2. \/ Finish
        \/ \E phase \in {"loadbin2", "reload"} : Proceed(phase, <<Command("LBIN")>>)
    BY <1>6 DEF Exhausted
  <2>3. CASE Finish
    BY <2>1, <2>3, FinishType DEF CacheTypeOK, NetTypeOK
  <2>4. ASSUME NEW phase \in {"loadbin2", "reload"}, Proceed(phase, <<Command("LBIN")>>)
        PROVE  TypeOK'
    BY <2>1, <2>4, PacketsType, ProceedType DEF CacheTypeOK, NetTypeOK
  <2>. QED BY <2>2, <2>3, <2>4
<1>7. CASE Lose
  <2>1. NetTypeOK'
    BY <1>7, NetSyscallAssumption DEF Lose, NetTypeOK
  <2>. QED
    BY <1>7, <2>1 DEF Lose, ClientTypeOK, HostTypeOK, CacheTypeOK,
                      clientVars, hostVars, dedupVars
<1>. QED
  BY <1>1, <1>2, <1>3, <1>4, <1>5, <1>6, <1>7
  DEF HostRecv, HostTimesOut, DispatchSimple, DispatchPush, DispatchPull, DispatchExit

LEMMA TypeInit == Init => TypeOK
<1>. SUFFICES ASSUME Init PROVE TypeOK
  OBVIOUS
<1>1. SeqMod \in Nat /\ 0 \in 0 .. SeqMod - 1 /\ FirstSeq \in 1 .. SeqMod - 1
  BY NetSyscallAssumption DEF SeqMod
<1>2. ClientTypeOK
  <2>1. 0 \in 0 .. MaxCalls /\ 0 \in 0 .. MaxRetries /\ 0 \in Nat \cup {-1}
    BY NetSyscallAssumption
  <2>2. <<>> \in Seq(Nat \cup {-1})
    OBVIOUS
  <2>. QED BY <1>1, <2>1, <2>2 DEF Init, ClientTypeOK
<1>3. HostTypeOK
  BY <1>1, NetSyscallAssumption DEF Init, HostTypeOK, Request, Requests
<1>4. CacheTypeOK /\ NetTypeOK
  <2>1. 0 \in 0 .. DedupMax /\ 0 \in 0 .. Window + 1 /\ 0 \in 0 .. MaxLoss
    BY NetSyscallAssumption
  <2>. QED BY <1>1, <2>1 DEF Init, CacheTypeOK, NetTypeOK
<1>. QED BY <1>2, <1>3, <1>4 DEF TypeOK

LEMMA TypeStep == TypeOK /\ [Next]_vars => TypeOK'
<1>1. TypeOK /\ Next => TypeOK'
  BY ClientTypeStep, HostTypeStep DEF Next
<1>2. TypeOK /\ UNCHANGED vars => TypeOK'
  BY DEF vars, TypeOK, ClientTypeOK, HostTypeOK, CacheTypeOK, NetTypeOK,
         clientVars, hostVars, dedupVars, netVars
<1>. QED BY <1>1, <1>2

\* Type correctness of the syscall protocol.
THEOREM TypeCorrect == Spec => []TypeOK
BY TypeInit, TypeStep, PTL DEF Spec

-----------------------------------------------------------------------------
(* Sequence numbers *)

LEMMA SeqOfType ==
    ASSUME NEW c \in 1 .. MaxCalls + ExitCopies + 1
    PROVE  SeqOf(c) \in 1 .. SeqMod - 1
BY NetSyscallAssumption DEF SeqOf, SeqPlus, SeqMod

\* i calls after call c comes call c + i, also across the wrap.
LEMMA SeqOfStep ==
    ASSUME NEW c \in 1 .. MaxCalls + 1, NEW i \in 0 .. ExitCopies
    PROVE  SeqPlus(SeqOf(c), i) = SeqOf(c + i)
BY NetSyscallAssumption DEF SeqOf, SeqPlus, SeqMod

\* Different calls have different numbers, ...
LEMMA SeqOfInjective ==
    ASSUME NEW a \in 1 .. MaxCalls + ExitCopies, NEW b \in 1 .. MaxCalls + ExitCopies,
           SeqOf(a) = SeqOf(b)
    PROVE  a = b
BY NetSyscallAssumption DEF SeqOf, SeqPlus, SeqMod

\* ... and the signed 32-bit comparison orders them as they were issued.
LEMMA SeqOfOrder ==
    ASSUME NEW a \in 1 .. MaxCalls + ExitCopies, NEW b \in 1 .. MaxCalls + ExitCopies,
           ~NotAfter(SeqOf(a), SeqOf(b))
    PROVE  b < a
BY NetSyscallAssumption DEF NotAfter, SeqDelta, SeqOf, SeqPlus, SeqMod

-----------------------------------------------------------------------------
(* What a step may leave alone *)

\* The log only grows at its end.
Longer == /\ Len(log) <= Len(log')
          /\ \A i \in 1 .. Len(log) : log'[i] = log[i]

LEMMA AppendLonger ==
    ASSUME HostTypeOK, NEW c \in Nat, log' = Append(log, c)
    PROVE  Longer /\ Len(log') = Len(log) + 1 /\ log'[Len(log')] = c
BY DEF Longer, HostTypeOK

LEMMA SameLonger ==
    ASSUME HostTypeOK, log' = log
    PROVE  Longer
BY DEF Longer, HostTypeOK

\* A client that does nothing keeps its part of the invariant.
LEMMA ClientFrame ==
    ASSUME TypeOK, SyscallInv, UNCHANGED clientVars, Longer, log' \in Seq(Nat)
    PROVE  NumberingOK' /\ WaitOK' /\ ReturnsOwnResult'
<1>1. NumberingOK'
  BY DEF SyscallInv, NumberingOK, clientVars, SeqOf
<1>2. WaitOK'
  BY DEF SyscallInv, WaitOK, clientVars, Longer, TypeOK, HostTypeOK
<1>3. ReturnsOwnResult'
  BY DEF SyscallInv, ReturnsOwnResult, clientVars, Longer, TypeOK, HostTypeOK
<1>. QED BY <1>1, <1>2, <1>3

\* Requests in flight stay numbered when nothing new is requested.
LEMMA RequestsFrame ==
    ASSUME TypeOK, SyscallInv, c2h' \subseteq c2h \cup Acks, UNCHANGED <<call, cpc>>
    PROVE  RequestsOK'
<1>1. \A m \in Acks : m.kind # "req"
  BY DEF Acks
<1>. QED BY <1>1 DEF SyscallInv, RequestsOK, Numbered

\* A host that does nothing keeps its part.
LEMMA HostFrame ==
    ASSUME TypeOK, SyscallInv, UNCHANGED <<hpc, cur, log, dseq, valid>>,
           call' \in Nat, call <= call'
    PROVE  AtMostOnceInOrder' /\ ConsoleOK'
<1>1. AtMostOnceInOrder'
  BY DEF SyscallInv, AtMostOnceInOrder
<1>2. call \in Nat /\ 1 .. call \subseteq 1 .. call'
  BY DEF TypeOK, ClientTypeOK
<1>3. ConsoleOK'
  BY <1>2 DEF SyscallInv, ConsoleOK, Busy, SeqOf
<1>. QED BY <1>1, <1>3

\* IsOwn(m)' for a packet m that does not itself depend on the state.
OwnAfter(m) == m.kind = "RETV" => m.val \in 1 .. Len(log') /\ m.seq = SeqOf(log'[m.val])

\* RETVALs in flight and in the cache stay as good as they were.
LEMMA RetvalsFrame ==
    ASSUME TypeOK, SyscallInv, Longer, log' \in Seq(Nat), NEW new,
           \A m \in new : OwnAfter(m),
           h2c' \subseteq h2c \cup pkts \cup new, pkts' \subseteq pkts \cup new
    PROVE  RetvalsOK'
<1>1. ASSUME NEW m \in h2c \cup pkts PROVE OwnAfter(m)
  <2>1. IsOwn(m)
    BY <1>1 DEF SyscallInv, RetvalsOK
  <2>. QED BY <2>1 DEF IsOwn, OwnAfter, Longer, TypeOK, HostTypeOK, SeqOf
<1>. QED BY <1>1 DEF RetvalsOK, IsOwn, OwnAfter, SeqOf

LEMMA NoNewRetvals ==
    ASSUME TypeOK, SyscallInv, log' = log, h2c' \subseteq h2c \cup pkts, pkts' = pkts
    PROVE  RetvalsOK'
BY DEF SyscallInv, RetvalsOK, IsOwn, SeqOf

-----------------------------------------------------------------------------
(* The invariant is kept by the steps of the client, ... *)

\* A RETVAL the client accepts answers the call it is waiting for.
LEMMA AcceptedIsOwn ==
    ASSUME TypeOK, SyscallInv, NEW m \in h2c, AcceptRetval(m)
    PROVE  m.val \in 1 .. Len(log) /\ log[m.val] = call
<1>1. /\ m.val \in 1 .. Len(log) /\ m.seq = SeqOf(log[m.val])
      /\ m.seq = SeqOf(call) /\ call > 0
  BY DEF AcceptRetval, SyscallInv, RetvalsOK, IsOwn, NumberingOK
<1>2. log[m.val] \in 1 .. call /\ call \in 0 .. MaxCalls
  BY <1>1 DEF SyscallInv, ConsoleOK, TypeOK, ClientTypeOK
<1>3. log[m.val] \in 1 .. MaxCalls + ExitCopies /\ call \in 1 .. MaxCalls + ExitCopies
  BY <1>1, <1>2, NetSyscallAssumption
<1>. QED BY <1>1, <1>3, SeqOfInjective

\* The guest is handed -1 or the result of the call that is returning.
LEMMA ReturnKeepsInv ==
    ASSUME TypeOK, SyscallInv, NEW v \in Nat \cup {-1},
           cpc \in {"wait", "check"}, ReturnToGuest(v), UNCHANGED <<call, nextSeq, log>>,
           v # -1 => v \in 1 .. Len(log) /\ log[v] = call
    PROVE  NumberingOK' /\ WaitOK' /\ ReturnsOwnResult'
<1>1. /\ returns \in Seq(Nat \cup {-1}) /\ returns' = Append(returns, v)
      /\ call \in Nat /\ Len(returns) = call - 1
  BY DEF ReturnToGuest, TypeOK, ClientTypeOK, SyscallInv, NumberingOK
<1>2. Len(returns') = call /\ returns'[call] = v /\ \A c \in 1 .. call - 1 : returns'[c] = returns[c]
  BY <1>1
<1>3. NumberingOK'
  BY <1>2 DEF ReturnToGuest, SyscallInv, NumberingOK, SeqOf
<1>4. WaitOK'
  BY DEF ReturnToGuest, WaitOK
<1>5. ReturnsOwnResult'
  BY <1>1, <1>2 DEF SyscallInv, ReturnsOwnResult
<1>. QED BY <1>3, <1>4, <1>5

LEMMA ClientKeepsInv ==
    ASSUME TypeOK, SyscallInv,
           \/ \E o \in Ops : Syscall(o)
           \/ Progexit \/ ClientRecv \/ Tick \/ LoopTimesOut \/ WaitEnds
    PROVE  SyscallInv'
<1>a. /\ call \in 0 .. MaxCalls /\ call \in Nat
      /\ log \in Seq(Nat) /\ HostTypeOK
  BY NetSyscallAssumption DEF TypeOK, ClientTypeOK, HostTypeOK
<1>1. ASSUME NEW o \in Ops, Syscall(o) PROVE SyscallInv'
  <2>1. /\ nextSeq = SeqOf(call + 1) /\ SeqPlus(nextSeq, 1) = SeqOf(call + 2)
        /\ Len(returns) = call
    <3>1. /\ nextSeq = SeqOf(call + 1) /\ Len(returns) = call
          /\ call + 1 \in 1 .. MaxCalls + 1 /\ 1 \in 0 .. ExitCopies /\ (call + 1) + 1 = call + 2
      BY <1>1, <1>a, NetSyscallAssumption DEF Syscall, SyscallInv, NumberingOK
    <3>. QED BY <3>1, SeqOfStep
  <2>2. NumberingOK'
    BY <1>1, <1>a, <2>1 DEF Syscall, NumberingOK, SeqOf
  <2>3. RequestsOK'
    BY <1>1, <1>a, <2>1, NetSyscallAssumption
    DEF Syscall, SyscallInv, RequestsOK, Numbered, Request, SeqOf
  <2>4. AtMostOnceInOrder' /\ ConsoleOK'
    BY <1>1, <1>a, HostFrame DEF Syscall, hostVars, dedupVars
  <2>5. RetvalsOK'
    BY <1>1, <1>a, NoNewRetvals DEF Syscall, hostVars, dedupVars
  <2>6. ReturnsOwnResult' /\ WaitOK'
    BY <1>1 DEF Syscall, SyscallInv, ReturnsOwnResult, WaitOK, hostVars
  <2>. QED BY <2>2, <2>3, <2>4, <2>5, <2>6 DEF SyscallInv
<1>2. CASE Progexit
  <2>1. nextSeq = SeqOf(call + 1) /\ call + 1 \in 1 .. MaxCalls + 1
    BY <1>2, <1>a, NetSyscallAssumption DEF Progexit, SyscallInv, NumberingOK
  <2>2. \A i \in 0 .. ExitCopies - 1 :
            /\ SeqPlus(nextSeq, i) = SeqOf(call + 1 + i)
            /\ call + 1 + i \in 1 .. call + ExitCopies
    BY <1>a, <2>1, SeqOfStep, NetSyscallAssumption
  <2>3. NumberingOK'
    BY <1>2 DEF Progexit, SyscallInv, NumberingOK
  <2>4. RequestsOK'
    <3>1. ASSUME NEW m \in c2h, m.kind = "req"
          PROVE  /\ m.call \in 1 .. call + ExitCopies /\ m.seq = SeqOf(m.call)
                 /\ m.op # "exit" => m.call \in 1 .. call
      BY <1>2, <1>a, <3>1, NetSyscallAssumption DEF Progexit, SyscallInv, RequestsOK, Numbered
    <3>2. ASSUME NEW i \in 0 .. ExitCopies - 1
          PROVE  LET m == Request(SeqPlus(nextSeq, i), call + 1 + i, "exit")
                 IN  m.call \in 1 .. call + ExitCopies /\ m.seq = SeqOf(m.call) /\ m.op = "exit"
      BY <2>2 DEF Request
    <3>3. Numbered' = call + ExitCopies /\ call' = call
      BY <1>2 DEF Progexit, Numbered
    <3>4. \A m \in c2h' : m \in c2h \/ \E i \in 0 .. ExitCopies - 1 :
                              m = Request(SeqPlus(nextSeq, i), call + 1 + i, "exit")
      BY <1>2 DEF Progexit
    <3>. QED BY <3>1, <3>2, <3>3, <3>4 DEF RequestsOK, SeqOf
  <2>5. AtMostOnceInOrder' /\ ConsoleOK'
    BY <1>2, <1>a, HostFrame DEF Progexit, hostVars, dedupVars
  <2>6. RetvalsOK'
    BY <1>2, <1>a, NoNewRetvals DEF Progexit, hostVars, dedupVars
  <2>7. ReturnsOwnResult' /\ WaitOK'
    BY <1>2 DEF Progexit, SyscallInv, ReturnsOwnResult, WaitOK, hostVars
  <2>. QED BY <2>3, <2>4, <2>5, <2>6, <2>7 DEF SyscallInv
<1>3. ASSUME NEW m \in h2c, AcceptRetval(m) PROVE SyscallInv'
  <2>1. /\ m.val \in 1 .. Len(log) /\ log[m.val] = call /\ m.val \in Nat
    BY <1>3, <1>a, AcceptedIsOwn
  <2>2. NumberingOK' /\ WaitOK' /\ ReturnsOwnResult'
    <3>1. CASE Lossy
      BY <1>3, <2>1, <3>1
      DEF AcceptRetval, SyscallInv, NumberingOK, WaitOK, ReturnsOwnResult, SeqOf, hostVars
    <3>2. CASE ~Lossy
      <4>1. /\ ReturnToGuest(m.val) /\ UNCHANGED <<call, nextSeq, log>>
            /\ cpc \in {"wait", "check"}
        BY <1>3, <3>2 DEF AcceptRetval, hostVars
      <4>. QED BY <2>1, <4>1, ReturnKeepsInv
    <3>. QED BY <3>1, <3>2
  <2>3. cpc' # "halted" /\ cpc # "halted"
    BY <1>3 DEF AcceptRetval, ReturnToGuest
  <2>4. RequestsOK'
    BY <1>3, <2>3 DEF AcceptRetval, SyscallInv, RequestsOK, Numbered, SeqOf
  <2>5. AtMostOnceInOrder' /\ ConsoleOK'
    BY <1>3, <1>a, HostFrame DEF AcceptRetval, hostVars, dedupVars
  <2>6. RetvalsOK'
    BY <1>3, <1>a, NoNewRetvals, DeliverSubset DEF AcceptRetval, hostVars, dedupVars
  <2>. QED BY <2>2, <2>4, <2>5, <2>6 DEF SyscallInv
<1>4. ASSUME NEW m \in h2c, DropRetval(m) PROVE SyscallInv'
  <2>1. UNCHANGED <<clientVars, hostVars, dedupVars, c2h>> /\ h2c' \subseteq h2c
    BY <1>4, DeliverSubset DEF DropRetval
  <2>2. NumberingOK' /\ WaitOK' /\ ReturnsOwnResult' /\ RetvalsOK'
    BY <1>a, <2>1, SameLonger, ClientFrame, NoNewRetvals DEF hostVars, dedupVars
  <2>3. RequestsOK' /\ AtMostOnceInOrder' /\ ConsoleOK'
    BY <1>a, <2>1, RequestsFrame, HostFrame DEF hostVars, dedupVars, clientVars
  <2>. QED BY <2>2, <2>3 DEF SyscallInv
<1>5. ASSUME NEW m \in h2c, RecvBulk(m) PROVE SyscallInv'
  <2>1. /\ UNCHANGED <<cpc, call, seq, nextSeq, retval, escaped, returns>>
        /\ UNCHANGED <<hostVars, dedupVars>> /\ h2c' \subseteq h2c
        /\ cpc # "check"
    BY <1>5, DeliverSubset DEF RecvBulk
  <2>2. mapped \in BOOLEAN
    BY DEF TypeOK, ClientTypeOK
  <2>3. c2h' \subseteq c2h \cup Acks
    <3>1. \A id \in {"LBIN", "DBIN", "SBIN"} : Ack(id, TRUE) \in Acks /\ Ack(id, mapped) \in Acks
      BY <2>2 DEF Ack, Acks
    <3>. QED BY <1>5, <3>1 DEF RecvBulk
  <2>4. RequestsOK' /\ AtMostOnceInOrder' /\ ConsoleOK'
    BY <1>a, <2>1, <2>3, RequestsFrame, HostFrame DEF hostVars, dedupVars
  <2>5. RetvalsOK'
    BY <1>a, <2>1, NoNewRetvals DEF hostVars, dedupVars
  <2>6. NumberingOK' /\ WaitOK' /\ ReturnsOwnResult'
    BY <2>1 DEF SyscallInv, NumberingOK, WaitOK, ReturnsOwnResult, SeqOf, hostVars
  <2>. QED BY <2>4, <2>5, <2>6 DEF SyscallInv
<1>6. CASE Tick \/ LoopTimesOut
  <2>1. /\ UNCHANGED <<call, seq, nextSeq, retval, escaped, returns>>
        /\ UNCHANGED <<hostVars, dedupVars, netVars>>
        /\ cpc \in {"wait", "check"} /\ cpc' \in {"wait", "check"}
    BY <1>6 DEF Tick, LoopTimesOut
  <2>2. NumberingOK' /\ ReturnsOwnResult' /\ RequestsOK'
    BY <2>1 DEF SyscallInv, NumberingOK, ReturnsOwnResult, RequestsOK, Numbered, SeqOf,
                hostVars, netVars
  <2>3. AtMostOnceInOrder' /\ ConsoleOK'
    BY <1>a, <2>1, HostFrame DEF hostVars, dedupVars
  <2>4. RetvalsOK'
    BY <1>a, <2>1, NoNewRetvals DEF hostVars, dedupVars, netVars
  <2>5. WaitOK'
    BY <1>6 DEF Tick, LoopTimesOut, Elapsed, SyscallInv, WaitOK, hostVars, TypeOK, ClientTypeOK
  <2>. QED BY <2>2, <2>3, <2>4, <2>5 DEF SyscallInv
<1>7. CASE WaitReturns \/ GiveUp
  <2>1. /\ UNCHANGED <<call, nextSeq>> /\ UNCHANGED <<hostVars, dedupVars, netVars>>
        /\ cpc = "check" /\ cpc' = "guest"
    BY <1>7 DEF WaitReturns, GiveUp, ReturnToGuest
  <2>2. \E v \in Nat \cup {-1} : /\ ReturnToGuest(v)
                                 /\ v # -1 => v \in 1 .. Len(log) /\ log[v] = call
    <3>1. CASE WaitReturns
      <4>1. /\ retval \in 1 .. Len(log) /\ log[retval] = call /\ retval \in Nat \cup {-1}
            /\ ReturnToGuest(retval)
        BY <3>1 DEF WaitReturns, SyscallInv, WaitOK, TypeOK, ClientTypeOK
      <4>. QED BY <4>1
    <3>2. CASE GiveUp
      <4>1. ReturnToGuest(-1) /\ -1 \in Nat \cup {-1}
        BY <3>2 DEF GiveUp
      <4>. QED BY <4>1
    <3>. QED BY <1>7, <3>1, <3>2
  <2>3. NumberingOK' /\ WaitOK' /\ ReturnsOwnResult'
    BY <2>1, <2>2, ReturnKeepsInv DEF hostVars
  <2>4. RequestsOK'
    BY <2>1 DEF SyscallInv, RequestsOK, Numbered, SeqOf, netVars
  <2>5. AtMostOnceInOrder' /\ ConsoleOK'
    BY <1>a, <2>1, HostFrame DEF hostVars, dedupVars
  <2>6. RetvalsOK'
    BY <1>a, <2>1, NoNewRetvals DEF hostVars, dedupVars, netVars
  <2>. QED BY <2>3, <2>4, <2>5, <2>6 DEF SyscallInv
<1>8. CASE Retransmit
  <2>1. /\ UNCHANGED <<call, seq, nextSeq, returns>> /\ UNCHANGED <<hostVars, dedupVars, h2c>>
        /\ cpc = "check" /\ cpc' = "wait" /\ ~escaped'
        /\ c2h' = c2h \cup {Request(seq, call, op)}
    BY <1>8 DEF Retransmit
  <2>2. NumberingOK' /\ ReturnsOwnResult' /\ WaitOK'
    BY <2>1 DEF SyscallInv, NumberingOK, ReturnsOwnResult, WaitOK, SeqOf, hostVars
  <2>3. call \in 1 .. call /\ seq = SeqOf(call)
    BY <1>a, <2>1 DEF SyscallInv, NumberingOK
  <2>4. RequestsOK'
    BY <2>1, <2>3 DEF SyscallInv, RequestsOK, Numbered, Request, SeqOf
  <2>5. AtMostOnceInOrder' /\ ConsoleOK'
    BY <1>a, <2>1, HostFrame DEF hostVars, dedupVars
  <2>6. RetvalsOK'
    BY <1>a, <2>1, NoNewRetvals DEF hostVars, dedupVars
  <2>. QED BY <2>2, <2>4, <2>5, <2>6 DEF SyscallInv
<1>. QED
  BY <1>1, <1>2, <1>3, <1>4, <1>5, <1>6, <1>7, <1>8 DEF ClientRecv, WaitEnds

-----------------------------------------------------------------------------
(* ... and by those of the host and the network. *)

\* A request that is dispatched is later than every call carried out.
LEMMA FreshIsLater ==
    ASSUME TypeOK, SyscallInv, NEW m \in c2h, Fresh(m), m.op # "exit"
    PROVE  /\ m.call \in 1 .. call /\ m.call \in Nat /\ m.seq = SeqOf(m.call)
           /\ \A i \in 1 .. Len(log) : log[i] < m.call
<1>1. /\ m.call \in 1 .. call /\ m.seq = SeqOf(m.call) /\ hpc = "idle"
      /\ call \in 0 .. MaxCalls /\ log \in Seq(Nat)
      /\ \A i \in 1 .. Len(log) : log[i] \in 1 .. call
  BY DEF Fresh, SyscallInv, RequestsOK, ConsoleOK, TypeOK, ClientTypeOK, HostTypeOK
<1>2. ASSUME Len(log) > 0 PROVE log[Len(log)] < m.call
  <2>1. ~NotAfter(SeqOf(m.call), SeqOf(log[Len(log)]))
    BY <1>1, <1>2 DEF Fresh, SyscallInv, ConsoleOK
  <2>2. m.call \in 1 .. MaxCalls + ExitCopies /\ log[Len(log)] \in 1 .. MaxCalls + ExitCopies
    BY <1>1, <1>2, NetSyscallAssumption
  <2>. QED BY <2>1, <2>2, SeqOfOrder
<1>3. ASSUME NEW i \in 1 .. Len(log) PROVE log[i] < m.call
  <2>1. log[Len(log)] < m.call /\ log[i] \in Nat /\ log[Len(log)] \in Nat /\ m.call \in Nat
    BY <1>1, <1>2
  <2>2. i < Len(log) => log[i] < log[Len(log)]
    BY <1>1 DEF SyscallInv, AtMostOnceInOrder
  <2>. QED BY <1>1, <2>1, <2>2
<1>. QED BY <1>1, <1>3

\* Carrying out a later call keeps the log in order.
LEMMA AppendInOrder ==
    ASSUME TypeOK, SyscallInv, NEW c \in 1 .. call, log' = Append(log, c),
           \A i \in 1 .. Len(log) : log[i] < c
    PROVE  /\ AtMostOnceInOrder' /\ log' \in Seq(Nat) /\ Longer
           /\ Len(log') = Len(log) + 1 /\ log'[Len(log) + 1] = c
           /\ \A i \in 1 .. Len(log') : log'[i] \in 1 .. call
<1>1. /\ log \in Seq(Nat) /\ c \in Nat /\ HostTypeOK
      /\ \A i \in 1 .. Len(log) : log[i] \in 1 .. call
  BY DEF TypeOK, HostTypeOK, ClientTypeOK, SyscallInv, ConsoleOK
<1>2. Longer /\ Len(log') = Len(log) + 1 /\ log'[Len(log) + 1] = c /\ log' \in Seq(Nat)
  BY <1>1, AppendLonger
<1>3. /\ Len(log) \in Nat
      /\ \A i \in 1 .. Len(log') : \/ i \in 1 .. Len(log) /\ log'[i] = log[i]
                                   \/ i = Len(log) + 1 /\ log'[i] = c
  <2>1. Len(log) \in Nat
    BY <1>1
  <2>2. \A i \in 1 .. Len(log) + 1 : i \in 1 .. Len(log) \/ i = Len(log) + 1
    BY <2>1
  <2>. QED BY <1>2, <2>1, <2>2 DEF Longer
<1>4. \A i \in 1 .. Len(log') : log'[i] \in 1 .. call
  BY <1>1, <1>3
<1>5. AtMostOnceInOrder'
  <2>1. SUFFICES ASSUME NEW i \in 1 .. Len(log'), NEW j \in 1 .. Len(log'), i < j
                 PROVE  log'[i] < log'[j]
    BY DEF AtMostOnceInOrder
  <2>2. i \in 1 .. Len(log) /\ log'[i] = log[i]
    BY <1>2, <1>3, <2>1
  <2>3. CASE j = Len(log) + 1
    BY <1>3, <2>2, <2>3
  <2>4. CASE j \in 1 .. Len(log)
    BY <1>3, <2>1, <2>2, <2>4 DEF SyscallInv, AtMostOnceInOrder
  <2>. QED BY <1>2, <1>3, <2>3, <2>4
<1>. QED BY <1>2, <1>4, <1>5

\* The packets of a capture or a burst.
LEMMA SentPackets ==
    ASSUME NEW ms, NEW S,
           \A i \in 1 .. Len(ms) : ms[i] \in S
    PROVE  /\ Send(ms) => h2c' \subseteq h2c \cup S
           /\ Capture(ms) => pkts' \subseteq pkts \cup S
           /\ BeginCapture(ms) => pkts' \subseteq S
BY DEF Send, Capture, BeginCapture

\* Commands are no RETVALs, and a RETVAL with its call's number and an
\* execution of that call is in order.
LEMMA CommandsAreOwn ==
    ASSUME NEW m \in Commands PROVE OwnAfter(m)
BY DEF Commands, OwnAfter

LEMMA RetvalIsOwn ==
    ASSUME NEW r, NEW s, NEW v, r = Retval(s, v), v \in 1 .. Len(log'), s = SeqOf(log'[v])
    PROVE  OwnAfter(r)
BY DEF OwnAfter, Retval

\* The commands a bulk leg sends.
LEMMA CommandPackets ==
    /\ \A id \in {"LBIN", "PBIN", "DBIN", "SBIQ"} : Command(id) \in Commands
    /\ \A id \in {"LBIN", "PBIN", "DBIN", "SBIQ"} :
            \A i \in 1 .. Len(<<Command(id)>>) : <<Command(id)>>[i] \in Commands
    /\ \A i \in 1 .. Len(Burst) : Burst[i] \in Commands
<1>1. \A id \in {"LBIN", "PBIN", "DBIN", "SBIQ"} : Command(id) \in Commands
  BY DEF Command, Commands
<1>. QED BY <1>1 DEF Burst

\* The last step of a handler.
LEMMA FinishKeepsInv ==
    ASSUME TypeOK, SyscallInv, Busy, Finish, call' = call
    PROVE  /\ AtMostOnceInOrder' /\ ConsoleOK' /\ RetvalsOK'
           /\ Longer /\ log' \in Seq(Nat)
<1>a. /\ cur.call \in 1 .. call /\ cur.seq = SeqOf(cur.call) /\ log \in Seq(Nat)
      /\ HostTypeOK /\ \A i \in 1 .. Len(log) : log[i] \in 1 .. call
  BY DEF SyscallInv, ConsoleOK, TypeOK, HostTypeOK
<1>1. /\ AtMostOnceInOrder' /\ Longer /\ log' \in Seq(Nat)
      /\ \A i \in 1 .. Len(log') : log'[i] \in 1 .. call
      /\ Len(log') > 0 /\ log'[Len(log')] = cur.call
  <2>1. CASE hpc = "sendbinq"
    <3>1. log' = Append(log, cur.call) /\ \A i \in 1 .. Len(log) : log[i] < cur.call
      BY <2>1 DEF Finish, SyscallInv, ConsoleOK
    <3>. QED BY <1>a, <3>1, AppendInOrder
  <2>2. CASE hpc # "sendbinq"
    <3>1. log' = log /\ Len(log) > 0 /\ log[Len(log)] = cur.call
      BY <2>2 DEF Finish, SyscallInv, ConsoleOK
    <3>. QED BY <1>a, <3>1, SameLonger DEF SyscallInv, AtMostOnceInOrder
  <2>. QED BY <2>1, <2>2
<1>2. ConsoleOK'
  <2>1. /\ hpc' = "idle" /\ valid' = TRUE /\ dseq' = cur.seq
    BY DEF Finish, EndCapture
  <2>. QED BY <1>1, <1>a, <2>1 DEF ConsoleOK, Busy, SeqOf
<1>3. RetvalsOK'
  <2>1. PICK r, s, v : r = Retval(s, v) /\ s = cur.seq /\ v = Len(log')
    OBVIOUS
  <2>2. v \in 1 .. Len(log') /\ s = SeqOf(log'[v])
    BY <1>1, <1>a, <2>1
  <2>3. \A m \in {r} : OwnAfter(m)
    BY <2>1, <2>2, RetvalIsOwn
  <2>4. h2c' \subseteq h2c \cup {r} /\ pkts' \subseteq pkts \cup {r}
    <3>1. Send(<<r>>) /\ Capture(<<r>>) /\ \A i \in 1 .. Len(<<r>>) : <<r>>[i] \in {r}
      BY <2>1 DEF Finish
    <3>. QED BY <3>1 DEF Send, Capture
  <2>5. h2c' \subseteq h2c \cup pkts \cup {r}
    BY <2>4
  <2>6. PICK new : new = {r}
    OBVIOUS
  <2>7. /\ \A m \in new : OwnAfter(m)
        /\ h2c' \subseteq h2c \cup pkts \cup new /\ pkts' \subseteq pkts \cup new
    BY <2>3, <2>4, <2>5, <2>6
  <2>. QED BY <1>1, <2>7, RetvalsFrame
<1>. QED BY <1>1, <1>2, <1>3

\* Every other step of a bulk leg.
LEMMA ProceedKeepsInv ==
    ASSUME TypeOK, SyscallInv, Busy, hpc # "sendbinq", NEW phase, NEW ms,
           \A i \in 1 .. Len(ms) : ms[i] \in Commands,
           phase \in {"donebin", "loadbin2", "donebin2", "recover", "reload"},
           Proceed(phase, ms), call' = call
    PROVE  /\ AtMostOnceInOrder' /\ ConsoleOK' /\ RetvalsOK'
           /\ Longer /\ log' \in Seq(Nat)
<1>1. log' = log /\ cur' = cur /\ hpc' = phase /\ HostTypeOK /\ log \in Seq(Nat)
  BY DEF Proceed, TypeOK, HostTypeOK
<1>2. AtMostOnceInOrder' /\ ConsoleOK'
  BY <1>1 DEF SyscallInv, AtMostOnceInOrder, ConsoleOK, Busy, SeqOf
<1>3. h2c' \subseteq h2c \cup Commands /\ pkts' \subseteq pkts \cup Commands
  BY SentPackets DEF Proceed
<1>4. Longer /\ log' \in Seq(Nat)
  BY <1>1, SameLonger
<1>5. RetvalsOK'
  BY <1>3, <1>4, CommandsAreOwn, RetvalsFrame
<1>. QED BY <1>2, <1>4, <1>5

\* A host step that leaves the client alone and asks for nothing new.
LEMMA HostStepKeepsInv ==
    ASSUME TypeOK, SyscallInv, UNCHANGED clientVars, c2h' \subseteq c2h,
           Longer, log' \in Seq(Nat), AtMostOnceInOrder', ConsoleOK', RetvalsOK'
    PROVE  SyscallInv'
<1>1. UNCHANGED <<call, cpc>>
  BY DEF clientVars
<1>2. NumberingOK' /\ WaitOK' /\ ReturnsOwnResult'
  BY ClientFrame
<1>3. RequestsOK'
  BY <1>1, RequestsFrame
<1>. QED BY <1>2, <1>3 DEF SyscallInv

\* Replaying and dropping datagrams, and losing them.
LEMMA IdleStepKeepsInv ==
    ASSUME TypeOK, SyscallInv,
           UNCHANGED <<clientVars, hostVars, dedupVars>>,
           c2h' \subseteq c2h, h2c' \subseteq h2c \cup pkts
    PROVE  SyscallInv'
<1>1. /\ HostTypeOK /\ log \in Seq(Nat) /\ call \in Nat
      /\ UNCHANGED <<hpc, cur, log, dseq, valid, call, pkts>>
  BY DEF TypeOK, HostTypeOK, ClientTypeOK, clientVars, hostVars, dedupVars
<1>2. Longer /\ log' \in Seq(Nat)
  BY <1>1, SameLonger
<1>3. AtMostOnceInOrder' /\ ConsoleOK'
  BY <1>1, HostFrame
<1>4. RetvalsOK'
  BY <1>1, NoNewRetvals
<1>. QED BY <1>2, <1>3, <1>4, HostStepKeepsInv

\* A request is dispatched.
LEMMA DispatchKeepsInv ==
    ASSUME TypeOK, SyscallInv, NEW m \in c2h,
           DispatchSimple(m) \/ DispatchPush(m) \/ DispatchPull(m) \/ DispatchExit(m)
    PROVE  SyscallInv'
<1>a. /\ Fresh(m) /\ hpc = "idle" /\ UNCHANGED clientVars /\ UNCHANGED call
      /\ HostTypeOK /\ log \in Seq(Nat) /\ call \in Nat
  BY DEF DispatchSimple, DispatchPush, DispatchPull, DispatchExit, Fresh, TypeOK,
         HostTypeOK, ClientTypeOK, clientVars
<1>b. c2h' \subseteq c2h
  BY <1>a, DeliverSubset DEF Fresh
<1>c. Command("LBIN") \in Commands /\ Command("SBIQ") \in Commands
  BY CommandPackets
<1>1. CASE DispatchSimple(m)
  <2>1. /\ m.call \in 1 .. call /\ m.call \in Nat /\ m.seq = SeqOf(m.call)
        /\ \A i \in 1 .. Len(log) : log[i] < m.call
    BY <1>a, <1>1, FreshIsLater DEF DispatchSimple
  <2>2. /\ AtMostOnceInOrder' /\ log' \in Seq(Nat) /\ Longer
        /\ Len(log') = Len(log) + 1 /\ log'[Len(log) + 1] = m.call
        /\ \A i \in 1 .. Len(log') : log'[i] \in 1 .. call
    BY <1>1, <2>1, AppendInOrder DEF DispatchSimple
  <2>3. ConsoleOK'
    <3>1. /\ hpc' = "idle" /\ valid' = TRUE /\ dseq' = m.seq
      BY <1>1, <1>a DEF DispatchSimple, EndCapture
    <3>2. Len(log') > 0 /\ dseq' = SeqOf(log'[Len(log')])
      BY <1>a, <2>1, <2>2, <3>1
    <3>. QED BY <1>a, <2>2, <3>1, <3>2 DEF ConsoleOK, Busy, SeqOf
  <2>4. RetvalsOK'
    <3>1. PICK r, s, v : r = Retval(s, v) /\ s = m.seq /\ v = Len(log) + 1
      OBVIOUS
    <3>2. v \in 1 .. Len(log') /\ s = SeqOf(log'[v])
      BY <1>a, <2>1, <2>2, <3>1
    <3>3. OwnAfter(r)
      BY <3>1, <3>2, RetvalIsOwn
    <3>4. h2c' \subseteq h2c \cup {r} /\ pkts' \subseteq {r}
      <4>1. Send(<<r>>) /\ BeginCapture(<<r>>) /\ \A i \in 1 .. Len(<<r>>) : <<r>>[i] \in {r}
        BY <1>1, <3>1 DEF DispatchSimple
      <4>. QED BY <4>1 DEF Send, BeginCapture
    <3>5. PICK new : new = {r}
      OBVIOUS
    <3>6. /\ \A x \in new : OwnAfter(x)
          /\ h2c' \subseteq h2c \cup pkts \cup new /\ pkts' \subseteq pkts \cup new
      BY <3>3, <3>4, <3>5
    <3>. QED BY <2>2, <3>6, RetvalsFrame
  <2>. QED BY <1>a, <1>b, <2>2, <2>3, <2>4, HostStepKeepsInv
<1>2. CASE DispatchPush(m)
  <2>1. /\ m.call \in 1 .. call /\ m.call \in Nat /\ m.seq = SeqOf(m.call)
        /\ \A i \in 1 .. Len(log) : log[i] < m.call
    BY <1>a, <1>2, FreshIsLater DEF DispatchPush
  <2>2. /\ AtMostOnceInOrder' /\ log' \in Seq(Nat) /\ Longer
        /\ Len(log') = Len(log) + 1 /\ log'[Len(log) + 1] = m.call
        /\ \A i \in 1 .. Len(log') : log'[i] \in 1 .. call
    BY <1>2, <2>1, AppendInOrder DEF DispatchPush
  <2>3. ConsoleOK'
    <3>1. hpc' = "loadbin" /\ cur' = m /\ m.op = "push"
      BY <1>2 DEF DispatchPush
    <3>2. Len(log') > 0 /\ log'[Len(log')] = m.call
      BY <1>a, <2>2
    <3>. QED BY <1>a, <2>1, <2>2, <3>1, <3>2 DEF ConsoleOK, Busy, SeqOf
  <2>4. RetvalsOK'
    <3>1. h2c' \subseteq h2c \cup Commands /\ pkts' \subseteq Commands
      BY <1>2, <1>c DEF DispatchPush, Send, BeginCapture
    <3>. QED BY <2>2, <3>1, CommandsAreOwn, RetvalsFrame
  <2>. QED BY <1>a, <1>b, <2>2, <2>3, <2>4, HostStepKeepsInv
<1>3. CASE DispatchPull(m)
  <2>1. /\ m.call \in 1 .. call /\ m.call \in Nat /\ m.seq = SeqOf(m.call)
        /\ \A i \in 1 .. Len(log) : log[i] < m.call
    BY <1>a, <1>3, FreshIsLater DEF DispatchPull
  <2>2. /\ hpc' = "sendbinq" /\ cur' = m /\ m.op = "pull" /\ UNCHANGED <<log, dseq, valid>>
    BY <1>3 DEF DispatchPull
  <2>3. Longer /\ log' \in Seq(Nat)
    BY <1>a, <2>2, SameLonger
  <2>4. AtMostOnceInOrder' /\ ConsoleOK'
    BY <1>a, <2>1, <2>2 DEF SyscallInv, AtMostOnceInOrder, ConsoleOK, Busy, SeqOf
  <2>5. RetvalsOK'
    <3>1. h2c' \subseteq h2c \cup Commands /\ pkts' \subseteq Commands
      BY <1>3, <1>c DEF DispatchPull, Send, BeginCapture
    <3>. QED BY <2>3, <3>1, CommandsAreOwn, RetvalsFrame
  <2>. QED BY <1>a, <1>b, <2>3, <2>4, <2>5, HostStepKeepsInv
<1>4. CASE DispatchExit(m)
  <2>1. hpc' = "exited" /\ UNCHANGED <<log, h2c>> /\ pkts' = {}
    BY <1>4 DEF DispatchExit, BeginCapture
  <2>2. Longer /\ log' \in Seq(Nat)
    BY <1>a, <2>1, SameLonger
  <2>3. AtMostOnceInOrder' /\ ConsoleOK'
    BY <1>a, <2>1 DEF SyscallInv, AtMostOnceInOrder, ConsoleOK, Busy
  <2>4. RetvalsOK'
    BY <2>1 DEF SyscallInv, RetvalsOK, IsOwn, SeqOf
  <2>. QED BY <1>a, <1>b, <2>2, <2>3, <2>4, HostStepKeepsInv
<1>. QED BY <1>1, <1>2, <1>3, <1>4

\* A bulk leg goes on, or ends.
LEMMA BulkKeepsInv ==
    ASSUME TypeOK, SyscallInv, (\E m \in c2h : RecvAwaited(m)) \/ Resend \/ Exhausted
    PROVE  SyscallInv'
<1>a. /\ UNCHANGED clientVars /\ UNCHANGED call
  BY DEF RecvAwaited, Resend, Exhausted, clientVars
<1>b. c2h' \subseteq c2h
  BY DeliverSubset DEF RecvAwaited, Resend, Exhausted
<1>c. /\ Busy
  BY DEF RecvAwaited, Resend, Exhausted, Awaited, Busy, TypeOK, NetTypeOK, Requests, Acks
<1>d. HostTypeOK /\ log \in Seq(Nat)
  BY DEF TypeOK, HostTypeOK
<1>1. CASE Resend
  <2>1. UNCHANGED <<hpc, cur, log, dseq, valid, call>> /\ call \in Nat
    BY <1>1, <1>a DEF Resend, TypeOK, ClientTypeOK
  <2>2. h2c' \subseteq h2c \cup Commands /\ pkts' \subseteq pkts \cup Commands
    BY <1>1, CommandPackets DEF Resend, Send, Capture, Awaited
  <2>3. Longer /\ log' \in Seq(Nat)
    BY <1>d, <2>1, SameLonger
  <2>4. AtMostOnceInOrder' /\ ConsoleOK'
    BY <2>1, HostFrame
  <2>5. RetvalsOK'
    BY <2>2, <2>3, CommandsAreOwn, RetvalsFrame
  <2>. QED BY <1>a, <1>b, <2>3, <2>4, <2>5, HostStepKeepsInv
<1>2. CASE Finish
  BY <1>2, <1>a, <1>b, <1>c, FinishKeepsInv, HostStepKeepsInv
<1>3. ASSUME hpc # "sendbinq",
             NEW phase \in {"donebin", "loadbin2", "donebin2", "recover", "reload"},
             Proceed(phase, Burst) \/ Proceed(phase, <<Command("LBIN")>>)
      PROVE  SyscallInv'
  <2>1. PICK ms : Proceed(phase, ms) /\ \A i \in 1 .. Len(ms) : ms[i] \in Commands
    BY <1>3, CommandPackets
  <2>2. /\ AtMostOnceInOrder' /\ ConsoleOK' /\ RetvalsOK'
        /\ Longer /\ log' \in Seq(Nat)
    BY <1>3, <1>a, <1>c, <2>1, ProceedKeepsInv
  <2>. QED BY <1>a, <1>b, <2>2, HostStepKeepsInv
<1>4. CASE \E m \in c2h : RecvAwaited(m)
  <2>1. \/ Finish
        \/ /\ hpc # "sendbinq"
           /\ \E phase \in {"donebin", "donebin2", "recover"} : Proceed(phase, Burst)
    BY <1>4 DEF RecvAwaited, Awaited
  <2>. QED BY <1>2, <1>3, <2>1
<1>5. CASE Exhausted
  <2>1. \/ Finish
        \/ /\ hpc # "sendbinq"
           /\ \E phase \in {"loadbin2", "reload"} : Proceed(phase, <<Command("LBIN")>>)
    BY <1>5 DEF Exhausted
  <2>. QED BY <1>2, <1>3, <2>1
<1>. QED BY <1>1, <1>4, <1>5

LEMMA HostKeepsInv ==
    ASSUME TypeOK, SyscallInv, HostRecv \/ HostTimesOut \/ Lose
    PROVE  SyscallInv'
<1>1. ASSUME NEW m \in c2h, Replay(m) \/ DropAtIdle(m) \/ DropInBulk(m) PROVE SyscallInv'
  <2>1. /\ UNCHANGED <<clientVars, hostVars, dedupVars>>
        /\ c2h' \subseteq c2h /\ h2c' \subseteq h2c \cup pkts
    BY <1>1, DeliverSubset DEF Replay, DropAtIdle, DropInBulk
  <2>. QED BY <2>1, IdleStepKeepsInv
<1>2. CASE Lose
  <2>1. /\ UNCHANGED <<clientVars, hostVars, dedupVars>>
        /\ c2h' \subseteq c2h /\ h2c' \subseteq h2c \cup pkts
    BY <1>2 DEF Lose
  <2>. QED BY <2>1, IdleStepKeepsInv
<1>3. ASSUME NEW m \in c2h,
             DispatchSimple(m) \/ DispatchPush(m) \/ DispatchPull(m) \/ DispatchExit(m)
      PROVE  SyscallInv'
  BY <1>3, DispatchKeepsInv
<1>4. CASE (\E m \in c2h : RecvAwaited(m)) \/ Resend \/ Exhausted
  BY <1>4, BulkKeepsInv
<1>. QED BY <1>1, <1>2, <1>3, <1>4 DEF HostRecv, HostTimesOut

-----------------------------------------------------------------------------
(* The invariant holds. *)

LEMMA InvInit == Init => SyscallInv
<1>1. ASSUME Init PROVE NumberingOK
  <2>1. SeqOf(0 + 1) = FirstSeq
    BY NetSyscallAssumption DEF SeqOf, SeqPlus, SeqMod
  <2>. QED BY <1>1, <2>1 DEF Init, NumberingOK
<1>2. ASSUME Init PROVE /\ AtMostOnceInOrder /\ ReturnsOwnResult /\ RequestsOK
                        /\ ConsoleOK /\ RetvalsOK /\ WaitOK
  BY <1>2 DEF Init, AtMostOnceInOrder, ReturnsOwnResult, RequestsOK, ConsoleOK, Busy,
              RetvalsOK, WaitOK
<1>. QED BY <1>1, <1>2 DEF SyscallInv

LEMMA InvStep ==
    ASSUME TypeOK, SyscallInv, [Next]_vars
    PROVE  SyscallInv'
<1>1. CASE UNCHANGED vars
  <2>1. UNCHANGED <<clientVars, hostVars, dedupVars>> /\ c2h' = c2h /\ h2c' = h2c
    BY <1>1 DEF vars, netVars
  <2>. QED BY <2>1, IdleStepKeepsInv
<1>2. CASE Next
  BY <1>2, ClientKeepsInv, HostKeepsInv DEF Next
<1>. QED BY <1>1, <1>2

\* Over an unreliable network, for every number of calls, every first sequence
\* number (the wrap included), every retry budget, window and cache size: the
\* whole inductive invariant of the syscall exchange.
THEOREM SyscallCorrect == Spec => []SyscallInv
<1>1. Spec => []TypeOK
  BY TypeCorrect
<1>2. TypeOK /\ SyscallInv /\ [Next]_vars => SyscallInv'
  BY InvStep
<1>. QED BY <1>1, <1>2, InvInit, PTL DEF Spec

\* No syscall is carried out twice or out of order (dedup_try_replay and
\* dedup_is_stale).
THEOREM AtMostOnce == Spec => []AtMostOnceInOrder
<1>1. SyscallInv => AtMostOnceInOrder
  BY DEF SyscallInv
<1>. QED BY <1>1, SyscallCorrect, PTL

\* No call returns the result of another (the trailer check of cmd_retval).
THEOREM OwnResult == Spec => []ReturnsOwnResult
<1>1. SyscallInv => ReturnsOwnResult
  BY DEF SyscallInv
<1>. QED BY <1>1, SyscallCorrect, PTL

-----------------------------------------------------------------------------
(* The exchange implements the promise made to the guest. *)

\* What the guest can see of a step: a call issued, carried out or returned.
LEMMA GuestSteps ==
    ASSUME TypeOK, SyscallInv, [Next]_vars, ~ UNCHANGED <<call, log, returns>>
    PROVE  \/ /\ call < MaxCalls /\ Len(returns) = call /\ call' = call + 1
              /\ UNCHANGED <<log, returns>>
           \/ /\ \E c \in 1 .. call : /\ \A i \in 1 .. Len(log) : log[i] < c
                                      /\ log' = Append(log, c)
              /\ UNCHANGED <<call, returns>>
           \/ /\ Len(returns) < call
              /\ \E v \in {-1} \cup (1 .. Len(log)) :
                     (v # -1 => log[v] = call) /\ returns' = Append(returns, v)
              /\ UNCHANGED <<call, log>>
<1>1. ASSUME NEW o \in Ops, Syscall(o)
      PROVE  call < MaxCalls /\ Len(returns) = call /\ call' = call + 1 /\ UNCHANGED <<log, returns>>
  BY <1>1 DEF Syscall, SyscallInv, NumberingOK, hostVars
<1>2. CASE (\E m \in h2c : AcceptRetval(m)) \/ WaitReturns \/ GiveUp
  <2>1. Len(returns) < call /\ UNCHANGED <<call, log>>
    BY <1>2 DEF AcceptRetval, WaitReturns, GiveUp, SyscallInv, NumberingOK, hostVars,
                TypeOK, ClientTypeOK
  <2>2. CASE \E m \in h2c : AcceptRetval(m)
    <3>1. PICK m \in h2c : AcceptRetval(m)
      BY <2>2
    <3>2. m.val \in 1 .. Len(log) /\ log[m.val] = call /\ returns' = Append(returns, m.val)
      BY <3>1, AcceptedIsOwn DEF AcceptRetval, ReturnToGuest, hostVars
    <3>. QED BY <2>1, <3>2
  <2>3. CASE WaitReturns
    <3>1. retval \in 1 .. Len(log) /\ log[retval] = call /\ returns' = Append(returns, retval)
      BY <2>3 DEF WaitReturns, ReturnToGuest, SyscallInv, WaitOK
    <3>. QED BY <2>1, <3>1
  <2>4. CASE GiveUp
    <3>1. returns' = Append(returns, -1)
      BY <2>4 DEF GiveUp, ReturnToGuest
    <3>. QED BY <2>1, <3>1
  <2>. QED BY <1>2, <2>2, <2>3, <2>4
<1>3. ASSUME NEW m \in c2h, DispatchSimple(m) \/ DispatchPush(m)
      PROVE  /\ \E c \in 1 .. call : (\A i \in 1 .. Len(log) : log[i] < c) /\ log' = Append(log, c)
             /\ UNCHANGED <<call, returns>>
  <2>1. Fresh(m) /\ m.op # "exit" /\ log' = Append(log, m.call) /\ UNCHANGED <<call, returns>>
    BY <1>3 DEF DispatchSimple, DispatchPush, Fresh, clientVars
  <2>. QED BY <2>1, FreshIsLater
<1>4. CASE (\E m \in c2h : RecvAwaited(m)) \/ Exhausted
  <2>1. UNCHANGED <<call, returns>>
    BY <1>4 DEF RecvAwaited, Exhausted, clientVars
  <2>2. Finish /\ Busy
    BY <1>4, <2>1 DEF RecvAwaited, Exhausted, Proceed, Awaited, Busy, TypeOK, NetTypeOK,
                      Requests, Acks
  <2>3. cur.op = "pull" /\ log' = Append(log, cur.call)
    BY <2>1, <2>2 DEF Finish
  <2>4. cur.call \in 1 .. call /\ \A i \in 1 .. Len(log) : log[i] < cur.call
    BY <2>2, <2>3 DEF SyscallInv, ConsoleOK
  <2>. QED BY <2>1, <2>3, <2>4
<1>5. CASE \/ Progexit \/ Tick \/ LoopTimesOut \/ Retransmit \/ Resend \/ Lose
           \/ \E m \in h2c : DropRetval(m) \/ RecvBulk(m)
           \/ \E m \in c2h : Replay(m) \/ DropAtIdle(m) \/ DispatchPull(m) \/ DispatchExit(m)
                               \/ DropInBulk(m)
           \/ UNCHANGED vars
  BY <1>5 DEF Progexit, Tick, LoopTimesOut, Retransmit, Resend, Lose, DropRetval, RecvBulk,
              Replay, DropAtIdle, DispatchPull, DispatchExit, DropInBulk, Fresh, vars,
              clientVars, hostVars
<1>. QED BY <1>1, <1>2, <1>3, <1>4, <1>5
     DEF Next, ClientRecv, WaitEnds, HostRecv, HostTimesOut

\* The client, the cache and the console loop implement Rpc: the guest sees
\* calls that are issued one at a time, carried out at most once and in order,
\* and answered with -1 or their own result (kos_syscall_wait_for_retval,
\* cmd_retval and do_network_console together).
THEOREM SyscallImplementsRpc == Spec => KeepsPromise
<1>1. Init => Promise!RpcInit
  BY DEF Init, Promise!RpcInit
<1>2. TypeOK /\ SyscallInv /\ [Next]_vars => [Promise!RpcNext]_(Promise!rpcVars)
  BY GuestSteps DEF Promise!RpcNext, Promise!Issue, Promise!Execute, Promise!Return,
                    Promise!rpcVars
<1>. QED BY <1>1, <1>2, TypeCorrect, SyscallCorrect, PTL DEF Spec, KeepsPromise, Promise!RpcSpec


-----------------------------------------------------------------------------
(* The cache of an idle host. *)

\* Opening a capture with one datagram, or adding one where there is room,
\* puts it into the cache.
LEMMA CapturesOne ==
    ASSUME TypeOK, NEW m,
           BeginCapture(<<m>>) \/ (Capture(<<m>>) /\ npkts' < DedupMax)
    PROVE  m \in pkts'
<1>1. <<m>>[1] = m /\ Len(<<m>>) = 1 /\ 1 \in 1 .. Len(<<m>>)
  OBVIOUS
<1>2. DedupMax \in Nat \ {0} /\ npkts \in Nat
  BY NetSyscallAssumption DEF TypeOK, CacheTypeOK
<1>3. CASE BeginCapture(<<m>>)
  BY <1>1, <1>2, <1>3 DEF BeginCapture
<1>4. CASE Capture(<<m>>) /\ npkts' < DedupMax
  <2>1. npkts + 1 <= DedupMax
    BY <1>1, <1>2, <1>4 DEF Capture
  <2>. QED BY <1>1, <1>4, <2>1 DEF Capture
<1>. QED BY <1>3, <1>4

LEMMA ReplayStep == TypeOK /\ ReplayAnswers /\ [Next]_vars => ReplayAnswers'
<1>. SUFFICES ASSUME TypeOK, ReplayAnswers, [Next]_vars
              PROVE  ReplayAnswers'
  OBVIOUS
<1>1. CASE UNCHANGED <<hpc, log, dedupVars>>
  BY <1>1 DEF ReplayAnswers, dedupVars
<1>2. CASE hpc' # "idle"
  BY <1>2 DEF ReplayAnswers
<1>3. ASSUME NEW m \in c2h, DispatchSimple(m)
      PROVE  ReplayAnswers'
  <2>1. Len(log') = Len(log) + 1 /\ dseq' = m.seq
    BY <1>3 DEF DispatchSimple, EndCapture, TypeOK, HostTypeOK
  <2>2. Retval(m.seq, Len(log) + 1) \in pkts'
    BY <1>3, CapturesOne DEF DispatchSimple
  <2>. QED BY <2>1, <2>2 DEF ReplayAnswers
<1>4. CASE Finish
  <2>1. Capture(<<Retval(cur.seq, Len(log'))>>) /\ dseq' = cur.seq
    BY <1>4 DEF Finish, EndCapture
  <2>. QED BY <2>1, CapturesOne DEF ReplayAnswers
<1>5. ASSUME \E m \in c2h : \/ Replay(m) \/ DropAtIdle(m) \/ DropInBulk(m)
                            \/ DispatchPush(m) \/ DispatchPull(m) \/ DispatchExit(m)
                            \/ RecvAwaited(m)
      PROVE  UNCHANGED <<hpc, log, dedupVars>> \/ hpc' # "idle" \/ Finish
  BY <1>5 DEF Replay, DropAtIdle, DropInBulk, DispatchPush, DispatchPull, DispatchExit,
              RecvAwaited, Proceed, hostVars
<1>6. ASSUME HostTimesOut
      PROVE  hpc' # "idle" \/ Finish
  BY <1>6 DEF HostTimesOut, Resend, Awaited, Exhausted, Proceed
<1>7. ASSUME (\E o \in Ops : Syscall(o)) \/ Progexit \/ ClientRecv \/ Tick \/ LoopTimesOut
             \/ WaitEnds \/ Lose \/ UNCHANGED vars
      PROVE  UNCHANGED <<hpc, log, dedupVars>>
  BY <1>7 DEF Syscall, Progexit, ClientRecv, AcceptRetval, DropRetval, RecvBulk, Tick,
              LoopTimesOut, WaitEnds, WaitReturns, Retransmit, GiveUp, Lose, hostVars, vars
<1>. QED BY <1>1, <1>2, <1>3, <1>4, <1>5, <1>6, <1>7 DEF Next, HostRecv

\* Whatever the phases of the last call were, the RETVAL an idle host would
\* send again answers that call, unless the capture is full
\* (dedup_begin_capture, dedup_capture_pkt, dedup_end_capture).
THEOREM ReplaysAnswer == Spec => []ReplayAnswers
<1>1. Init => ReplayAnswers
  BY DEF Init, ReplayAnswers
<1>. QED BY <1>1, TypeCorrect, ReplayStep, PTL DEF Spec
=============================================================================
