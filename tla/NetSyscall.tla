----------------------------- MODULE NetSyscall -----------------------------
(***************************************************************************)
(* A guest program's syscalls over UDP: the client side                    *)
(* (client/common/network/network_syscalls.c, cmd_retval and the bulk      *)
(* handlers of client/common/core/commands.c, the Wii adapter's wait loop) *)
(* and the host side (do_network_console in host/src/console.c and the     *)
(* duplicate-request cache of host/src/dedup.c), over a network that may   *)
(* lose, duplicate and reorder datagrams.                                  *)
(*                                                                         *)
(* A call is one of                                                        *)
(*   "simple"  answered by one RETVAL (open, lseek, readdir, a small       *)
(*             write with its bytes inline, ...);                          *)
(*   "push"    the host first pushes data into guest memory with           *)
(*             LOADBIN / PARTBIN / DONEBIN (read, and fstat, stat without  *)
(*             inline return);                                             *)
(*   "pull"    the host first pulls guest memory with SENDBINQ (write).    *)
(* The bytes themselves are the subject of NetUpload and NetDownload; here *)
(* a bulk leg is one chunk, enough to lose it and to ask for it again.     *)
(*                                                                         *)
(* Time is abstracted to what the code compares.  clock says where the     *)
(* client's tick counter stands between the local `deadline` of            *)
(* kos_syscall_wait_for_retval and the global loop_deadline_ticks that the *)
(* bulk handlers push forward; age counts client timeout intervals since   *)
(* the host's captured_at_us.                                              *)
(***************************************************************************)
EXTENDS Integers, Sequences, FiniteSets

CONSTANTS
    MaxCalls,       \* bound: calls the guest issues before it exits
    ExitCopies,     \* PROGEXIT_RETRANSMIT_COUNT
    HalfSeq,        \* 2^31: half of the sequence-number space
    FirstSeq,       \* kos_syscall_next_seq when the host's session starts
    Lossy,          \* bb->lossy: the adapter asks for bounded waits
    MaxRetries,     \* KOS_SYSCALL_MAX_RETRIES
    Window,         \* DEDUP_WINDOW_USEC in units of KOS_SYSCALL_RETRY_MS
    DedupMax,       \* DEDUP_MAX_PACKETS
    MaxTries,       \* MAX_CMD_RETRIES
    MaxLoss,        \* bound: datagrams the network loses
    NetDups,        \* TRUE: the network may deliver a datagram again
    Ops             \* the kinds of call the guest makes

ASSUME NetSyscallAssumption ==
    /\ MaxCalls \in Nat /\ ExitCopies \in Nat \ {0}
    /\ HalfSeq \in Nat /\ MaxCalls + ExitCopies + 1 < HalfSeq
    /\ FirstSeq \in 1 .. 2 * HalfSeq - 1
    /\ Lossy \in BOOLEAN /\ NetDups \in BOOLEAN
    /\ MaxRetries \in Nat /\ Window \in Nat
    /\ DedupMax \in Nat \ {0} /\ MaxTries \in Nat \ {0} /\ MaxLoss \in Nat
    /\ Ops \subseteq {"simple", "push", "pull"}

VARIABLES
    cpc,        \* client: "guest" | "wait" | "check" | "halted"
    call,       \* client (history): number of the last call issued
    seq,        \* client: kos_syscall_seq
    nextSeq,    \* client: kos_syscall_next_seq
    op,         \* client: kind of the request in kos_syscall_save_pkt
    retry,      \* client: the loop variable of the bounded wait
    clock,      \* client: see above
    retval,     \* client: syscall_retval
    escaped,    \* client: cmd_retval ended the current bb->loop(0)
    mapped,     \* client: the received-chunk map is complete
    hpc,        \* host: "idle", a phase of a bulk leg, or "exited"
    cur,        \* host: the request being serviced
    tries,      \* host: attempts of the current command
    pkts,       \* host: state.packets[] (capture buffer and cache)
    npkts,      \* host: capture_count / packet_count
    dseq,       \* host: state.seq
    valid,      \* host: state.valid
    age,        \* host: now - captured_at_us, capped past the window
    log,        \* host (history): calls carried out, in order
    returns,    \* client (history): what each call returned
    c2h,        \* datagrams in flight to the host
    h2c,        \* datagrams in flight to the client
    lost        \* datagrams lost so far

clientVars == <<cpc, call, seq, nextSeq, op, retry, clock, retval, escaped,
                mapped, returns>>
dedupVars  == <<pkts, npkts, dseq, valid>>
hostVars   == <<hpc, cur, tries, log>>
netVars    == <<c2h, h2c, lost>>
vars == <<clientVars, hostVars, dedupVars, age, netVars>>

-----------------------------------------------------------------------------
(* Datagrams.  Only requests carry the KSQ0 trailer towards the host, only *)
(* RETVAL carries it back; acknowledgements are matched by command id.     *)

SeqMod == 2 * HalfSeq

Request(s, c, o) == [kind |-> "req", seq |-> s, call |-> c, op |-> o]
Retval(s, v)     == [kind |-> "RETV", seq |-> s, val |-> v]
Command(id)      == [kind |-> id]
Ack(id, done)    == [kind |-> "ack", id |-> id, done |-> done]

\* kos_syscall_next_seq++ on an unsigned int, skipping 0, i times over.
SeqPlus(s, i) == IF s + i < SeqMod THEN s + i ELSE s + i - SeqMod + 1

\* Wrong variants of the definitions below, each a slip the code could have
\* made, are named after the definition with a suffix; the properties must
\* reject every one of them.


\* dedup_is_stale's (int32_t)(seq - state.seq) <= 0.
SeqDelta(a, b) == IF a >= b THEN a - b ELSE a - b + SeqMod
NotAfter_equal(a, b) == SeqDelta(a, b) = 0       \* only the cached number is old
NotAfter(a, b) == SeqDelta(a, b) = 0 \/ SeqDelta(a, b) >= HalfSeq

\* The network delivers m: it is gone, or stays and may be delivered again.
Deliver(net, m) == {IF NetDups THEN net ELSE net \ {m}}

-----------------------------------------------------------------------------
(* The client *)

Bumped(c) == IF c \in {"fresh", "bumped"} THEN "bumped" ELSE "overrun"

Elapsed(c) == IF c = "bumped" THEN "overrun" ELSE "expired"

\* build_send_packet and the entry of kos_syscall_wait_for_retval.
Syscall(o) ==
    /\ cpc = "guest" /\ call < MaxCalls
    /\ call' = call + 1
    /\ seq' = nextSeq
    /\ nextSeq' = SeqPlus(nextSeq, 1)
    /\ op' = o
    /\ c2h' = c2h \cup {Request(nextSeq, call + 1, o)}
    /\ cpc' = "wait" /\ retry' = 0 /\ clock' = "fresh" /\ escaped' = FALSE
    /\ UNCHANGED <<retval, mapped, returns, hostVars, dedupVars, age, h2c, lost>>

\* The guest sees the value of syscall_retval.
ReturnToGuest(v) ==
    /\ cpc' = "guest"
    /\ retval' = v
    /\ returns' = Append(returns, v)

\* Without the trailer check.
AcceptRetval_anyTrailer(m) ==
    /\ cpc = "wait" /\ m.kind = "RETV"
    /\ h2c' \in Deliver(h2c, m)
    /\ escaped' = TRUE
    /\ IF Lossy
       THEN /\ cpc' = "check" /\ retval' = m.val
            /\ UNCHANGED returns
       ELSE ReturnToGuest(m.val)
    /\ UNCHANGED <<call, seq, nextSeq, op, retry, clock, mapped, hostVars,
                   dedupVars, age, c2h, lost>>

\* cmd_retval for the request in flight.  (Its acknowledgement is left out:
\* the console loop knows no such request and send_and_wait waits for none.)
AcceptRetval(m) ==
    /\ cpc = "wait" /\ m.kind = "RETV" /\ m.seq = seq
    /\ h2c' \in Deliver(h2c, m)
    /\ escaped' = TRUE
    /\ IF Lossy
       THEN /\ cpc' = "check" /\ retval' = m.val
            /\ UNCHANGED returns
       ELSE ReturnToGuest(m.val)
    /\ UNCHANGED <<call, seq, nextSeq, op, retry, clock, mapped, hostVars,
                   dedupVars, age, c2h, lost>>

\* cmd_retval with another request's trailer, or with no program running.
DropRetval(m) ==
    /\ m.kind = "RETV"
    /\ \/ cpc = "wait" /\ m.seq # seq
       \/ cpc = "halted"
    /\ h2c' \in Deliver(h2c, m)
    /\ UNCHANGED <<clientVars, hostVars, dedupVars, age, c2h, lost>>

\* cmd_loadbin, cmd_partbin, cmd_donebin, cmd_sendbinq.
RecvBulk(m) ==
    /\ cpc \in {"wait", "halted"}
    /\ m.kind \in {"LBIN", "PBIN", "DBIN", "SBIQ"}
    /\ h2c' \in Deliver(h2c, m)
    /\ clock' = IF cpc = "wait" /\ Lossy THEN Bumped(clock) ELSE clock
    /\ mapped' = CASE m.kind = "LBIN" -> FALSE
                   [] m.kind = "PBIN" -> TRUE
                   [] OTHER -> mapped
    /\ c2h' = CASE m.kind = "LBIN" -> c2h \cup {Ack("LBIN", TRUE)}
                [] m.kind = "DBIN" -> c2h \cup {Ack("DBIN", mapped)}
                [] m.kind = "SBIQ" -> c2h \cup {Ack("SBIN", TRUE)}
                [] OTHER -> c2h
    /\ UNCHANGED <<cpc, call, seq, nextSeq, op, retry, retval, escaped, returns,
                   hostVars, dedupVars, age, lost>>

\* The tick counter passes the next deadline ahead of it.
Tick ==
    /\ Lossy /\ cpc \in {"wait", "check"} /\ clock # "expired"
    /\ clock' = Elapsed(clock)
    /\ age' = IF age > Window THEN age ELSE age + 1
    /\ UNCHANGED <<cpc, call, seq, nextSeq, op, retry, retval, escaped, mapped,
                   returns, hostVars, dedupVars, netVars>>

\* The wait loop saw no packet and now >= loop_deadline_ticks.
LoopTimesOut ==
    /\ Lossy /\ cpc = "wait" /\ clock = "expired"
    /\ cpc' = "check"
    /\ UNCHANGED <<call, seq, nextSeq, op, retry, clock, retval, escaped, mapped,
                   returns, hostVars, dedupVars, age, netVars>>

\* Without the look at the clock.
WaitReturns_anyTime ==
    /\ cpc = "check"
    /\ ReturnToGuest(retval)
    /\ UNCHANGED <<call, seq, nextSeq, op, retry, clock, escaped, mapped,
                   hostVars, dedupVars, age, netVars>>

\* get_ticks() < deadline after bb->loop(0): taken for a RETVAL.
WaitReturns ==
    /\ cpc = "check" /\ clock \in {"fresh", "bumped"}
    /\ ReturnToGuest(retval)
    /\ UNCHANGED <<call, seq, nextSeq, op, retry, clock, escaped, mapped,
                   hostVars, dedupVars, age, netVars>>

\* Without counting the attempt.
Retransmit_forever ==
    /\ cpc = "check" /\ clock \in {"overrun", "expired"} /\ retry < MaxRetries
    /\ c2h' = c2h \cup {Request(seq, call, op)}
    /\ cpc' = "wait" /\ clock' = "fresh" /\ escaped' = FALSE
    /\ UNCHANGED <<call, seq, nextSeq, op, retry, retval, mapped, returns, hostVars,
                   dedupVars, age, h2c, lost>>

\* Otherwise a stall: send the saved request again, ...
Retransmit ==
    /\ cpc = "check" /\ clock \in {"overrun", "expired"} /\ retry < MaxRetries
    /\ c2h' = c2h \cup {Request(seq, call, op)}
    /\ retry' = retry + 1
    /\ cpc' = "wait" /\ clock' = "fresh" /\ escaped' = FALSE
    /\ UNCHANGED <<call, seq, nextSeq, op, retval, mapped, returns, hostVars,
                   dedupVars, age, h2c, lost>>

\* ... or give up with -1.
GiveUp ==
    /\ cpc = "check" /\ clock \in {"overrun", "expired"} /\ retry = MaxRetries
    /\ ReturnToGuest(-1)
    /\ UNCHANGED <<call, seq, nextSeq, op, retry, clock, escaped, mapped,
                   hostVars, dedupVars, age, netVars>>

\* progexit: several copies, each a request of its own, and no wait.  The
\* loader's main loop then answers bulk commands with running = false.
Progexit ==
    /\ cpc = "guest"
    /\ c2h' = c2h \cup {Request(SeqPlus(nextSeq, i), call + 1 + i, "exit") :
                           i \in 0 .. ExitCopies - 1}
    /\ seq' = SeqPlus(nextSeq, ExitCopies - 1)
    /\ nextSeq' = SeqPlus(nextSeq, ExitCopies)
    /\ cpc' = "halted"
    /\ UNCHANGED <<call, op, retry, clock, retval, escaped, mapped, returns,
                   hostVars, dedupVars, age, h2c, lost>>

-----------------------------------------------------------------------------
(* The host *)

\* dedup_begin_capture, then dedup_capture_pkt for each of ms.
BeginCapture(ms) ==
    /\ pkts' = {ms[i] : i \in {j \in 1 .. Len(ms) : j <= DedupMax}}
    /\ npkts' = IF Len(ms) <= DedupMax THEN Len(ms) ELSE DedupMax
    /\ age' = 0

\* Without the test against DEDUP_MAX_PACKETS, and with one that is off by one.
Capture_uncapped(ms) ==
    /\ pkts' = pkts \cup {ms[i] : i \in 1 .. Len(ms)}
    /\ npkts' = npkts + Len(ms)

Capture_offByOne(ms) ==
    /\ pkts' = pkts \cup {ms[i] : i \in {j \in 1 .. Len(ms) : npkts + j < DedupMax}}
    /\ npkts' = IF npkts + Len(ms) < DedupMax THEN npkts + Len(ms) ELSE DedupMax - 1

\* dedup_capture_pkt for each of ms while a capture is open.
Capture(ms) ==
    /\ pkts' = pkts \cup {ms[i] : i \in {j \in 1 .. Len(ms) : npkts + j <= DedupMax}}
    /\ npkts' = IF npkts + Len(ms) <= DedupMax THEN npkts + Len(ms) ELSE DedupMax

Send(ms) == h2c' = h2c \cup {ms[i] : i \in 1 .. Len(ms)}

\* dedup_end_capture.
EndCapture(s) == dseq' = s /\ valid' = TRUE

\* dedup_try_replay: the cached packets go out again, nothing is run.
Replay(m) ==
    /\ hpc = "idle" /\ m.kind = "req"
    /\ valid /\ m.seq = dseq /\ age <= Window
    /\ c2h' \in Deliver(c2h, m)
    /\ h2c' = h2c \cup pkts
    /\ UNCHANGED <<clientVars, hostVars, dedupVars, age, lost>>

\* dedup_is_stale, and packets that are no syscall request.
DropAtIdle(m) ==
    /\ hpc = "idle"
    /\ \/ m.kind = "ack"
       \/ /\ m.kind = "req"
          /\ valid /\ NotAfter(m.seq, dseq)
          /\ ~(m.seq = dseq /\ age <= Window)
    /\ c2h' \in Deliver(c2h, m)
    /\ UNCHANGED <<clientVars, hostVars, dedupVars, age, h2c, lost>>

\* A request neither replayed nor stale is dispatched.
Fresh(m) ==
    /\ hpc = "idle" /\ m.kind = "req"
    /\ valid => ~NotAfter(m.seq, dseq)
    /\ c2h' \in Deliver(c2h, m)
    /\ UNCHANGED <<clientVars, lost>>

DispatchSimple(m) ==
    /\ Fresh(m) /\ m.op = "simple"
    /\ log' = Append(log, m.call)
    /\ BeginCapture(<<Retval(m.seq, Len(log) + 1)>>)
    /\ Send(<<Retval(m.seq, Len(log) + 1)>>)
    /\ EndCapture(m.seq)
    /\ UNCHANGED <<hpc, cur, tries>>

\* net_syscall_read: the file is read, then send_data starts with LOADBIN.
DispatchPush(m) ==
    /\ Fresh(m) /\ m.op = "push"
    /\ log' = Append(log, m.call)
    /\ BeginCapture(<<Command("LBIN")>>)
    /\ Send(<<Command("LBIN")>>)
    /\ hpc' = "loadbin" /\ cur' = m /\ tries' = 1
    /\ UNCHANGED <<dseq, valid>>

\* net_syscall_write: recv_data starts with SENDBINQ, which is not captured.
DispatchPull(m) ==
    /\ Fresh(m) /\ m.op = "pull"
    /\ BeginCapture(<<>>)
    /\ Send(<<Command("SBIQ")>>)
    /\ hpc' = "sendbinq" /\ cur' = m /\ tries' = 1
    /\ UNCHANGED <<log, dseq, valid>>

\* The console loop returns with the capture still open.
DispatchExit(m) ==
    /\ Fresh(m) /\ m.op = "exit"
    /\ BeginCapture(<<>>)
    /\ hpc' = "exited" /\ cur' = m
    /\ UNCHANGED <<tries, log, dseq, valid, h2c>>

\* The reply each phase of a bulk leg waits for.
Awaited == CASE hpc \in {"loadbin", "loadbin2", "reload"} -> "LBIN"
             [] hpc \in {"donebin", "donebin2", "recover"} -> "DBIN"
             [] hpc = "sendbinq" -> "SBIN"
             [] OTHER -> "none"

\* The syscall handler's last step, whatever became of the bulk leg: write()
\* is carried out, the RETVAL goes out, the capture is committed.
Finish ==
    /\ log' = IF cur.op = "pull" THEN Append(log, cur.call) ELSE log
    /\ Capture(<<Retval(cur.seq, Len(log'))>>)
    /\ Send(<<Retval(cur.seq, Len(log'))>>)
    /\ EndCapture(cur.seq)
    /\ hpc' = "idle"
    /\ UNCHANGED <<cur, tries>>

\* The next command (or burst of commands) of network_send_data_once.
Proceed(phase, ms) ==
    /\ hpc' = phase /\ tries' = 1
    /\ Send(ms) /\ Capture(ms)
    /\ UNCHANGED <<cur, log, dseq, valid>>

Burst == <<Command("PBIN"), Command("DBIN")>>

\* send_and_wait got its answer.
RecvAwaited(m) ==
    /\ m.kind = "ack" /\ m.id = Awaited
    /\ c2h' \in Deliver(c2h, m)
    /\ CASE hpc = "loadbin"  -> Proceed("donebin", Burst)
         [] hpc = "loadbin2" -> Proceed("donebin2", Burst)
         [] Awaited = "DBIN" /\ ~m.done -> Proceed("recover", Burst)
         [] OTHER -> Finish
    /\ UNCHANGED <<clientVars, age, lost>>

\* While a bulk leg is under way every other packet is read and dropped.
DropInBulk(m) ==
    /\ Awaited # "none"
    /\ ~(m.kind = "ack" /\ m.id = Awaited)
    /\ c2h' \in Deliver(c2h, m)
    /\ UNCHANGED <<clientVars, hostVars, dedupVars, age, h2c, lost>>

\* No answer within NET_PACKET_TIMEOUT_USEC: send the command again.
Resend ==
    /\ Awaited # "none" /\ tries < MaxTries
    /\ tries' = tries + 1
    /\ LET ms == IF Awaited = "SBIN" THEN <<>> ELSE <<Command(Awaited)>>
       IN  Capture(ms)
    /\ Send(<<Command(IF Awaited = "SBIN" THEN "SBIQ" ELSE Awaited)>>)
    /\ UNCHANGED <<clientVars, hpc, cur, log, dseq, valid, age, c2h, lost>>

\* The attempts are used up.  The handlers ignore send_data's and recv_data's
\* failure; a lost DONEBIN makes network_send_data_once start over once.
Exhausted ==
    /\ Awaited # "none" /\ tries = MaxTries
    /\ CASE hpc = "donebin" -> Proceed("loadbin2", <<Command("LBIN")>>)
         [] hpc = "recover" -> Proceed("reload", <<Command("LBIN")>>)
         [] OTHER -> Finish
    /\ UNCHANGED <<clientVars, age, c2h, lost>>

-----------------------------------------------------------------------------
(* The network *)

Lose ==
    /\ lost < MaxLoss
    /\ lost' = lost + 1
    /\ \/ \E m \in c2h : c2h' = c2h \ {m} /\ UNCHANGED h2c
       \/ \E m \in h2c : h2c' = h2c \ {m} /\ UNCHANGED c2h
    /\ UNCHANGED <<clientVars, hostVars, dedupVars, age>>

Init ==
    /\ cpc = "guest" /\ call = 0 /\ seq = 0 /\ nextSeq = FirstSeq
    /\ op = "none" /\ retry = 0 /\ clock = "fresh" /\ retval = 0
    /\ escaped = FALSE /\ mapped = FALSE /\ returns = <<>>
    /\ hpc = "idle" /\ cur = Request(0, 0, "none") /\ tries = 0 /\ log = <<>>
    /\ pkts = {} /\ npkts = 0 /\ dseq = 0 /\ valid = FALSE /\ age = 0
    /\ c2h = {} /\ h2c = {} /\ lost = 0

ClientRecv == \E m \in h2c : AcceptRetval(m) \/ DropRetval(m) \/ RecvBulk(m)

WaitEnds == WaitReturns \/ Retransmit \/ GiveUp

HostRecv ==
    \E m \in c2h :
        \/ Replay(m) \/ DropAtIdle(m)
        \/ DispatchSimple(m) \/ DispatchPush(m) \/ DispatchPull(m) \/ DispatchExit(m)
        \/ RecvAwaited(m) \/ DropInBulk(m)

HostTimesOut == Resend \/ Exhausted

Next ==
    \/ \E o \in Ops : Syscall(o)
    \/ Progexit
    \/ ClientRecv \/ Tick \/ LoopTimesOut \/ WaitEnds
    \/ HostRecv \/ HostTimesOut
    \/ Lose

Spec == Init /\ [][Next]_vars

(***************************************************************************)
(* Fairness.  Clocks run and both programs poll their sockets for ever, so *)
(* a client in its wait loop keeps receiving, timing out and going on, and *)
(* a host keeps receiving and timing out.  The guest need not call or      *)
(* exit, and nothing is assumed of Lose.  A datagram that is not lost      *)
(* arrives some day: the network does not hold one back for ever while it  *)
(* delivers others.                                                        *)
(***************************************************************************)
Arrives(m) == m \in h2c /\ RecvBulk(m)

Fairness ==
    /\ \A id \in {"LBIN", "PBIN", "DBIN", "SBIQ"} : WF_vars(Arrives(Command(id)))
    /\ WF_vars(ClientRecv) /\ WF_vars(Tick) /\ WF_vars(LoopTimesOut)
    /\ WF_vars(WaitEnds)
    /\ WF_vars(HostRecv) /\ WF_vars(HostTimesOut)

FairSpec == Spec /\ Fairness

-----------------------------------------------------------------------------
(* Properties *)

Requests == [kind : {"req"}, seq : 0 .. SeqMod - 1, call : Nat,
             op : {"none", "simple", "push", "pull", "exit"}]
Retvals  == [kind : {"RETV"}, seq : 0 .. SeqMod - 1, val : Nat]
Commands == [kind : {"LBIN", "PBIN", "DBIN", "SBIQ"}]
Acks     == [kind : {"ack"}, id : {"LBIN", "DBIN", "SBIN"}, done : BOOLEAN]

ClientTypeOK ==
    /\ cpc \in {"guest", "wait", "check", "halted"}
    /\ call \in 0 .. MaxCalls
    /\ seq \in 0 .. SeqMod - 1 /\ nextSeq \in 1 .. SeqMod - 1
    /\ op \in {"none", "simple", "push", "pull"}
    /\ retry \in 0 .. MaxRetries
    /\ clock \in {"fresh", "bumped", "overrun", "expired"}
    /\ retval \in Nat \cup {-1}
    /\ escaped \in BOOLEAN /\ mapped \in BOOLEAN
    /\ returns \in Seq(Nat \cup {-1})

HostTypeOK ==
    /\ hpc \in {"idle", "loadbin", "donebin", "loadbin2", "donebin2", "recover",
                "reload", "sendbinq", "exited"}
    /\ cur \in Requests /\ tries \in 0 .. MaxTries
    /\ log \in Seq(Nat)

CacheTypeOK ==
    /\ pkts \subseteq Retvals \cup Commands /\ npkts \in 0 .. DedupMax
    /\ dseq \in 0 .. SeqMod - 1 /\ valid \in BOOLEAN
    /\ age \in 0 .. Window + 1

NetTypeOK ==
    /\ c2h \subseteq Requests \cup Acks
    /\ h2c \subseteq Retvals \cup Commands
    /\ lost \in 0 .. MaxLoss

\* The variables of the client, the host's console loop and the cache have
\* the types of the C objects they stand for; the capture never exceeds
\* DEDUP_MAX_PACKETS and the counters stay within their limits.
TypeOK == ClientTypeOK /\ HostTypeOK /\ CacheTypeOK /\ NetTypeOK

\* The host carries out each call at most once, and in the order in which the
\* guest issued them, however often a request is retransmitted, duplicated or
\* delayed and wherever the sequence numbers wrap (dedup_try_replay and
\* dedup_is_stale against read, lseek and readdir being run again).
AtMostOnceInOrder ==
    \A i, j \in 1 .. Len(log) : i < j => log[i] < log[j]

\* A call that does not return -1 returns the result of its own execution,
\* never a delayed or replayed RETVAL of another call, nor the value left in
\* syscall_retval by an earlier one (the trailer check of cmd_retval).
ReturnsOwnResult ==
    \A c \in 1 .. Len(returns) :
        returns[c] # -1 => returns[c] \in 1 .. Len(log) /\ log[returns[c]] = c

(* The strengthening of the two invariants above that is inductive. *)

\* The wire number of call c, and the calls numbered so far.
SeqOf(c) == SeqPlus(FirstSeq, c - 1)
Numbered == IF cpc = "halted" THEN call + ExitCopies ELSE call
Busy     == hpc \notin {"idle", "exited"}

\* The client numbers its calls in sequence and waits for one at a time.
NumberingOK ==
    /\ cpc # "halted" => nextSeq = SeqOf(call + 1)
    /\ cpc \in {"wait", "check"} => call > 0 /\ seq = SeqOf(call) /\ Len(returns) = call - 1
    /\ cpc \in {"guest", "halted"} => Len(returns) = call

\* A request in flight carries the number of its call.
RequestsOK ==
    \A m \in c2h : m.kind = "req" =>
        /\ m.call \in 1 .. Numbered /\ m.seq = SeqOf(m.call)
        /\ m.op # "exit" => m.call \in 1 .. call

\* The cache's number is that of the last call carried out, and the call
\* being serviced is later than every call carried out before it.
ConsoleOK ==
    /\ \A i \in 1 .. Len(log) : log[i] \in 1 .. call
    /\ hpc \in {"idle", "sendbinq"} =>
           /\ valid <=> Len(log) > 0
           /\ valid => dseq = SeqOf(log[Len(log)])
    /\ Busy => cur.call \in 1 .. call /\ cur.seq = SeqOf(cur.call)
    /\ hpc = "sendbinq" => cur.op = "pull" /\ \A i \in 1 .. Len(log) : log[i] < cur.call
    /\ Busy /\ hpc # "sendbinq" =>
           cur.op = "push" /\ Len(log) > 0 /\ log[Len(log)] = cur.call

\* A RETVAL, in flight or cached, carries the number of the call it answers.
IsOwn(m) == m.kind = "RETV" => m.val \in 1 .. Len(log) /\ m.seq = SeqOf(log[m.val])
RetvalsOK == \A m \in h2c \cup pkts : IsOwn(m)

\* A wait that ended before the deadline ended because a RETVAL was accepted.
WaitOK ==
    /\ cpc = "wait" => ~escaped
    /\ cpc = "check" => /\ clock \in {"fresh", "bumped"} => escaped
                        /\ escaped => retval \in 1 .. Len(log) /\ log[retval] = call

\* All of it: what makes the two invariants inductive.
SyscallInv ==
    /\ AtMostOnceInOrder /\ ReturnsOwnResult
    /\ NumberingOK /\ RequestsOK /\ ConsoleOK /\ RetvalsOK /\ WaitOK

\* Unless the capture overflowed, the cache of an idle host holds the RETVAL
\* of the last call carried out, under that call's number: a retransmission
\* within the window is answered (dedup_end_capture).
ReplayAnswers ==
    hpc = "idle" /\ valid /\ npkts < DedupMax => Retval(dseq, Len(log)) \in pkts

\* The client, the cache and the console loop together implement the promise
\* made to the guest.
Promise == INSTANCE Rpc WITH issued <- call
KeepsPromise == Promise!RpcSpec

\* On a lossy adapter a call always comes back, with a result or with -1:
\* the bounded wait of kos_syscall_wait_for_retval cannot hang.
EveryCallReturns == cpc = "wait" ~> cpc = "guest"

\* When the guest has exited, the host's console loop ends: one of the copies
\* progexit sends reaches it while it is listening for requests.  Refuted by
\* TLC with two tries, a loss and two copies (README, section 6).
ExitReported == cpc = "halted" ~> hpc = "exited"
=============================================================================
