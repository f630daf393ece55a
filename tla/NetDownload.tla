---------------------------- MODULE NetDownload -----------------------------
(***************************************************************************)
(* The host reads console memory over UDP: network_recv_data of            *)
(* host/src/transport/network.c against cmd_sendbinq of                    *)
(* client/common/core/commands.c, called by download() (download.c) or, to *)
(* serve a guest's write(), by net_syscall_write (console.c).              *)
(*                                                                         *)
(* The transfers of a session follow one another; between two of them the  *)
(* guest may have written its memory anew, so a unit of memory read during *)
(* transfer t has the value t, and 0 stands for a unit of the host's       *)
(* buffer that was never filled.  A chunk (one SENDBIN) is Chunk units, so *)
(* that transfers can overlap without being aligned.                       *)
(***************************************************************************)
EXTENDS Channel, FiniteSets

CONSTANTS
    Addr, Size,     \* src_addr and size of each transfer
    Chunk,          \* NET_PAYLOAD_SIZE, in units
    MaxRerequests,  \* recv_data_max_rerequests
    Checked,        \* TRUE: download(), which looks at the result
    MaxLoss         \* bound: datagrams overtaken and lost

ASSUME NetDownloadAssumption ==
    /\ Addr \in Seq(Nat) /\ Size \in Seq(Nat \ {0})
    /\ Len(Addr) = Len(Size) /\ Len(Addr) > 0
    /\ Chunk \in Nat \ {0} /\ MaxRerequests \in Nat \ {0}
    /\ Checked \in BOOLEAN /\ MaxLoss \in Nat

VARIABLES
    hpc,        \* host: "stream", "pass" (re-request) or "over"
    t,          \* host: the transfer under way
    map, data,  \* host: chunks that have arrived, and the buffer
    packets,    \* host: packets counted by the streaming loop
    target,     \* host: the chunk being re-requested
    passes, stalled,
    out,        \* host (history): what became of each transfer
    h2c, c2h,   \* the channels
    lost        \* datagrams overtaken and lost so far

vars == <<hpc, t, map, data, packets, target, passes, stalled, out, h2c, c2h, lost>>

-----------------------------------------------------------------------------
(* Datagrams *)

Sendbinq(a, n)   == [kind |-> "SBIQ", addr |-> a, size |-> n, ver |-> 0]
Sendbin(a, n, v) == [kind |-> "SBIN", addr |-> a, size |-> n, ver |-> v]
Donebin          == [kind |-> "DBIN", addr |-> 0, size |-> 0, ver |-> 0]

ChunksOf(n)   == (n + Chunk - 1) \div Chunk
ChunkLen(n, c) == IF n - c * Chunk >= Chunk THEN Chunk ELSE n - c * Chunk

-----------------------------------------------------------------------------
(* The host *)

N == ChunksOf(Size[t])

\* Wrong variants of the definitions below, each a slip the code could have
\* made, are named after the definition with a suffix; the properties must
\* reject every one of them.

Acceptable_noLower(m) ==
    /\ m.addr < Addr[t] + Size[t]
    /\ m.size <= Chunk /\ m.size <= Addr[t] + Size[t] - m.addr

\* The filter on SENDBINs.
Acceptable(m) ==
    /\ m.addr >= Addr[t] /\ m.addr < Addr[t] + Size[t]
    /\ m.size <= Chunk /\ m.size <= Addr[t] + Size[t] - m.addr

Marked(m) == map \cup {(m.addr - Addr[t]) \div Chunk}
Stored(m) == [u \in 0 .. Size[t] - 1 |->
                IF u >= m.addr - Addr[t] /\ u < m.addr - Addr[t] + m.size
                THEN m.ver ELSE data[u]]

Empty(n) == [u \in 0 .. n - 1 |-> 0]

\* With the map and the buffer of the last transfer used again.
Return_keepsBuffer(ok, d) ==
    /\ out' = Append(out, IF ok \/ ~Checked THEN d ELSE <<>>)
    /\ packets' = 0 /\ passes' = 0 /\ stalled' = 0 /\ target' = 0
    /\ data' = d /\ UNCHANGED map
    /\ IF t = Len(Addr)
       THEN hpc' = "over" /\ UNCHANGED <<t, h2c>>
       ELSE /\ hpc' = "stream" /\ t' = t + 1
            /\ h2c' = Put(h2c, <<Sendbinq(Addr[t + 1], Size[t + 1])>>)

\* network_recv_data returns: download() writes a file if it is told to,
\* net_syscall_write writes its buffer in any case.  The next transfer starts.
Return(ok, d) ==
    /\ out' = Append(out, IF ok \/ ~Checked THEN d ELSE <<>>)
    /\ map' = {} /\ packets' = 0 /\ passes' = 0 /\ stalled' = 0 /\ target' = 0
    /\ IF t = Len(Addr)
       THEN hpc' = "over" /\ data' = d /\ UNCHANGED <<t, h2c>>
       ELSE /\ hpc' = "stream" /\ t' = t + 1
            /\ data' = Empty(Size[t + 1])
            /\ h2c' = Put(h2c, <<Sendbinq(Addr[t + 1], Size[t + 1])>>)

\* Without `c = (uint32_t)-1`.
Scan_noRestart(mp, d, ps, st) ==
    LET from    == IF hpc = "pass" THEN target + 1 ELSE 0
        missing == {c \in from .. N - 1 : c \notin mp}
        first   == CHOOSE c \in missing : \A x \in missing : c <= x
    IN  IF missing = {} THEN Return(TRUE, d)
        ELSE /\ hpc' = "pass" /\ target' = first /\ passes' = ps /\ stalled' = st
             /\ map' = mp /\ data' = d
             /\ h2c' = Put(h2c, <<Sendbinq(Addr[t] + first * Chunk, ChunkLen(Size[t], first))>>)
             /\ UNCHANGED <<t, packets, out>>

\* The scan for a missing chunk, from the start: re-request it, or be done.
Scan(mp, d, ps, st) ==
    LET missing == {c \in 0 .. N - 1 : c \notin mp}
        first   == CHOOSE c \in missing : \A x \in missing : c <= x
    IN  IF missing = {} THEN Return(TRUE, d)
        ELSE /\ hpc' = "pass" /\ target' = first /\ passes' = ps /\ stalled' = st
             /\ map' = mp /\ data' = d
             /\ h2c' = Put(h2c, <<Sendbinq(Addr[t] + first * Chunk, ChunkLen(Size[t], first))>>)
             /\ UNCHANGED <<t, packets, out>>

\* Without the limits.
EndPass_unlimited(mp, d) == Scan(mp, d, 0, 0)

\* A re-request pass is over.
EndPass(mp, d) ==
    LET st == IF target \in mp THEN 0 ELSE stalled + 1
    IN  IF st >= MaxRerequests \/ passes + 1 >= N + MaxRerequests
        THEN Return(FALSE, d)
        ELSE Scan(mp, d, passes + 1, st)

HostTakes(i) ==
    /\ lost + Overtaken(i) <= MaxLoss
    /\ lost' = lost + Overtaken(i)
    /\ c2h' = After(c2h, i)

\* The streaming loop counts acceptable SENDBINs and DONEBINs, up to N + 1.
StreamRecv(i) ==
    LET m  == c2h[i]
        ok == m.kind = "SBIN" /\ Acceptable(m)
        mp == IF ok THEN Marked(m) ELSE map
        d  == IF ok THEN Stored(m) ELSE data
        k  == IF ok \/ m.kind = "DBIN" THEN packets + 1 ELSE packets
    IN  /\ hpc = "stream"
        /\ HostTakes(i)
        /\ IF k = N + 1 THEN Scan(mp, d, 0, 0)
           ELSE /\ map' = mp /\ data' = d /\ packets' = k
                /\ UNCHANGED <<hpc, t, target, passes, stalled, out, h2c>>

\* recv_timeout without a packet.
StreamTimesOut ==
    /\ hpc = "stream"
    /\ Scan(map, data, 0, 0)
    /\ UNCHANGED <<c2h, lost>>

\* A pass ends as soon as its chunk is there.
PassRecv(i) ==
    LET m  == c2h[i]
        ok == m.kind = "SBIN" /\ Acceptable(m)
    IN  /\ hpc = "pass"
        /\ HostTakes(i)
        /\ IF ok /\ target \in Marked(m)
           THEN EndPass(Marked(m), Stored(m))
           ELSE /\ map' = IF ok THEN Marked(m) ELSE map
                /\ data' = IF ok THEN Stored(m) ELSE data
                /\ UNCHANGED <<hpc, t, packets, target, passes, stalled, out, h2c>>

\* pass_timeout has passed.
PassTimesOut ==
    /\ hpc = "pass"
    /\ EndPass(map, data)
    /\ UNCHANGED <<c2h, lost>>

-----------------------------------------------------------------------------
(* The client *)

\* cmd_sendbinq: the chunks, read from memory as it is now, and a DONEBIN.
Burst(m) ==
    [c \in 1 .. ChunksOf(m.size) + 1 |->
        IF c > ChunksOf(m.size) THEN Donebin
        ELSE Sendbin(m.addr + (c - 1) * Chunk, ChunkLen(m.size, c - 1), t)]

RecvSendbinq(i) ==
    /\ lost + Overtaken(i) <= MaxLoss
    /\ lost' = lost + Overtaken(i)
    /\ h2c' = After(h2c, i)
    /\ c2h' = Put(c2h, Burst(h2c[i]))
    /\ UNCHANGED <<hpc, t, map, data, packets, target, passes, stalled, out>>

-----------------------------------------------------------------------------
Init ==
    /\ hpc = "stream" /\ t = 1 /\ map = {} /\ data = Empty(Size[1])
    /\ packets = 0 /\ target = 0 /\ passes = 0 /\ stalled = 0 /\ out = <<>>
    /\ h2c = Put(<<>>, <<Sendbinq(Addr[1], Size[1])>>) /\ c2h = <<>> /\ lost = 0

HostRecv     == \E i \in 1 .. Len(c2h) : StreamRecv(i) \/ PassRecv(i)
HostTimesOut == StreamTimesOut \/ PassTimesOut
ClientRecv   == \E i \in 1 .. Len(h2c) : RecvSendbinq(i)

Next == HostRecv \/ HostTimesOut \/ ClientRecv

Spec == Init /\ [][Next]_vars

\* The host polls its socket and its clock runs.  Nothing is assumed of the
\* client: it may have stopped for good.
Fairness == WF_vars(HostRecv) /\ WF_vars(HostTimesOut)

FairSpec == Spec /\ Fairness

-----------------------------------------------------------------------------
(* Properties *)

Packets == [kind : {"SBIQ", "SBIN", "DBIN"}, addr : Nat, size : Nat, ver : 0 .. Len(Addr)]

\* What a transfer can hand over: its buffer, or nothing.
Written == {<<>>} \cup UNION {[0 .. Size[k] - 1 -> 0 .. Len(Addr)] : k \in 1 .. Len(Size)}

\* The variables have the types of the C objects they stand for; the counters
\* of the re-request loop stay below their limits.
TypeOK ==
    /\ hpc \in {"stream", "pass", "over"} /\ t \in 1 .. Len(Addr)
    /\ map \subseteq 0 .. N - 1 /\ data \in [0 .. Size[t] - 1 -> 0 .. t]
    /\ packets \in 0 .. N /\ target \in 0 .. N - 1
    /\ passes \in 0 .. N + MaxRerequests - 1 /\ stalled \in 0 .. MaxRerequests - 1
    /\ out \in Seq(Written) /\ Len(out) = IF hpc = "over" THEN t ELSE t - 1
    /\ h2c \in Seq(Packets) /\ c2h \in Seq(Packets)
    /\ lost \in 0 .. MaxLoss

\* What is written out was filled completely: a transfer that gave up is not
\* written out as a good file (the last lines of network_recv_data).
WrittenIsComplete == \A k \in 1 .. Len(out) : \A u \in DOMAIN out[k] : out[k][u] # 0

\* What is written out is what the memory held during its own transfer: no
\* stray SENDBIN of an earlier transfer ends up in the data (the filter on
\* addresses and sizes).
WrittenIsFresh == \A k \in 1 .. Len(out) : \A u \in DOMAIN out[k] : out[k][u] \in {0, k}

\* Every transfer comes to an end, whatever is lost and even if the client
\* never answers: the budget of the re-request loop (stalled, max_passes).
TransfersEnd == <>(hpc = "over")

(* Their strengthening, inductive on any network.                           *)

Apart(k, l) == Addr[k] + Size[k] <= Addr[l] \/ Addr[l] + Size[l] <= Addr[k]
Same(k, l)  == Addr[k] = Addr[l] /\ Size[k] = Size[l]

\* Transfers that read different memory, or the very same: what a late SENDBIN
\* of one fills in the buffer of another is nothing, or the same chunk.
Compatible  == \A k, l \in 1 .. Len(Addr) : Apart(k, l) \/ Same(k, l)
AllApart    == \A k, l \in 1 .. Len(Addr) : k = l \/ Apart(k, l)

ChunkIn(m, k, c) == m.addr = Addr[k] + c * Chunk /\ m.size = ChunkLen(Size[k], c)

\* What is under way was asked for by this transfer or an earlier one, and
\* was read no earlier than it was asked for.
DatagramsOK ==
    /\ \A i \in 1 .. Len(h2c) : \E k \in 1 .. t :
           \/ h2c[i].addr = Addr[k] /\ h2c[i].size = Size[k]
           \/ \E c \in 0 .. ChunksOf(Size[k]) - 1 : ChunkIn(h2c[i], k, c)
    /\ \A i \in 1 .. Len(c2h) : c2h[i].kind = "SBIN" =>
           \E k \in 1 .. t : /\ c2h[i].ver \in k .. t
                             /\ \E c \in 0 .. ChunksOf(Size[k]) - 1 : ChunkIn(c2h[i], k, c)

\* A chunk that is marked is in the buffer.
FilledOK == \A c \in map : \A u \in c * Chunk .. c * Chunk + ChunkLen(Size[t], c) - 1 : data[u] # 0

\* The buffer holds nothing of another transfer.
FreshOK == \A u \in 0 .. Size[t] - 1 : data[u] \in {0, t}

\* The counters of the re-request loop stay in their ranges, what is marked
\* was received and nothing is written out that was not (network_recv_data).
DownloadInv == TypeOK /\ DatagramsOK /\ FilledOK /\ WrittenIsComplete

=============================================================================
