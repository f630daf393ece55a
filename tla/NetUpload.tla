----------------------------- MODULE NetUpload ------------------------------
(***************************************************************************)
(* A host uploads a binary into console memory over UDP: upload_section_cb *)
(* (host/src/upload.c), network_send_data and network_send_data_once       *)
(* (host/src/transport/network.c) against cmd_loadbin, cmd_partbin and     *)
(* cmd_donebin (client/common/core/commands.c).                            *)
(*                                                                         *)
(* The unit of data is a chunk (one PARTBIN), and addresses count chunks,  *)
(* modulo AddrMod as the code's uint32_t do.  Sections are sent one after  *)
(* another, each in windows of at most Win chunks (one window per section  *)
(* unless the adapter is a W5500).                                         *)
(*                                                                         *)
(* The pacing delays and the drain before a retry only make losses less    *)
(* likely, so they need no actions of their own.                           *)
(***************************************************************************)
EXTENDS Channel, FiniteSets

CONSTANTS
    Base, Size,     \* load address and size of each section
    Win,            \* W5500_UPLOAD_WINDOW_SIZE, in chunks
    Rams,           \* MAX_RAM_BYTES of the consoles, in chunks
    AddrMod,        \* 2^32 bytes, in chunks
    MaxTries,       \* MAX_CMD_RETRIES
    Room,           \* bound: room the channel must have for a command to be resent
    MaxLoss         \* bound: datagrams overtaken and lost

ASSUME NetUploadAssumption ==
    /\ Base \in Seq(Nat) /\ Size \in Seq(Nat \ {0})
    /\ Len(Size) = Len(Base) /\ Len(Base) > 0
    /\ AddrMod \in Nat \ {0}
    /\ \A s \in 1 .. Len(Base) : Base[s] + Size[s] <= AddrMod
    /\ \A s, t \in 1 .. Len(Base) :
           s # t => Base[s] + Size[s] <= Base[t] \/ Base[t] + Size[t] <= Base[s]
    /\ Win \in Nat \ {0} /\ Rams \subseteq Nat
    /\ MaxTries \in Nat \ {0} /\ Room \in Nat /\ MaxLoss \in Nat

VARIABLES
    hpc,        \* host: the answer it waits for, or how network_send_data ended
    sec,        \* host: the section being sent
    offset,     \* host: chunks of it sent in earlier windows
    tries,      \* host: attempts of the current command
    skipped,    \* host (history): chunks of the windows left without a complete DONEBIN
    ram,        \* client: MAX_RAM_BYTES of this console
    la, ls,     \* client: bin_info.load_address, bin_info.load_size
    map,        \* client: bin_info.map, the indices received
    mem,        \* client: the addresses that hold the data sent for them
    h2c, c2h,   \* the channels
    lost        \* datagrams overtaken and lost so far

hostVars   == <<hpc, sec, offset, tries, skipped>>
clientVars == <<ram, la, ls, map, mem>>
vars == <<hostVars, clientVars, h2c, c2h, lost>>

-----------------------------------------------------------------------------
(* Datagrams *)

Loadbin(a, n)  == [kind |-> "LBIN", addr |-> a, size |-> n]
Partbin(a, ok) == [kind |-> "PBIN", addr |-> a, size |-> IF ok THEN 1 ELSE 0]
Donebin        == [kind |-> "DBIN", addr |-> 0, size |-> 0]

-----------------------------------------------------------------------------
(* The host *)

\* A window starts off chunks into section k.
Start(k, off) == Base[k] + off
Count(k, off) == IF Size[k] - off < Win THEN Size[k] - off ELSE Win

Here  == Start(sec, offset)     \* dest_addr of the window being sent, ...
Chunks == Count(sec, offset)    \* ... and its size
Window == Here .. Here + Chunks - 1

LoadbinFor(k, off) == Loadbin(Start(k, off), Count(k, off))

\* The whole stream of the window, and the DONEBIN that follows it.
Stream == [i \in 1 .. Chunks + 1 |->
             IF i <= Chunks THEN Partbin(Here + i - 1, TRUE) ELSE Donebin]

Awaited == CASE hpc \in {"load", "load2", "reload"} -> "LBIN"
             [] hpc \in {"done", "done2", "recover"} -> "DBIN"
             [] OTHER -> "none"

\* Wrong variants of the definitions below, each a slip the code could have
\* made, are named after the definition with a suffix; the properties must
\* reject every one of them.

AckMatches_idOnly(m) == m.kind = Awaited

\* command_ack_matches: LOADBIN by address and size, DONEBIN by its id only.
AckMatches(m) ==
    /\ m.kind = Awaited
    /\ m.kind = "LBIN" => m.addr = Here /\ m.size = Chunks

\* Enter the next wait of network_send_data_once.
Await(phase, ms) ==
    /\ hpc' = phase /\ tries' = 1
    /\ h2c' = Put(h2c, ms)
    /\ UNCHANGED <<sec, offset, skipped>>

More_offByOne == offset + Chunks <= Size[sec]

\* The next window of the section, or else the next section.
More     == offset + Chunks < Size[sec]
NextSec  == IF More THEN sec ELSE sec + 1
NextOff  == IF More THEN offset + Chunks ELSE 0

\* network_send_data_once returned 0: go on, or report success.
WindowDone(complete) ==
    /\ skipped' = IF complete THEN skipped ELSE skipped \cup Window
    /\ sec' = NextSec /\ offset' = NextOff
    /\ IF NextSec <= Len(Base)
       THEN /\ hpc' = "load" /\ tries' = 1
            /\ h2c' = Put(h2c, <<LoadbinFor(NextSec, NextOff)>>)
       ELSE hpc' = "ok" /\ UNCHANGED <<tries, h2c>>

\* network_send_data_once returned -1: the upload is given up.
Fail == hpc' = "fail" /\ UNCHANGED <<sec, offset, tries, skipped, h2c>>

\* miss_off + miss_size > size, on uint32_t.
MissOff(a)   == (a - Here) % AddrMod
ValidMiss(m) == (MissOff(m.addr) + m.size) % AddrMod <= Chunks

\* A DONEBIN answer: complete, a chunk to send again, or nonsense.  The bytes
\* sent again are the window's only if the chunk lies in the window.
HandleDonebin(m) ==
    \/ m.size = 0 /\ WindowDone(TRUE)
    \/ /\ m.size # 0 /\ ValidMiss(m)
       /\ Await("recover", <<Partbin(m.addr, MissOff(m.addr) < Chunks), Donebin>>)
    \/ m.size # 0 /\ ~ValidMiss(m) /\ WindowDone(FALSE)

HostTakes(i) ==
    /\ lost + Overtaken(i) <= MaxLoss
    /\ lost' = lost + Overtaken(i)
    /\ c2h' = After(c2h, i)
    /\ UNCHANGED clientVars

\* send_and_wait got its answer.
RecvAck(i) ==
    /\ AckMatches(c2h[i])
    /\ HostTakes(i)
    /\ CASE hpc = "load"   -> Await("done", Stream)
         [] hpc = "load2"  -> Await("done2", Stream)
         [] hpc = "reload" -> WindowDone(FALSE)
         [] OTHER -> HandleDonebin(c2h[i])

\* Every other packet is dropped while send_and_wait waits.
DropAck(i) ==
    /\ Awaited # "none" /\ ~AckMatches(c2h[i])
    /\ HostTakes(i)
    /\ UNCHANGED <<hostVars, h2c>>

\* NET_PACKET_TIMEOUT_USEC without an answer: send the command again.
Resend ==
    /\ Awaited # "none" /\ tries < MaxTries /\ Len(h2c) + Room <= Cap
    /\ tries' = tries + 1
    /\ h2c' = Put(h2c, <<IF Awaited = "LBIN" THEN LoadbinFor(sec, offset)
                         ELSE Donebin>>)
    /\ UNCHANGED <<hpc, sec, offset, skipped, clientVars, c2h, lost>>

\* The attempts are used up: start the window over, reload, or fail.
Exhausted ==
    /\ Awaited # "none" /\ tries = MaxTries
    /\ CASE hpc = "done"    -> Await("load2", <<LoadbinFor(sec, offset)>>)
         [] hpc = "recover" -> Await("reload", <<LoadbinFor(sec, offset)>>)
         [] OTHER -> Fail
    /\ UNCHANGED <<clientVars, c2h, lost>>

-----------------------------------------------------------------------------
(* The client *)

ClientTakes(i) ==
    /\ lost + Overtaken(i) <= MaxLoss
    /\ lost' = lost + Overtaken(i)
    /\ h2c' = After(h2c, i)
    /\ UNCHANGED <<hostVars, ram>>

\* Without map_clear_all.
RecvLoadbin_keepsMap(i) ==
    /\ h2c[i].kind = "LBIN"
    /\ ClientTakes(i)
    /\ la' = h2c[i].addr /\ ls' = h2c[i].size
    /\ c2h' = IF h2c[i].size > ram THEN c2h ELSE Put(c2h, <<h2c[i]>>)
    /\ UNCHANGED <<map, mem>>

\* cmd_loadbin.  A size beyond the RAM gets no answer, but bin_info has changed.
RecvLoadbin(i) ==
    /\ h2c[i].kind = "LBIN"
    /\ ClientTakes(i)
    /\ la' = h2c[i].addr /\ ls' = h2c[i].size
    /\ IF h2c[i].size > ram
       THEN UNCHANGED <<map, c2h>>
       ELSE /\ map' = {}
            /\ c2h' = Put(c2h, <<h2c[i]>>)
    /\ UNCHANGED mem

\* With the last entry of the map out of bounds.
RecvPartbin_offByOne(i) ==
    /\ h2c[i].kind = "PBIN"
    /\ ClientTakes(i)
    /\ mem' = IF h2c[i].size = 1 THEN mem \cup {h2c[i].addr} ELSE mem \ {h2c[i].addr}
    /\ LET index == (h2c[i].addr - la) % AddrMod
       IN  map' = IF index < ram - 1 THEN map \cup {index} ELSE map
    /\ UNCHANGED <<la, ls, c2h>>

\* cmd_partbin: store the bytes, then mark them if the index is in the map.
RecvPartbin(i) ==
    /\ h2c[i].kind = "PBIN"
    /\ ClientTakes(i)
    /\ mem' = IF h2c[i].size = 1 THEN mem \cup {h2c[i].addr} ELSE mem \ {h2c[i].addr}
    /\ LET index == (h2c[i].addr - la) % AddrMod
       IN  map' = IF index < ram THEN map \cup {index} ELSE map
    /\ UNCHANGED <<la, ls, c2h>>

\* cmd_donebin: name the first chunk missing from the map, if there is one.
Missing == {i \in 0 .. ls - 1 : i \notin map}
DonebinAck ==
    IF Missing = {} THEN Donebin
    ELSE LET first == CHOOSE i \in Missing : \A j \in Missing : i <= j
         IN  [kind |-> "DBIN", addr |-> la + first, size |-> 1]

RecvDonebin(i) ==
    /\ h2c[i].kind = "DBIN"
    /\ ClientTakes(i)
    /\ c2h' = Put(c2h, <<DonebinAck>>)
    /\ UNCHANGED <<la, ls, map, mem>>

-----------------------------------------------------------------------------
Init ==
    /\ hpc = "load" /\ sec = 1 /\ offset = 0 /\ tries = 1 /\ skipped = {}
    /\ ram \in Rams /\ la = 0 /\ ls = 0 /\ map = {} /\ mem = {}
    /\ h2c = Put(<<>>, <<LoadbinFor(1, 0)>>) /\ c2h = <<>> /\ lost = 0

HostRecv   == \E i \in 1 .. Len(c2h) : RecvAck(i) \/ DropAck(i)
ClientRecv == \E i \in 1 .. Len(h2c) : RecvLoadbin(i) \/ RecvPartbin(i) \/ RecvDonebin(i)
TimesOut   == Resend \/ Exhausted

Next == HostRecv \/ ClientRecv \/ TimesOut

Spec == Init /\ [][Next]_vars

\* Both programs poll their sockets and the host's clock runs.
Fairness == WF_vars(HostRecv) /\ WF_vars(ClientRecv) /\ WF_vars(TimesOut)

FairSpec == Spec /\ Fairness

-----------------------------------------------------------------------------
(* Properties *)

Data == UNION {Base[k] .. Base[k] + Size[k] - 1 : k \in 1 .. Len(Base)}

Packets == [kind : {"LBIN", "PBIN", "DBIN"}, addr : 0 .. AddrMod - 1, size : 0 .. AddrMod]

\* The variables have the types of the C objects they stand for, the host
\* stays within its sections and the client's map within its entries.
TypeOK ==
    /\ hpc \in {"load", "done", "load2", "done2", "recover", "reload", "ok", "fail"}
    /\ sec \in 1 .. Len(Base) + 1 /\ offset \in Nat
    /\ hpc = "ok" <=> sec = Len(Base) + 1
    /\ hpc # "ok" => offset < Size[sec]
    /\ tries \in 1 .. MaxTries /\ skipped \subseteq Data
    /\ la \in 0 .. AddrMod - 1 /\ ls \in 0 .. AddrMod
    /\ ram \in Rams /\ map \subseteq 0 .. ram - 1 /\ mem \subseteq 0 .. AddrMod - 1
    /\ h2c \in Seq(Packets) /\ c2h \in Seq(Packets) /\ lost \in 0 .. MaxLoss

\* When the upload is reported a success, all of the data is in the console's
\* memory but for chunks of the windows that were left after DONEBIN had gone
\* unanswered in their recovery (network.c:856), and nothing else was stored:
\* no window is closed by an answer meant for another one, no chunk is marked
\* that was not stored, and a window that was left does not spoil another.
AckedIsComplete == hpc = "ok" => Data \ skipped \subseteq mem /\ mem \subseteq Data

(* Its strengthening, inductive on an ordered network.                      *)

Section(k) == Base[k] .. Base[k] + Size[k] - 1
Past       == {a \in Data : \E k \in 1 .. Len(Base) :
                  /\ a \in Section(k)
                  /\ k < sec \/ (k = sec /\ a < Base[k] + offset)}
Cur        == LoadbinFor(sec, offset)
Loaded     == la = Here /\ ls = Chunks /\ Chunks <= ram
Sent       == hpc \in {"done", "load2", "done2", "recover", "reload"}

\* A marked chunk is in memory; what is in flight and stored is file data: no
\* stale answer makes the host read before or behind its buffer (the check of
\* the miss range).
MapOK ==
    /\ la + ls <= AddrMod
    /\ ls <= ram => \A i \in map : i < ls => la + i \in mem
    /\ mem \subseteq Data
    /\ \A i \in 1 .. Len(h2c) : h2c[i].kind = "PBIN" => h2c[i].addr \in Data /\ h2c[i].size = 1

\* Windows that have ended are in memory, but for those that were left.
PastOK == Past \ skipped \subseteq mem

\* No LOADBIN of a later window has been sent.
LoadbinsOK ==
    /\ \A i \in 1 .. Len(h2c) : h2c[i].kind = "LBIN" =>
           /\ h2c[i].addr + h2c[i].size <= AddrMod
           /\ h2c[i].addr \in Past \/ (hpc # "ok" /\ h2c[i] = Cur)
    /\ \A i \in 1 .. Len(c2h) : c2h[i].kind = "LBIN" =>
           c2h[i].addr \in Past \/ (hpc # "ok" /\ c2h[i] = Cur)
    /\ ls # 0 => la \in Past \/ (hpc # "ok" /\ la = Here)

\* Until the window's LOADBIN is answered, nothing follows it on either channel.
LoadOK ==
    hpc = "load" =>
        /\ \A i, j \in 1 .. Len(h2c) : i < j /\ h2c[i] = Cur => h2c[j] = Cur
        /\ \A i, j \in 1 .. Len(c2h) : i < j /\ c2h[i] = Cur => c2h[j] = Cur
        /\ Loaded => \A i \in 1 .. Len(h2c) : h2c[i] = Cur
        /\ \A i \in 1 .. Len(c2h) : c2h[i] = Cur => Loaded

\* Afterwards every DONEBIN answer is about the window.
SentOK ==
    Sent =>
        /\ Loaded
        /\ \A i \in 1 .. Len(h2c) : h2c[i].kind = "LBIN" => h2c[i] = Cur
        /\ \A i \in 1 .. Len(c2h) : c2h[i].kind = "DBIN" =>
               IF c2h[i].size = 0 THEN Window \subseteq mem
               ELSE c2h[i].size = 1 /\ c2h[i].addr \in Window

\* All of it: a reported success is in memory but for the windows that were
\* left, whose damage does not spread to the others, and what the map,
\* the memory and the datagrams under way say of each other while windows are
\* sent, acknowledged and repaired
\* (network_send_data_once, cmd_loadbin to cmd_donebin).
UploadInv == TypeOK /\ AckedIsComplete /\ MapOK /\ PastOK /\ LoadbinsOK /\ LoadOK /\ SentOK

\* The upload comes to an end although recovery rounds have no limit.
UploadEnds == <>(hpc \in {"ok", "fail"})

\* network.c: a window that needs to be sent again is left to the caller to
\* retry, so the caller is not told that it succeeded.  Refuted by TLC (README,
\* section 6).
SuccessIsComplete == hpc = "ok" => mem = Data
=============================================================================
