-------------------------------- MODULE IosNet --------------------------------
(***************************************************************************)
(* The Wii's network: client/wii/ios_net.c makes UDP sockets out of        *)
(* requests to IOS, the system on the other processor, and                 *)
(* client/wii/net/adapter.c makes a network adapter out of the socket.     *)
(*                                                                         *)
(* Every request goes through the one buffer ipc_request.  ipc_sync hands  *)
(* its address to IOS and waits for a reply with that address: for ever in *)
(* recvfrom and sendto (ipc_block), in all other calls for 5 s, after      *)
(* which the request is abandoned while IOS still holds it.  The adapter   *)
(* asks before it receives, and its main loop watches the cable and builds *)
(* the socket again when it comes back.                                    *)
(*                                                                         *)
(* IOS is external: it takes a request, reads it from the buffer, and      *)
(* later writes the result there and posts the address.                    *)
(***************************************************************************)
EXTENDS Integers, FiniteSets, FiniteSetsExt

CONSTANTS
    Ifaces,      \* interfaces the console may be configured for: "wired", "wifi"
    NcdTries,    \* attempts to open a busy ncd/manage (16)
    IpTries,     \* NET_START_RETRIES
    MaxErrors,   \* bound: requests IOS refuses
    MaxSlow,     \* bound: requests that take IOS more than 5 s
    FollowOdd,   \* bound: requests are also made after an abandoned one
    MaxPlugs,    \* bound: changes of the cable
    MaxPackets   \* bound: datagrams that arrive

ASSUME IosAssumption ==
    /\ Ifaces \subseteq {"wired", "wifi"} /\ Ifaces # {}
    /\ {NcdTries, IpTries} \subseteq Nat \ {0}
    /\ FollowOdd \in BOOLEAN
    /\ {MaxErrors, MaxSlow, MaxPlugs, MaxPackets} \subseteq Nat

FileKinds == {"ncd", "ip", "kd", "sock"}
Opens  == [ncd_open |-> "ncd", ip_open |-> "ip", kd_open |-> "kd", wifi_open |-> "ncd",
           socket |-> "sock"]
Closes == [ncd_close |-> "ncd", ncd_giveup |-> "ncd", kd_close |-> "kd",
           wifi_close |-> "ncd", sock_close |-> "sock", ip_close |-> "ip"]
Asks   == {"ncd_link", "ncd_config", "ncd_read", "kd_ioctl", "startup", "getip",
           "wifi_mac", "if_link", "if_mac", "bind", "poll", "recv", "send", "link", "lease"}
Requests == DOMAIN Opens \cup DOMAIN Closes \cup Asks

\* Results of a request: 0 and up, an address for GETIP, or an error.
Refused == -1
Busy == -6           \* of opening ncd/manage
ETIMEDOUT == -116

VARIABLES
    at,        \* the request being made, or a place of the loops
    ipc,       \* "call": about to be sent; "wait": in ipc_sync; "ret": returned
    ret,       \* what it returned
    block,     \* ipc_block
    req,       \* ipc_request: [n: number, op: the request, res: word[1]]
    val,       \* ifopt_val_buf: revents, the link state, the lease
    sent,      \* the request register holds a request IOS has not taken
    taken,     \* requests IOS works on
    reply,     \* number of the request IOS has replied to, 0: register released
    net_fd, udp_fd,        \* open or not
    iftype,    \* ncd_interface_type
    saved,     \* ret of open_network_devices across ios_close(kd_fd)
    tries,     \* i of the loops of open_network_devices and poll_local_ip
    caller,    \* who called wii_adapter_init: "boot", or wii_poll_link_change with
               \* was_down ("edge") or without ("link")
    again,     \* the shutdown is the one before that call, not that of a failure
    watched,   \* wii_interface_type
    last_link, \* wii_last_link
    settle,    \* wii_link_up_settle_until is in the future
    settling,  \* the local of the loop's pass
    nested,    \* a program's system call is waiting in wii_adapter_loop
    iface, cable, inbox, files,   \* IOS: its configuration, the cable, datagrams
                                  \* in the socket, files and sockets open
    errors, slow, plugs, packets, \* counters of the bounds
    odd,       \* history: a call other than sendto and recvfrom was abandoned
    own        \* history: every answer so far was that of the request it was taken for

call == <<at, ipc, ret, block>>
buffers == <<req, val>>
mail == <<sent, taken, reply>>
fds == <<net_fd, udp_fd>>
setup == <<iftype, saved, tries, caller, again>>
loop == <<watched, last_link, settle, settling, nested>>
world == <<iface, cable, inbox, files>>
counts == <<errors, slow, plugs, packets>>
history == <<odd, own>>
iosVars == <<call, buffers, mail, fds, setup, loop, world, counts, history>>
wire == <<buffers, mail, world, counts, history>>

IosInit ==
    /\ at = "ncd_open" /\ ipc = "call" /\ ret = 0 /\ block = FALSE
    /\ req = [n |-> 0, op |-> "none", res |-> 0] /\ val = 0
    /\ sent = FALSE /\ taken = {} /\ reply = 0
    /\ net_fd = FALSE /\ udp_fd = FALSE
    /\ iftype = "unknown" /\ saved = 0 /\ tries = 0
    /\ caller = "boot" /\ again = FALSE
    /\ watched = "unknown" /\ last_link = -1
    /\ settle = FALSE /\ settling = FALSE /\ nested = FALSE
    /\ iface \in Ifaces /\ cable \in BOOLEAN /\ inbox = 0 /\ files = [k \in FileKinds |-> 0]
    /\ errors = 0 /\ slow = 0 /\ plugs = 0 /\ packets = 0
    /\ odd = FALSE /\ own = TRUE

-----------------------------------------------------------------------------
(***************************************************************************)
(* One request: request_clear, the words of the request, ipc_sync.         *)
(***************************************************************************)

\* recvfrom and sendto set ipc_block around the request.
Blocking_recvOnly(op) == op = "recv"
Blocking(op) == op \in {"recv", "send"}

\* A number no request in flight has.
Unused == Min((1 .. Cardinality(taken) + 3) \ ({r.n : r \in taken} \cup {reply, req.n}))

Send ==
    /\ at \in Requests /\ ipc = "call" /\ (odd => FollowOdd)
    /\ ipc' = "wait" /\ block' = Blocking(at)
    /\ req' = [n |-> Unused, op |-> at, res |-> 0]
    /\ val' = IF at \in {"poll", "link", "lease", "if_link", "if_mac"} THEN 0 ELSE val
    /\ sent' = TRUE
    /\ UNCHANGED <<at, ret, taken, reply, fds, setup, loop, world, counts, history>>

Receive_keepsReply ==
    /\ ipc = "wait" /\ reply # 0
    /\ ipc' = "ret" /\ ret' = req.res /\ block' = FALSE
    /\ own' = (own /\ reply = req.n)
    /\ UNCHANGED <<at, buffers, mail, fds, setup, loop, world, counts, odd>>

\* A reply with the address of the buffer; it is acknowledged and released.
Receive ==
    /\ ipc = "wait" /\ reply # 0
    /\ ipc' = "ret" /\ ret' = req.res /\ block' = FALSE
    /\ reply' = 0
    /\ own' = (own /\ reply = req.n)
    /\ UNCHANGED <<at, buffers, sent, taken, fds, setup, loop, world, counts, odd>>

\* 5 s have passed.
Abandon ==
    /\ ipc = "wait" /\ reply = 0 /\ ~block
    /\ slow < MaxSlow /\ slow' = slow + 1
    /\ ipc' = "ret" /\ ret' = ETIMEDOUT
    /\ odd' = (odd \/ at \notin {"recv", "send"})
    /\ UNCHANGED <<at, block, buffers, mail, fds, setup, loop, world>>
    /\ UNCHANGED <<errors, plugs, packets, own>>

(***************************************************************************)
(* IOS (external).                                                         *)
(***************************************************************************)
IosTakes ==
    /\ sent /\ sent' = FALSE
    /\ taken' = taken \cup {[n |-> req.n, op |-> req.op]}
    /\ UNCHANGED <<call, buffers, reply, fds, setup, loop, world, counts, history>>

\* IOS carries out request r with result x and output v.
Posts(r, x, v) ==
    /\ taken' = taken \ {r} /\ reply' = r.n
    /\ req' = [req EXCEPT !.res = x] /\ val' = v
    /\ UNCHANGED <<call, sent, fds, setup, loop, slow, plugs, packets, history, iface, cable>>

Bit(b) == IF b THEN 1 ELSE 0

IosReplies(r) ==
    /\ reply = 0
    /\ r.op = "recv" => inbox > 0
    /\ Posts(r, CASE r.op \in DOMAIN Opens \cup {"recv", "send"} -> 1
                  [] r.op = "getip" -> Bit(cable)
                  [] OTHER -> 0,
                CASE r.op = "poll" -> Bit(inbox > 0)
                  [] r.op \in {"link", "if_link"} -> Bit(cable)
                  [] r.op \in {"lease", "if_mac"} -> 1
                  [] OTHER -> val)
    /\ files' = CASE r.op \in DOMAIN Opens -> [files EXCEPT ![Opens[r.op]] = @ + 1]
                  [] r.op \in DOMAIN Closes -> [files EXCEPT ![Closes[r.op]] = Max({@ - 1, 0})]
                  [] OTHER -> files
    /\ inbox' = CASE r.op = "recv" -> inbox - 1
                  [] r.op = "sock_close" -> 0
                  [] OTHER -> inbox
    /\ UNCHANGED errors

\* Closing never fails.
IosRefuses(r) ==
    /\ reply = 0 /\ r.op \notin DOMAIN Closes
    /\ errors < MaxErrors /\ errors' = errors + 1
    /\ \E x \in {Refused} \cup (IF r.op = "ncd_open" THEN {Busy} ELSE {}) : Posts(r, x, val)
    /\ UNCHANGED <<files, inbox>>

Ios == IosTakes \/ \E r \in taken : IosReplies(r) \/ IosRefuses(r)

Datagram ==
    /\ packets < MaxPackets /\ cable /\ files["sock"] > 0
    /\ packets' = packets + 1 /\ inbox' = inbox + 1
    /\ UNCHANGED <<call, buffers, mail, fds, setup, loop, iface, cable, files, errors, slow, plugs, history>>

Plug ==
    /\ plugs < MaxPlugs /\ plugs' = plugs + 1 /\ cable' = ~cable
    /\ UNCHANGED <<call, buffers, mail, fds, setup, loop, iface, inbox, files, errors, slow, packets, history>>

-----------------------------------------------------------------------------
(***************************************************************************)
(* wii_ios_net_init, and wii_ios_net_shutdown.                             *)
(***************************************************************************)

\* The request op has returned.
Done(op) == at = op /\ ipc = "ret"
\* On to a request or a place of the loop.
Proceed(where) == at' = where /\ ipc' = "call" /\ ret' = 0 /\ UNCHANGED block

\* wii_ios_net_init, past its first return: a socket is not made twice.
StartInit ==
    /\ Proceed("ncd_open") /\ tries' = 0 /\ saved' = 0 /\ again' = FALSE
    /\ iftype' = "unknown" /\ UNCHANGED caller

Shutdown_stackOnly == Proceed(IF net_fd THEN "ip_close" ELSE "closed")

\* wii_ios_net_shutdown: the socket, then the stack it belongs to.
Shutdown == Proceed(CASE udp_fd -> "sock_close"
                   [] net_fd /\ ~udp_fd -> "ip_close"
                   [] OTHER -> "closed")

Fail == Shutdown /\ UNCHANGED <<fds, setup>>

OpenNcd ==
    /\ Done("ncd_open")
    /\ \/ ret >= 0 /\ Proceed("ncd_link") /\ UNCHANGED <<fds, setup>>
       \/ /\ ret = Busy /\ tries + 1 < NcdTries
          /\ Proceed("ncd_open") /\ tries' = tries + 1
          /\ UNCHANGED <<fds, iftype, saved, caller, again>>
       \/ ret < 0 /\ (ret = Busy => tries + 1 >= NcdTries) /\ Fail
    /\ UNCHANGED <<wire, loop>>

\* The link status is only cached; then ncd_probe_config and ncd_parse_config.
ReadNcd ==
    /\ \/ Done("ncd_link") /\ Proceed(IF ret < 0 THEN "ncd_giveup" ELSE "ncd_config")
          /\ UNCHANGED iftype
       \/ Done("ncd_config") /\ ret < 0 /\ Proceed("ncd_read") /\ UNCHANGED iftype
       \/ Done("ncd_config") /\ ret >= 0 /\ Proceed("ncd_close")
          /\ iftype' = IF ret = 0 THEN iface ELSE "unknown"
       \/ Done("ncd_read") /\ Proceed("ncd_close")
          /\ iftype' = IF ret = 0 THEN iface ELSE "unknown"
    /\ UNCHANGED <<fds, saved, tries, caller, again, wire, loop>>

GiveUpNcd == Done("ncd_giveup") /\ Fail /\ UNCHANGED <<wire, loop>>

OpenIp ==
    /\ \/ Done("ncd_close") /\ Proceed("ip_open") /\ UNCHANGED <<fds, setup>>
       \/ Done("ip_open") /\ net_fd' = (ret >= 0) /\ UNCHANGED udp_fd
          /\ Proceed(IF ret < 0 THEN "closed" ELSE "kd_open")
          /\ UNCHANGED setup
    /\ UNCHANGED <<wire, loop>>

StartUp ==
    /\ \/ Done("kd_open") /\ ret >= 0 /\ Proceed("kd_ioctl") /\ UNCHANGED <<fds, setup>>
       \/ Done("kd_open") /\ ret < 0 /\ Fail
       \/ /\ Done("kd_ioctl") /\ Proceed("kd_close") /\ saved' = ret
          /\ UNCHANGED <<fds, iftype, tries, caller, again>>
       \/ Done("kd_close") /\ saved >= 0 /\ Proceed("startup") /\ UNCHANGED <<fds, setup>>
       \/ Done("kd_close") /\ saved < 0 /\ Fail
       \/ /\ Done("startup") /\ ret >= 0 /\ Proceed("getip") /\ tries' = 0
          /\ UNCHANGED <<fds, iftype, saved, caller, again>>
       \/ Done("startup") /\ ret < 0 /\ Fail
    /\ UNCHANGED <<wire, loop>>

\* An error and "no address yet" are the same to getip_ok.
PollLocalIp ==
    /\ Done("getip")
    /\ \/ ret > 0 /\ Proceed("wifi_open") /\ UNCHANGED <<fds, setup>>
       \/ /\ ret <= 0 /\ tries + 1 < IpTries
          /\ Proceed("getip") /\ tries' = tries + 1
          /\ UNCHANGED <<fds, iftype, saved, caller, again>>
       \/ ret <= 0 /\ tries + 1 >= IpTries /\ Fail
    /\ UNCHANGED <<wire, loop>>

\* ncd_probe_wifi_mac, probe_active_link_state, probe_active_mac_from_getifopt:
\* what they find is only shown.
ProbeMacs ==
    /\ \/ Done("wifi_open") /\ Proceed(IF ret < 0 THEN "if_link" ELSE "wifi_mac")
       \/ Done("wifi_mac") /\ Proceed("wifi_close")
       \/ Done("wifi_close") /\ Proceed("if_link")
       \/ Done("if_link") /\ Proceed(IF iftype = "wired" THEN "if_mac" ELSE "socket")
       \/ Done("if_mac") /\ Proceed("socket")
    /\ UNCHANGED <<fds, setup, wire, loop>>

MakeSocket ==
    /\ Done("socket")
    /\ udp_fd' = (ret >= 0) /\ UNCHANGED <<net_fd, setup>>
    /\ Proceed(IF ret >= 0 THEN "bind" ELSE "ip_close")
    /\ UNCHANGED <<wire, loop>>

\* wii_adapter_init is over: the loop begins, or wii_poll_link_change goes on,
\* where only an edge from down arms the pause.
Resume ==
    /\ Proceed(IF caller = "boot" THEN "top" ELSE "lease?")
    /\ settle' = (settle \/ caller = "edge")

Bind ==
    /\ Done("bind")
    /\ \/ ret < 0 /\ Fail /\ UNCHANGED loop
       \/ /\ ret >= 0 /\ watched' = iftype /\ Resume
          /\ UNCHANGED <<fds, setup, last_link, settling, nested>>
    /\ UNCHANGED wire

Close ==
    /\ \/ Done("sock_close") /\ udp_fd' = FALSE /\ UNCHANGED net_fd
          /\ Proceed(IF net_fd THEN "ip_close" ELSE "closed")
       \/ Done("ip_close") /\ net_fd' = FALSE /\ UNCHANGED udp_fd /\ Proceed("closed")
    /\ UNCHANGED <<setup, wire, loop>>

\* After a failure common_main tries again a second later; the loop goes on
\* without a socket.
Closed ==
    /\ at = "closed"
    /\ \/ (again \/ caller = "boot") /\ StartInit /\ UNCHANGED loop
       \/ /\ ~again /\ caller # "boot" /\ Resume
          /\ UNCHANGED <<setup, watched, last_link, settling, nested>>
    /\ UNCHANGED <<fds, wire>>

-----------------------------------------------------------------------------
(***************************************************************************)
(* wii_adapter_loop: one pass asks the socket, takes and handles one       *)
(* datagram, and, in the main loop, looks after the cable and the lease.   *)
(***************************************************************************)

\* WII_LINK_UP_SETTLE_MS have passed.
Settled ==
    /\ settle /\ settle' = FALSE
    /\ UNCHANGED <<call, fds, setup, wire, watched, last_link, settling, nested>>

\* Without a socket wii_ios_net_poll_recv returns -1 at once.
Pass ==
    /\ at = "top"
    /\ settling' = (~nested /\ settle)
    /\ Proceed(IF ~settling' /\ net_fd /\ udp_fd THEN "poll" ELSE "keep")
    /\ UNCHANGED <<fds, setup, wire, watched, last_link, settle, nested>>

PollRecv_notZero ==
    /\ Done("poll")
    /\ Proceed(IF ret < 0 \/ val # 0 THEN "recv" ELSE "keep")
    /\ UNCHANGED <<fds, setup, loop, wire>>

PollRecv ==
    /\ Done("poll")
    /\ Proceed(IF ret >= 0 /\ val # 0 THEN "recv" ELSE "keep")
    /\ UNCHANGED <<fds, setup, loop, wire>>

\* recvfrom and process_pkt: a command that is answered or not, EXECUTE, or in
\* a system call its RETVAL, which ends the loop.
Handle ==
    /\ Done("recv")
    /\ \/ Proceed("keep") /\ UNCHANGED nested
       \/ ret > 0 /\ ~nested /\ Proceed("send") /\ UNCHANGED nested
       \/ ret > 0 /\ ~nested /\ Proceed("guest") /\ nested' = TRUE
       \/ ret > 0 /\ nested /\ Proceed("guest") /\ UNCHANGED nested
    /\ UNCHANGED <<fds, setup, watched, last_link, settle, settling, wire>>

\* The program makes a system call: build_send_packet, then the loop again.
GuestSends ==
    /\ at = "guest"
    /\ Proceed(IF udp_fd THEN "send" ELSE "top")
    /\ UNCHANGED <<fds, setup, loop, wire>>

GuestEnds ==
    /\ at = "guest" /\ Proceed("keep") /\ nested' = FALSE
    /\ UNCHANGED <<fds, setup, watched, last_link, settle, settling, wire>>

Sent ==
    /\ Done("send") /\ Proceed(IF nested THEN "top" ELSE "keep")
    /\ UNCHANGED <<fds, setup, loop, wire>>

\* The second half of a pass.  A system call on a lossy adapter may have passed
\* its deadline, and sends again or gives up; the cable is looked at every
\* 100 ms, where it says something, and -1 is the answer without a stack.
Keep ==
    /\ at = "keep"
    /\ \/ nested /\ Proceed("top")
       \/ nested /\ watched # "wired" /\ Proceed("guest")
       \/ ~nested /\ Proceed("lease?")
       \/ /\ ~nested /\ ~settling /\ watched = "wired" /\ net_fd
          /\ Proceed("link")
    /\ UNCHANGED <<fds, setup, loop, wire>>

\* wii_poll_link_change, with what the stack said: every answer but 0 counts
\* as up, errors and the -1 of a stack that is not open as well.
LinkUp_one(x) == x = 1
LinkUp(x) == x # 0

LinkChange(x) ==
    IF last_link < 0 \/ x # last_link
    THEN /\ last_link' = x
         /\ IF LinkUp(x)
            THEN /\ Shutdown /\ again' = TRUE
                 /\ caller' = IF last_link = 0 THEN "edge" ELSE "link"
                 /\ UNCHANGED <<iftype, saved, tries>>
            ELSE Proceed("lease?") /\ UNCHANGED setup
    ELSE Proceed("lease?") /\ UNCHANGED <<setup, last_link>>

PollLink ==
    /\ \/ Done("link") /\ LinkChange(IF ret < 0 THEN -1 ELSE val)
       \/ /\ at = "keep" /\ ~nested /\ ~settling /\ watched = "wired" /\ ~net_fd
          /\ LinkChange(-1)
    /\ UNCHANGED <<fds, watched, settle, settling, nested, wire>>

\* Once a second the lease is shown.
Lease ==
    /\ \/ at = "lease?" /\ ~settling /\ net_fd /\ Proceed("lease")
       \/ at = "lease?" /\ Proceed("top")
       \/ Done("lease") /\ Proceed("top")
    /\ UNCHANGED <<fds, setup, loop, wire>>

Ipc == Send \/ Receive \/ Abandon
Bringup == OpenNcd \/ ReadNcd \/ GiveUpNcd \/ OpenIp \/ StartUp \/ PollLocalIp
           \/ ProbeMacs \/ MakeSocket \/ Bind \/ Close \/ Closed
Loop == Pass \/ PollRecv \/ Handle \/ Sent \/ Keep \/ PollLink \/ Lease
Loader == Ipc \/ Bringup \/ Loop

IosNext == Loader \/ Ios \/ Settled \/ GuestSends \/ GuestEnds \/ Datagram \/ Plug

\* The loader and IOS run on, clocks advance, and the 100 ms between two looks
\* at the cable pass again and again.  Nothing is assumed of programs, the
\* network and the person at the cable.
IosSpec ==
    /\ IosInit /\ [][IosNext]_iosVars
    /\ WF_iosVars(Loader) /\ WF_iosVars(IosTakes)
    /\ WF_iosVars(\E r \in taken : IosReplies(r)) /\ WF_iosVars(Settled)
    /\ SF_iosVars(PollLink) /\ SF_iosVars(Keep /\ at' = "link")

-----------------------------------------------------------------------------
(* The shapes of the state.                                                *)
IosTypeOK ==
    /\ at \in Requests \cup {"closed", "top", "keep", "lease?", "guest"}
    /\ ipc \in {"call", "wait", "ret"} /\ ret \in {ETIMEDOUT, Busy, Refused, 0, 1}
    /\ req.n \in Nat /\ req.op \in Requests \cup {"none"} /\ val \in {0, 1}
    /\ \A r \in taken : r.op \in Requests
    /\ iftype \in Ifaces \cup {"unknown"} /\ watched \in Ifaces \cup {"unknown"}
    /\ last_link \in {-1, 0, 1} /\ caller \in {"boot", "link", "edge"}
    /\ {net_fd, udp_fd, settle, settling, nested, block, sent, again} \subseteq BOOLEAN

(* Every answer taken is that of the request it was taken for, although    *)
(* all requests share one address, unless a call with a time-out was       *)
(* abandoned before; ipc_block keeps sendto and recvfrom from being the    *)
(* first.                                                                  *)
OwnAnswers == ~odd => own

(* Between the requests of a pass IOS has nothing open that the loader     *)
(* does not know of, whichever step of the bring-up failed and however     *)
(* often the cable was pulled; and there is no socket without a stack.     *)
FilesAccount ==
    (~odd /\ at \in {"top", "keep", "lease?", "guest"}) =>
        /\ udp_fd => net_fd
        /\ files = [ncd |-> 0, kd |-> 0, ip |-> Bit(net_fd), sock |-> Bit(udp_fd)]

(* The two: answers are those of their requests, and nothing is left open.  *)
IosInv == IosTypeOK /\ OwnAnswers /\ FilesAccount

LoopPlaces == {"top", "guest", "keep", "lease?", "poll", "recv", "send", "link", "lease"}

(* The main loop never hangs in recvfrom, which has no time-out, on either *)
(* interface: it comes round again and again, or a program has the         *)
(* console, or the loop is not reached since the bring-up at the start     *)
(* fails again and again (common_main repeats it without a limit).  A      *)
(* bring-up from the loop, after a change of the cable, ends.  Nothing is  *)
(* said once a call with a time-out was abandoned.                         *)
LoopTurns == []<>(at \in {"top", "guest"} \/ (caller = "boot" /\ at \notin LoopPlaces) \/ odd)

(* A bring-up that failed is repeated: once the cable stays in and IOS     *)
(* refuses nothing more, there is a socket, at the start and after every   *)
(* replug.                                                                 *)
SocketReturns == <>[]cable => ([]<>(udp_fd /\ at \in {"top", "guest"}) \/ <>odd)

(* ipc_block: "ipc_sync must then wait indefinitely for IOS's reply (a     *)
(* datagram)".  Refuted by TLC (README, section 6) once another call was   *)
(* abandoned: recvfrom takes the late reply of that call.                  *)
RecvWaits == [][(at = "recv" /\ Receive) => reply = req.n]_iosVars

(* wii_link_up_settle_until: "Making IOS network calls during that window  *)
(* corrupts the shared IOS request buffer, so we hold them off".  Refuted  *)
(* by TLC (README, section 6): the bring-up itself makes them.             *)
HeldOff == [][(last_link = 0 /\ last_link' # 0) => ~(again' /\ at' \in Requests)]_iosVars

=============================================================================
