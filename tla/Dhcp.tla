-------------------------------- MODULE Dhcp --------------------------------
(***************************************************************************)
(* How the client gets and keeps its address: dhcp_poll and dhcp_tick      *)
(* (client/common/network/entry.c), dhcp_go, dhcp_renew and                *)
(* handle_dhcp_reply (client/common/network/dhcp.c), and the receive loop  *)
(* of the adapters they wait in.  The client is one thread: bb->loop(0) is *)
(* a nested receive loop that ends when escape_loop is set, by a reply     *)
(* that handle_dhcp_reply accepts or by the loop's own time-out, which it  *)
(* has only while timeout_loop > 0.  The DHCP server is external.          *)
(***************************************************************************)
EXTENDS Integers, FiniteSets, FiniteSetsExt

CONSTANTS
    Pool,         \* the addresses the server may hand out
    Leases,       \* the lease times it may grant, in seconds
    Xids,         \* transaction numbers (get_ticks() at the send)
    MaxAttempts,  \* DHCP_MAX_ATTEMPTS
    MaxNaks,      \* DHCP_MAX_NAKS
    Floor,        \* DHCP_RENEW_RETRY_FLOOR_SECS
    MaxLoss,      \* bound: packets lost
    MaxLate,      \* bound: time-outs while an answer is still under way
    MaxRefusals,  \* bound: requests the server answers with a NAK
    MaxRuns,      \* bound: programs executed
    MaxLinks      \* bound: cable pulls during a wait of dhcp_go

ASSUME DhcpAssumption ==
    /\ 0 \notin Pool /\ Leases \subseteq Nat \ {0} /\ Xids \subseteq Nat
    /\ MaxAttempts \in Nat \ {0} /\ MaxNaks \in Nat \ {0} /\ Floor \in Nat \ {0}

VARIABLES
    pc,           \* where the client's thread is; "renew": dhcp_renewal = 1
    escape,       \* escape_loop
    timeoutLoop,  \* timeout_loop: -1 timed out, 0 no time-out, 1 seconds left
    offerXid,     \* dhcpoffer_xid
    offerIp,      \* dhcpoffer_ip_from_pkt
    leaseTime,    \* dhcp_lease_time
    acked,        \* dhcp_acked
    renewalNak,   \* dhcp_renewal_nak
    nakReceived,  \* dhcp_nak_received
    nakCount,     \* nak_count of dhcp_go
    attempts,     \* dhcp_attempts
    maxed,        \* dhcp_nest_counter_maxed
    ourIp,        \* our_ip, 0 when there is none
    saved,        \* saved_lease_time of dhcp_poll
    secs,         \* lease_display_secs
    expiry,       \* seconds until lease_expiry_rtc
    threshold,    \* renew_threshold
    dontRenew,    \* dont_renew
    net,          \* the packets under way
    binding,      \* the address the server has us down for, 0 for none
    budget        \* how often each bounded event has happened

lease  == <<leaseTime, saved, secs, expiry, threshold, dontRenew>>
offered == <<offerXid, offerIp>>
goVars == <<acked, nakReceived, nakCount, attempts, maxed>>
vars == <<pc, escape, timeoutLoop, offered, lease, goVars, renewalNak, ourIp, net,
          binding, budget>>

Events == {"loss", "late", "refusal", "run", "link"}
Limit == [loss |-> MaxLoss, late |-> MaxLate, refusal |-> MaxRefusals,
          run |-> MaxRuns, link |-> MaxLinks]

\* Event e happens once more.
Spend(e) == /\ budget[e] < Limit[e]
            /\ budget' = [budget EXCEPT ![e] = @ + 1]

Packet(t, x, ip, l) == [type |-> t, xid |-> x, ip |-> ip, lease |-> l]
Questions == {"discover", "request", "renew"}
Answers == {"offer", "ack", "nak"}
Packets == {Packet(t, x, ip, l) :
              t \in Questions \cup Answers, x \in Xids \cup {0}, ip \in Pool \cup {0},
              l \in Leases \cup {0}}

\* A transaction number no packet under way carries.
Unused == Xids \ ({p.xid : p \in net} \cup {offerXid})
NewXid == Min(Unused)

Waits == {"offer", "ack", "renew"}
\* The thread is in a receive loop, its own or a nested one.
Receiving == pc \in Waits \cup {"main"}
-----------------------------------------------------------------------------
(* The receive loop of the adapter.                                        *)

\* handle_dhcp_reply on packet p: what it stores, and whether process_udp
\* sets escape_loop.  A reply is taken wherever the thread is receiving; an
\* OFFER and a NAK are not compared with any transaction.
HandleReply(p) ==
    CASE p.type = "offer" ->
           /\ offerXid' = p.xid /\ offerIp' = p.ip /\ escape' = TRUE
           /\ UNCHANGED <<leaseTime, acked, renewalNak, nakReceived>>
      [] p.type = "ack" /\ p.xid = offerXid /\ (pc = "renew" \/ p.ip = offerIp) ->
           /\ offerIp' = p.ip /\ leaseTime' = p.lease
           /\ acked' = TRUE /\ escape' = TRUE
           /\ UNCHANGED <<offerXid, renewalNak, nakReceived>>
      [] p.type = "nak" /\ pc = "renew" ->
           /\ renewalNak' = TRUE /\ escape' = TRUE
           /\ UNCHANGED <<offered, leaseTime, acked, nakReceived>>
      [] p.type = "nak" /\ pc # "renew" ->
           /\ nakReceived' = TRUE /\ escape' = TRUE
           /\ UNCHANGED <<offered, leaseTime, acked, renewalNak>>
      [] OTHER -> UNCHANGED <<offered, escape, leaseTime, acked, renewalNak, nakReceived>>

\* The adapter hands the loop every packet of a burst before escape_loop is
\* looked at, so this step may follow one that set it.
Receive == \E p \in net :
    /\ Receiving /\ p.type \in Answers
    /\ HandleReply(p)
    /\ net' = net \ {p}
    /\ UNCHANGED <<pc, timeoutLoop, nakCount, attempts, maxed, ourIp, saved, secs,
                   expiry, threshold, dontRenew, binding, budget>>

\* timeout_loop seconds have passed in a nested loop.  Only MaxLate times does
\* that happen with the answer under way or received in the same round.
Timeout ==
    /\ pc \in Waits /\ timeoutLoop > 0
    /\ IF net = {} /\ ~escape THEN UNCHANGED budget ELSE Spend("late")
    /\ timeoutLoop' = -1 /\ escape' = TRUE
    /\ UNCHANGED <<pc, offered, lease, goVars, renewalNak, ourIp, net, binding>>

\* The cable was pulled and is back: a wait with a time-out ends at once.  (In
\* the round that received the answer this is a late Timeout.)
LinkBack ==
    /\ pc \in Waits /\ timeoutLoop > 0 /\ ~escape /\ Spend("link")
    /\ attempts' = 0 /\ timeoutLoop' = -1 /\ escape' = TRUE
    /\ net' = {}
    /\ UNCHANGED <<pc, offered, lease, acked, nakReceived, nakCount, maxed, renewalNak,
                   ourIp, binding>>

\* escape_loop ends the main loop too; network_transport_loop starts it again.
Reenter ==
    /\ pc = "main" /\ escape /\ escape' = FALSE
    /\ UNCHANGED <<pc, timeoutLoop, offered, lease, goVars, renewalNak, ourIp, net,
                   binding, budget>>

\* dhcp_tick: only the main loop calls it, the countdown stands still in a
\* nested loop.
DhcpTick ==
    /\ pc = "main" /\ secs > 0
    /\ secs' = secs - 1 /\ expiry' = Max({expiry - 1, 0})
    /\ UNCHANGED <<pc, escape, timeoutLoop, offered, leaseTime, saved, threshold, dontRenew,
                   goVars, renewalNak, ourIp, net, binding, budget>>

\* lease_resync_from_rtc after any stretch of time.
Resync == \E left \in 0..expiry : secs' = left /\ expiry' = left

\* cmd_execute from whichever loop received EXECUTE: the program has the
\* adapter, and on its return disp_info sets the countdown from the clock.
RunProgram ==
    /\ Receiving /\ ourIp # 0 /\ Spend("run")
    /\ Resync
    /\ net' = {}
    /\ UNCHANGED <<pc, escape, timeoutLoop, offered, leaseTime, saved, threshold, dontRenew,
                   goVars, renewalNak, ourIp, binding>>
-----------------------------------------------------------------------------
(* dhcp_poll and dhcp_renew.  Wrong variants of a definition, each a slip  *)
(* the code could have made, stand before it with a suffix to its name;    *)
(* the properties must reject every one of them.                           *)

\* The renewal check of dhcp_poll.
RenewDue == leaseTime # 0 /\ ~dontRenew /\ secs <= threshold
\* The discovery check of dhcp_poll.
DiscoverDue == ourIp = 0 \/ (dontRenew /\ secs = 0)

\* dhcp_poll finds a renewal due; dhcp_renew sends its request and waits.
\* timeout_loop is 0 here: nothing but a reply ends the wait.
StartRenew ==
    /\ pc = "main" /\ RenewDue /\ pc' = "renew"
    /\ saved' = leaseTime /\ leaseTime' = 0
    /\ acked' = FALSE /\ renewalNak' = FALSE
    /\ offerXid' = NewXid
    /\ net' = net \cup {Packet("renew", NewXid, ourIp, 0)}
    /\ UNCHANGED <<escape, timeoutLoop, offerIp, secs, expiry, threshold, dontRenew,
                   nakReceived, nakCount, attempts, maxed, ourIp, binding, budget>>

\* The lease granted by an ACK starts to run.
StartLease ==
    /\ ourIp' = offerIp
    /\ secs' = leaseTime /\ expiry' = leaseTime /\ threshold' = leaseTime \div 2
    /\ UNCHANGED leaseTime

\* dhcp_renew's -1 branch while the lease still runs: retry at half of what
\* is left, or the floor, but not before another second has passed.
BackOff_noClamp ==
    /\ leaseTime' = saved
    /\ threshold' = Max({secs \div 2, Floor})
    /\ UNCHANGED <<ourIp, secs, expiry>>
BackOff_forgets ==
    /\ leaseTime' = 0
    /\ threshold' = Min({Max({secs \div 2, Floor}), secs - 1})
    /\ UNCHANGED <<ourIp, secs, expiry>>
BackOff ==
    /\ leaseTime' = saved
    /\ threshold' = Min({Max({secs \div 2, Floor}), secs - 1})
    /\ UNCHANGED <<ourIp, secs, expiry>>

\* No answer to the renewal: back off, or give up a lease that is over.
RenewMissed_noExpiry == BackOff /\ UNCHANGED dontRenew
RenewMissed ==
    /\ \/ secs > 0 /\ BackOff
       \/ /\ secs = 0 /\ UNCHANGED secs
          /\ ourIp' = 0 /\ leaseTime' = 0 /\ expiry' = 0 /\ threshold' = 0
    /\ UNCHANGED dontRenew

\* The seconds to the 87.5% mark of a lease of saved seconds, at its half.
NakRemaining == (saved * 3 + 4) \div 8

\* The server refused the renewal: keep the address until NakRemaining is
\* over, then discover.
RenewRefused_triesAgain ==
    /\ secs' = NakRemaining /\ expiry' = NakRemaining
    /\ UNCHANGED <<ourIp, leaseTime, threshold, dontRenew>>
RenewRefused ==
    /\ dontRenew' = TRUE
    /\ secs' = NakRemaining /\ expiry' = NakRemaining
    /\ UNCHANGED <<ourIp, leaseTime, threshold>>

\* The wait of dhcp_renew is over; dhcp_poll acts on its result.
EndRenew ==
    /\ pc = "renew" /\ escape /\ escape' = FALSE /\ pc' = "check"
    /\ \/ renewalNak /\ RenewRefused
       \/ ~renewalNak /\ acked /\ StartLease /\ UNCHANGED dontRenew
       \/ ~renewalNak /\ ~acked /\ RenewMissed
    /\ saved' = 0
    /\ UNCHANGED <<timeoutLoop, offered, goVars, renewalNak, net, binding, budget>>

\* dhcp_poll without a renewal: on to the discovery check.
SkipRenew ==
    /\ pc = "main" /\ ~RenewDue /\ DiscoverDue /\ pc' = "check"
    /\ UNCHANGED <<escape, timeoutLoop, offered, lease, goVars, renewalNak, ourIp, net,
                   binding, budget>>
\* The discovery check fails: dhcp_poll returns to the main loop.
Settle ==
    /\ pc = "check" /\ ~DiscoverDue /\ pc' = "main"
    /\ UNCHANGED <<escape, timeoutLoop, offered, lease, goVars, renewalNak, ourIp, net,
                   binding, budget>>
-----------------------------------------------------------------------------
(* dhcp_go.                                                                *)

StartGo ==
    /\ pc = "check" /\ DiscoverDue /\ pc' = "attempt"
    /\ dontRenew' = FALSE
    /\ acked' = FALSE /\ nakReceived' = FALSE /\ attempts' = 0 /\ nakCount' = 0
    /\ timeoutLoop' = 1
    /\ UNCHANGED <<escape, offered, leaseTime, saved, secs, expiry, threshold, maxed,
                   renewalNak, ourIp, net, binding, budget>>

\* The top of dhcp_go's loop: done, out of attempts, or another DISCOVER.
Attempt ==
    /\ pc = "attempt"
    /\ \/ acked /\ pc' = "done" /\ UNCHANGED <<attempts, maxed, timeoutLoop, net>>
       \/ /\ ~acked /\ attempts >= MaxAttempts /\ pc' = "done"
          /\ attempts' = attempts + 1 /\ maxed' = TRUE
          /\ UNCHANGED <<timeoutLoop, net>>
       \/ /\ ~acked /\ attempts < MaxAttempts /\ pc' = "offer"
          /\ attempts' = attempts + 1 /\ timeoutLoop' = 1
          /\ net' = net \cup {Packet("discover", NewXid, 0, 0)}
          /\ UNCHANGED maxed
    /\ UNCHANGED <<escape, offered, lease, acked, nakReceived, nakCount, renewalNak, ourIp,
                   binding, budget>>

\* The wait for the OFFER is over: ask for what was offered last.
EndOffer ==
    /\ pc = "offer" /\ escape /\ escape' = FALSE
    /\ \/ timeoutLoop < 0 /\ pc' = "attempt" /\ UNCHANGED net
       \/ /\ timeoutLoop > 0 /\ pc' = "ack"
          /\ net' = net \cup {Packet("request", offerXid, offerIp, 0)}
    /\ UNCHANGED <<timeoutLoop, offered, lease, goVars, renewalNak, ourIp, binding, budget>>

\* The wait for the ACK is over.
EndAck ==
    /\ pc = "ack" /\ escape /\ escape' = FALSE
    /\ IF timeoutLoop > 0 /\ nakReceived
         THEN /\ nakReceived' = FALSE /\ nakCount' = nakCount + 1
              /\ maxed' = (maxed \/ nakCount' >= MaxNaks)
              /\ pc' = IF nakCount' >= MaxNaks THEN "done" ELSE "attempt"
         ELSE pc' = "attempt" /\ UNCHANGED <<nakReceived, nakCount, maxed>>
    /\ UNCHANGED <<timeoutLoop, offered, lease, acked, attempts, renewalNak, ourIp, net,
                   binding, budget>>

\* dhcp_go returns and dhcp_poll acts on it.  An attempt limit that was
\* reached counts even if an ACK came in.
EndGo_staysMaxed ==
    /\ pc = "done" /\ pc' = "main"
    /\ attempts' = 0 /\ timeoutLoop' = 0 /\ maxed' = maxed /\ nakCount' = 0
    /\ IF maxed
         THEN ourIp' = 0 /\ secs' = 0 /\ expiry' = 0 /\ UNCHANGED <<leaseTime, threshold>>
         ELSE StartLease
    /\ UNCHANGED <<escape, offered, saved, dontRenew, acked, nakReceived, renewalNak, net,
                   binding, budget>>
EndGo ==
    /\ pc = "done" /\ pc' = "main"
    /\ attempts' = 0 /\ timeoutLoop' = 0 /\ maxed' = FALSE /\ nakCount' = 0
    /\ IF maxed
         THEN ourIp' = 0 /\ secs' = 0 /\ expiry' = 0 /\ UNCHANGED <<leaseTime, threshold>>
         ELSE StartLease
    /\ UNCHANGED <<escape, offered, saved, dontRenew, acked, nakReceived, renewalNak, net,
                   binding, budget>>
-----------------------------------------------------------------------------
(* The DHCP server and the network (external).                             *)

Reply(q, p) == net' = (net \ {q}) \cup {p}

\* The server takes question q.  An offer binds nothing; an ACK does.  A
\* request for no address gets no ACK.
Serve == \E q \in net :
    /\ \/ /\ q.type = "discover" /\ UNCHANGED <<binding, budget>>
          /\ \E ip \in Pool : Reply(q, Packet("offer", q.xid, ip, 0))
       \/ /\ q.type \in {"request", "renew"} /\ q.ip # 0 /\ binding' = q.ip
          /\ \E l \in Leases : Reply(q, Packet("ack", q.xid, q.ip, l))
          /\ UNCHANGED budget
       \/ /\ q.type \in {"request", "renew"} /\ Spend("refusal") /\ binding' = 0
          /\ Reply(q, Packet("nak", q.xid, 0, 0))
       \/ /\ q.type \in {"request", "renew"} /\ q.ip = 0
          /\ net' = net \ {q} /\ UNCHANGED <<binding, budget>>
    /\ UNCHANGED <<pc, escape, timeoutLoop, offered, lease, goVars, renewalNak, ourIp>>

Lose == \E p \in net :
    /\ Spend("loss") /\ net' = net \ {p}
    /\ UNCHANGED <<pc, escape, timeoutLoop, offered, lease, goVars, renewalNak, ourIp,
                   binding>>
-----------------------------------------------------------------------------
Init ==
    /\ pc = "main" /\ escape = FALSE /\ timeoutLoop = 0
    /\ offerXid = 0 /\ offerIp = 0
    /\ leaseTime = 0 /\ saved = 0 /\ secs = 0 /\ expiry = 0 /\ threshold = 0
    /\ dontRenew = FALSE
    /\ acked = FALSE /\ nakReceived = FALSE /\ nakCount = 0 /\ attempts = 0
    /\ maxed = FALSE /\ renewalNak = FALSE /\ ourIp = 0
    /\ net = {} /\ binding = 0 /\ budget = [e \in Events |-> 0]

Poll == StartRenew \/ EndRenew \/ SkipRenew \/ Settle
Go == StartGo \/ Attempt \/ EndOffer \/ EndAck \/ EndGo
Next == Receive \/ Timeout \/ LinkBack \/ Reenter \/ DhcpTick \/ RunProgram
        \/ Poll \/ Go \/ Serve \/ Lose

Spec == Init /\ [][Next]_vars

\* The thread always goes on, the clock runs, and the network and the server
\* deal with what is under way unless it is lost.
Fairness == /\ WF_vars(Poll) /\ WF_vars(Go) /\ WF_vars(DhcpTick) /\ WF_vars(Timeout)
            /\ WF_vars(Receive) /\ WF_vars(Reenter) /\ WF_vars(Serve)
FairSpec == Spec /\ Fairness
-----------------------------------------------------------------------------
\* No more than some lease.
Seconds == {n \in Nat : \E l \in Leases \cup {0} : n <= l}

\* The variables have the types of the C objects they stand for: the attempt
\* and NAK counters stay at their limits and no unsigned lease time wraps.
TypeOK ==
    /\ pc \in Waits \cup {"main", "check", "attempt", "done"}
    /\ timeoutLoop \in {-1, 0, 1}
    /\ escape \in BOOLEAN /\ acked \in BOOLEAN /\ renewalNak \in BOOLEAN
    /\ nakReceived \in BOOLEAN /\ maxed \in BOOLEAN /\ dontRenew \in BOOLEAN
    /\ offerXid \in Xids \cup {0} /\ {offerIp, ourIp, binding} \subseteq Pool \cup {0}
    /\ {leaseTime, saved, secs, expiry, threshold} \subseteq Seconds
    /\ nakCount \in 0..MaxNaks /\ attempts \in 0..(MaxAttempts + 1)
    /\ net \subseteq Packets
    /\ budget \in [Events -> Nat]

\* As long as no answer came after its time-out, a client that is back in the
\* main loop with an address it has not been refused uses the address the
\* server has it down for: the address dhcp_go and dhcp_renew leave in our_ip
\* is the acknowledged one, across lost packets, refusals, programs that run
\* during a wait and cable pulls.
Agreed ==
    (pc = "main" /\ ourIp # 0 /\ ~dontRenew /\ budget["late"] = 0) => binding = ourIp

\* A lease that still runs is never forgotten: whatever ended the last renewal,
\* stray and late replies included, the client goes on tracking the lease it
\* holds or is waiting to discover a new one.
KeepsTracking ==
    (pc = "main" /\ ourIp # 0 /\ secs > 0) => leaseTime # 0 \/ dontRenew

\* The two attempt counters reach their limits only where dhcp_go gives up.
CountersOK ==
    /\ pc # "done" => attempts <= MaxAttempts
    /\ pc # "done" => nakCount < MaxNaks

\* What KeepsTracking rests on: the display and the clock count the same
\* seconds, a lease being renewed is saved, and an ACK grants a lease.
TrackingOK ==
    /\ secs = expiry
    /\ pc = "renew" => saved # 0
    /\ pc # "renew" /\ ourIp # 0 /\ secs > 0 => leaseTime # 0 \/ dontRenew
    /\ \A p \in net : p.type = "ack" => p.lease # 0

\* No counter leaves its range, no lease time wraps, and no running lease is
\* forgotten (dhcp_poll).
LeaseInv == TypeOK /\ CountersOK /\ TrackingOK /\ KeepsTracking

\* `Floored so the fast poll loop can't storm the wire': when dhcp_poll has
\* dealt with the end of a renewal, another one is not due at once, so that at
\* least a second of the lease lies between two renewal requests.
RenewPaced == [][pc = "renew" /\ pc' = "check" => ~RenewDue']_vars

\* `Never permanently disable DHCP on a timeout': without an address, or with
\* one the server refused to renew, the client ends up in the main loop with a
\* granted address, once the losses, refusals, programs and cable pulls stop
\* (late answers apart).
Recovers ==
    (ourIp = 0 \/ dontRenew)
      ~> (\/ pc = "main" /\ ourIp # 0 /\ ~dontRenew
          \/ budget["late"] > 0)

\* `Lost/late renew ACK ... retry RENEW after ~half the remaining lease': a
\* renewal comes to an end, with or without an answer.  Refuted by TLC with
\* one loss (README, section 6).
RenewReturns == pc = "renew" ~> pc # "renew"
=============================================================================
