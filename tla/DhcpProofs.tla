----------------------------- MODULE DhcpProofs -----------------------------
(***************************************************************************)
(* Proofs about Dhcp, for all pools, lease times, retry limits, losses,    *)
(* refusals, programs and cable pulls.                                     *)
(***************************************************************************)
EXTENDS Dhcp, FiniteSetTheorems, WellFoundedInduction, TLAPS

-----------------------------------------------------------------------------
(* Least and greatest *)

LEMMA MinTwo ==
    ASSUME NEW a \in Int, NEW b \in Int
    PROVE  Min({a, b}) = IF a <= b THEN a ELSE b
<1>1. \A x \in {a, b} : (\A y \in {a, b} : x <= y) <=> x = (IF a <= b THEN a ELSE b)
  OBVIOUS
<1>. QED BY <1>1 DEF Min

LEMMA MaxTwo ==
    ASSUME NEW a \in Int, NEW b \in Int
    PROVE  Max({a, b}) = IF a >= b THEN a ELSE b
<1>1. \A x \in {a, b} : (\A y \in {a, b} : x >= y) <=> x = (IF a >= b THEN a ELSE b)
  OBVIOUS
<1>. QED BY <1>1 DEF Max

\* A set of naturals with a member has its least one in it.
LEMMA MinMember ==
    ASSUME NEW S \in SUBSET Nat, S # {}
    PROVE  Min(S) \in S
<1>1. PICK m \in S : \A y \in S : ~ <<y, m>> \in OpToRel(<, Nat)
  BY NatLessThanWellFounded, WFMin
<1>2. \A y \in S : ~(y < m)
  BY <1>1 DEF OpToRel
<1>3. \A y \in S : m <= y
  BY <1>2
<1>. QED BY <1>3 DEF Min

-----------------------------------------------------------------------------
(* Agreement: without a late answer, the client and the server speak in    *)
(* turns.                                                                  *)

\* At most one packet is under way, while the client waits and has not been
\* answered yet; no reply sets escape_loop anywhere else.
OneAtATime ==
    /\ \A p \in net, q \in net : p = q
    /\ net # {} => ~escape
    /\ escape \/ net # {} => pc \in Waits

\* It is of the kind the client waits for and about the address the client
\* asked for; an acknowledged address is the one the server has it down for.
OnTopic ==
    \A p \in net :
        /\ pc = "offer" => p.type \in {"discover", "offer"}
        /\ pc = "ack" => p.type \in {"request", "ack", "nak"}
        /\ pc = "renew" => p.type \in {"renew", "ack", "nak"}
        /\ p.type \in {"request", "ack"} /\ pc = "ack" => p.ip = offerIp
        /\ p.type = "ack" => p.ip = binding

\* An acknowledgement ends the wait it came in, dhcp_go ends with one or gives
\* up, and nothing but a reply ends the wait of dhcp_renew.
EndsWithAnswer ==
    /\ pc = "offer" => ~acked
    /\ pc = "ack" => (acked => escape)
    /\ pc = "renew" => (escape <=> acked \/ renewalNak)
    /\ pc \in {"main", "renew", "check"} => timeoutLoop = 0
    /\ maxed => pc = "done"
    /\ pc = "done" => maxed \/ acked

\* An acknowledged address, and one in use that was not refused, is the one
\* the server has the client down for.
Bound ==
    /\ acked /\ pc \in {"renew", "ack", "attempt", "done"} => offerIp = binding
    /\ pc \in {"main", "check"} /\ ourIp # 0 /\ ~dontRenew => binding = ourIp

InTurns == OneAtATime /\ OnTopic /\ EndsWithAnswer /\ Bound

AgreedInv ==
    /\ budget \in [Events -> Nat]
    /\ budget["late"] = 0 => InTurns

\* An event counter never goes down.
LEMMA SpendCounts ==
    ASSUME budget \in [Events -> Nat], NEW e \in Events, Spend(e)
    PROVE  /\ budget' \in [Events -> Nat]
           /\ budget'["late"] >= budget["late"]
           /\ budget'[e] > 0
<1>1. "late" \in Events
  BY DEF Events
<1>. QED BY <1>1 DEF Spend

LEMMA BudgetStep ==
    ASSUME budget \in [Events -> Nat], Next
    PROVE  /\ budget' \in [Events -> Nat]
           /\ budget'["late"] >= budget["late"]
<1>1. {"loss", "late", "refusal", "run", "link"} = Events
  BY DEF Events
<1>2. CASE UNCHANGED budget
  BY <1>1, <1>2
<1>3. CASE \E e \in Events : Spend(e)
  BY <1>3, SpendCounts
<1>4. UNCHANGED budget \/ \E e \in Events : Spend(e)
  <2>1. CASE Timeout \/ LinkBack \/ RunProgram
    BY <2>1, <1>1 DEF Timeout, LinkBack, RunProgram
  <2>2. CASE Serve \/ Lose
    BY <2>2, <1>1 DEF Serve, Lose
  <2>3. CASE Receive \/ Reenter \/ DhcpTick
    BY <2>3 DEF Receive, Reenter, DhcpTick
  <2>4. CASE Poll
    BY <2>4 DEF Poll, StartRenew, EndRenew, SkipRenew, Settle
  <2>5. CASE Go
    BY <2>5 DEF Go, StartGo, Attempt, EndOffer, EndAck, EndGo
  <2>. QED BY <2>1, <2>2, <2>3, <2>4, <2>5 DEF Next
<1>. QED BY <1>2, <1>3, <1>4

LEMMA TurnsReceive ==
    ASSUME InTurns, Receive
    PROVE  InTurns'
<1>. USE DEF InTurns, OneAtATime, OnTopic, EndsWithAnswer, Bound, Waits, Answers
<1>1. PICK p \in net : Receive!(p)
  BY DEF Receive
<1>2. net = {p} /\ net' = {} /\ pc \in Waits /\ pc' = pc
  BY <1>1
<1>3. UNCHANGED <<pc, timeoutLoop, maxed, ourIp, binding, dontRenew>>
  BY <1>1
<1>4. p.type = "offer" =>
        /\ offerIp' = p.ip /\ escape' = TRUE /\ UNCHANGED <<acked, renewalNak>>
  BY <1>1 DEF HandleReply, offered
<1>5. p.type = "ack" /\ p.xid = offerXid /\ (pc = "renew" \/ p.ip = offerIp) =>
        /\ offerIp' = p.ip /\ acked' = TRUE /\ escape' = TRUE /\ UNCHANGED renewalNak
  BY <1>1 DEF HandleReply, offered
<1>6. p.type = "ack" /\ ~(p.xid = offerXid /\ (pc = "renew" \/ p.ip = offerIp)) =>
        UNCHANGED <<offerIp, escape, acked, renewalNak>>
  BY <1>1 DEF HandleReply, offered
<1>7. p.type = "nak" /\ pc = "renew" =>
        renewalNak' = TRUE /\ escape' = TRUE /\ UNCHANGED <<offerIp, acked>>
  BY <1>1 DEF HandleReply, offered
<1>8. p.type = "nak" /\ pc # "renew" =>
        escape' = TRUE /\ UNCHANGED <<offerIp, acked, renewalNak>>
  BY <1>1 DEF HandleReply, offered
<1>9. p.type \in {"offer", "ack", "nak"}
  BY <1>1
<1>. QED BY <1>2, <1>3, <1>4, <1>5, <1>6, <1>7, <1>8, <1>9

LEMMA TurnsServe ==
    ASSUME InTurns, Serve
    PROVE  InTurns'
<1>. USE DEF InTurns, OneAtATime, OnTopic, EndsWithAnswer, Bound, Waits, Answers
<1>1. PICK q \in net : Serve!(q)
  BY DEF Serve
<1>2. net = {q} /\ pc \in Waits /\ ~escape
  BY <1>1
<1>3. UNCHANGED <<pc, escape, timeoutLoop, maxed, ourIp, dontRenew, offerIp, acked, renewalNak>>
  BY <1>1, Zenon DEF offered, goVars, lease
<1>4. CASE q.type = "discover" /\ binding' = binding
             /\ \E ip \in Pool : Reply(q, Packet("offer", q.xid, ip, 0))
  BY <1>2, <1>3, <1>4 DEF Reply, Packet
<1>5. CASE q.type \in {"request", "renew"} /\ binding' = q.ip
             /\ \E l \in Leases : Reply(q, Packet("ack", q.xid, q.ip, l))
  BY <1>2, <1>3, <1>5 DEF Reply, Packet
<1>6. CASE q.type \in {"request", "renew"} /\ binding' = 0
             /\ Reply(q, Packet("nak", q.xid, 0, 0))
  BY <1>2, <1>3, <1>6 DEF Reply, Packet
<1>7. CASE net' = net \ {q} /\ binding' = binding
  BY <1>2, <1>3, <1>7
<1>. QED BY <1>1, <1>4, <1>5, <1>6, <1>7

\* A time-out that is not late finds no packet under way.
LEMMA TurnsTimeout ==
    ASSUME budget \in [Events -> Nat], budget'["late"] = 0, InTurns, Timeout
    PROVE  InTurns'
<1>1. net = {} /\ ~escape /\ pc \in Waits /\ timeoutLoop > 0
  <2>1. ~Spend("late")
    BY SpendCounts DEF Events
  <2>. QED BY <2>1 DEF Timeout
<1>2. /\ escape' = TRUE
      /\ UNCHANGED <<pc, offerIp, acked, maxed, renewalNak, dontRenew, ourIp, net, binding>>
  BY DEF Timeout, offered, lease, goVars
<1>3. pc \in {"offer", "ack"}
  BY <1>1 DEF InTurns, EndsWithAnswer, Waits
<1>. QED BY <1>1, <1>2, <1>3 DEF InTurns, OneAtATime, OnTopic, EndsWithAnswer, Bound

LEMMA TurnsLinkBack ==
    ASSUME InTurns, LinkBack
    PROVE  InTurns'
<1>1. ~escape /\ pc \in Waits /\ timeoutLoop > 0
  BY DEF LinkBack
<1>2. /\ escape' = TRUE /\ net' = {}
      /\ UNCHANGED <<pc, offerIp, acked, maxed, renewalNak, dontRenew, ourIp, binding>>
  BY DEF LinkBack, offered, lease
<1>3. pc \in {"offer", "ack"}
  BY <1>1 DEF InTurns, EndsWithAnswer, Waits
<1>. QED BY <1>1, <1>2, <1>3 DEF InTurns, OneAtATime, OnTopic, EndsWithAnswer, Bound, Waits

\* The main loop, a program and a lost packet.
LEMMA TurnsLoop ==
    ASSUME InTurns, Reenter \/ DhcpTick \/ RunProgram \/ Lose
    PROVE  InTurns'
<1>. USE DEF InTurns, OneAtATime, OnTopic, EndsWithAnswer, Bound, Waits
<1>1. CASE Reenter
  BY <1>1 DEF Reenter
<1>2. CASE DhcpTick
  BY <1>2 DEF DhcpTick, offered, goVars
<1>3. CASE RunProgram
  BY <1>3 DEF RunProgram, offered, goVars
<1>4. CASE Lose
  <2>1. PICK p \in net : net' = net \ {p}
    BY <1>4 DEF Lose
  <2>2. UNCHANGED <<pc, escape, timeoutLoop, offerIp, acked, maxed, renewalNak, dontRenew,
                    ourIp, binding>>
    BY <1>4 DEF Lose, offered, lease, goVars
  <2>. QED BY <2>1, <2>2
<1>. QED BY <1>1, <1>2, <1>3, <1>4

LEMMA TurnsPoll ==
    ASSUME InTurns, Poll
    PROVE  InTurns'
<1>. USE DEF InTurns, OneAtATime, OnTopic, EndsWithAnswer, Bound, Waits
<1>1. CASE StartRenew
  <2>1. /\ pc = "main" /\ pc' = "renew" /\ net = {} /\ ~escape /\ timeoutLoop = 0
        /\ net' = {Packet("renew", NewXid, ourIp, 0)}
    BY <1>1 DEF StartRenew
  <2>2. /\ acked' = FALSE /\ renewalNak' = FALSE
        /\ UNCHANGED <<escape, timeoutLoop, maxed>>
    BY <1>1 DEF StartRenew
  <2>. QED BY <2>1, <2>2 DEF Packet
<1>2. CASE EndRenew
  <2>1. /\ pc = "renew" /\ pc' = "check" /\ escape /\ escape' = FALSE
        /\ net = {} /\ timeoutLoop = 0
        /\ UNCHANGED <<timeoutLoop, net, binding, offerIp, maxed>>
    BY <1>2 DEF EndRenew, offered, goVars
  <2>2. CASE renewalNak /\ RenewRefused
    BY <2>1, <2>2 DEF RenewRefused
  <2>3. CASE acked /\ StartLease /\ UNCHANGED dontRenew
    BY <2>1, <2>3 DEF StartLease
  <2>. QED BY <1>2, <2>1, <2>2, <2>3 DEF EndRenew
<1>3. CASE SkipRenew \/ Settle
  BY <1>3 DEF SkipRenew, Settle, offered, lease, goVars
<1>. QED BY <1>1, <1>2, <1>3 DEF Poll

LEMMA TurnsGo ==
    ASSUME InTurns, Go
    PROVE  InTurns'
<1>. USE DEF InTurns, OneAtATime, OnTopic, EndsWithAnswer, Bound, Waits
<1>1. CASE StartGo
  BY <1>1 DEF StartGo
<1>2. CASE Attempt
  <2>1. /\ pc = "attempt" /\ net = {} /\ ~escape
        /\ UNCHANGED <<escape, offerIp, acked, binding>>
    BY <1>2 DEF Attempt, offered
  <2>2. CASE pc' = "done" /\ net' = net /\ (acked \/ maxed')
    BY <2>1, <2>2
  <2>3. CASE /\ ~acked /\ pc' = "offer" /\ maxed' = maxed
             /\ net' = net \cup {Packet("discover", NewXid, 0, 0)}
    BY <2>1, <2>3 DEF Packet
  <2>. QED BY <1>2, <2>2, <2>3 DEF Attempt
<1>3. CASE EndOffer
  <2>1. /\ pc = "offer" /\ net = {} /\ escape /\ escape' = FALSE /\ ~acked
        /\ UNCHANGED <<offerIp, acked, maxed, binding>>
    BY <1>3 DEF EndOffer, offered, goVars
  <2>2. CASE pc' = "attempt" /\ net' = net
    BY <2>1, <2>2
  <2>3. CASE pc' = "ack" /\ net' = net \cup {Packet("request", offerXid, offerIp, 0)}
    BY <2>1, <2>3 DEF Packet
  <2>. QED BY <1>3, <2>2, <2>3 DEF EndOffer
<1>4. CASE EndAck
  <2>1. /\ pc = "ack" /\ net = {} /\ net' = net /\ escape /\ escape' = FALSE /\ ~maxed
        /\ UNCHANGED <<offerIp, acked, binding>>
    BY <1>4 DEF EndAck, offered
  <2>2. (pc' = "done" /\ maxed') \/ (pc' = "attempt" /\ ~maxed')
    BY <1>4, <2>1 DEF EndAck
  <2>. QED BY <2>1, <2>2
<1>5. CASE EndGo
  <2>1. /\ pc = "done" /\ pc' = "main" /\ net = {} /\ ~escape
        /\ timeoutLoop' = 0 /\ maxed' = FALSE
        /\ UNCHANGED <<escape, net, binding>>
    BY <1>5 DEF EndGo, offered
  <2>2. IF maxed THEN ourIp' = 0 ELSE ourIp' = offerIp /\ acked
    BY <1>5, <2>1 DEF EndGo, StartLease
  <2>. QED BY <2>1, <2>2
<1>. QED BY <1>1, <1>2, <1>3, <1>4, <1>5 DEF Go

LEMMA AgreedStep ==
    ASSUME AgreedInv, [Next]_vars
    PROVE  AgreedInv'
<1>1. CASE Next
  <2>1. budget' \in [Events -> Nat] /\ budget'["late"] >= budget["late"]
    BY <1>1, BudgetStep DEF AgreedInv
  <2>2. ASSUME budget'["late"] = 0 PROVE InTurns'
    <3>1. "late" \in Events
      BY DEF Events
    <3>2. budget \in [Events -> Nat] /\ InTurns
      BY <2>1, <2>2, <3>1 DEF AgreedInv
    <3>. QED BY <1>1, <2>2, <3>2, TurnsReceive, TurnsServe, TurnsTimeout, TurnsLinkBack,
                TurnsLoop, TurnsPoll, TurnsGo DEF Next
  <2>. QED BY <2>1, <2>2 DEF AgreedInv
<1>2. CASE UNCHANGED vars
  BY <1>2 DEF vars, offered, lease, goVars, AgreedInv, InTurns, OneAtATime, OnTopic,
              EndsWithAnswer, Bound
<1>. QED BY <1>1, <1>2

\* As long as no answer came after its time-out, the address the client uses
\* is the one the server has it down for (dhcp_go, dhcp_renew), across lost
\* packets, refusals, programs that run during a wait and cable pulls.
THEOREM Agreement == Spec => []Agreed
<1>1. Init => AgreedInv
  BY DEF Init, AgreedInv, InTurns, OneAtATime, OnTopic, EndsWithAnswer, Bound, Waits
<1>2. AgreedInv => Agreed
  BY DEF AgreedInv, Agreed, InTurns, Bound
<1>. QED BY <1>1, <1>2, AgreedStep, PTL DEF Spec

-----------------------------------------------------------------------------
(* Types.  The model numbers transactions with numbers no packet under way *)
(* carries; its instances must have enough of them.                        *)

\* There is another transaction number.
XidsLast == Unused # {}

LEMMA NewXidType ==
    ASSUME XidsLast
    PROVE  NewXid \in Xids
<1>1. Unused \in SUBSET Nat /\ Unused # {} /\ Unused \subseteq Xids
  BY DhcpAssumption DEF Unused, XidsLast
<1>. QED BY <1>1, MinMember DEF NewXid

\* Seconds are downward closed and closed under what dhcp.c computes of them.
LEMMA SecondsClosed ==
    ASSUME NEW s \in Seconds, NEW n \in Nat, n <= s
    PROVE  n \in Seconds
<1>1. PICK l \in Leases \cup {0} : s <= l
  BY DEF Seconds
<1>2. s \in Nat /\ l \in Nat
  BY DhcpAssumption DEF Seconds
<1>3. n <= l
  BY <1>1, <1>2
<1>. QED BY <1>3 DEF Seconds

LEMMA LeaseSeconds ==
    Leases \cup {0} \subseteq Seconds /\ Seconds \subseteq Nat
BY DhcpAssumption DEF Seconds

\* The retry point of a renewal that was not answered lies before now.
LEMMA BackOffPoint ==
    ASSUME NEW s \in Nat \ {0}
    PROVE  /\ Min({Max({s \div 2, Floor}), s - 1}) \in Nat
           /\ Min({Max({s \div 2, Floor}), s - 1}) < s
<1>1. s \div 2 \in Nat /\ Floor \in Nat /\ s - 1 \in Nat
  BY DhcpAssumption
<1>. DEFINE m == Max({s \div 2, Floor})
<1>2. m \in Nat
  BY <1>1, MaxTwo
<1>. HIDE DEF m
<1>3. Min({m, s - 1}) \in Nat /\ Min({m, s - 1}) < s
  BY <1>1, <1>2, MinTwo
<1>. QED BY <1>3 DEF m

LEMMA NakPoint ==
    ASSUME NEW s \in Nat
    PROVE  (s * 3 + 4) \div 8 \in Nat /\ (s * 3 + 4) \div 8 <= s
OBVIOUS

LEMMA HalfPoint ==
    ASSUME NEW s \in Nat
    PROVE  /\ s \div 2 \in Nat
           /\ s \div 2 <= s
           /\ s # 0 => s \div 2 < s
OBVIOUS

LEMMA PacketType ==
    ASSUME NEW t \in Questions \cup Answers, NEW x \in Xids \cup {0},
           NEW ip \in Pool \cup {0}, NEW l \in Leases \cup {0}
    PROVE  Packet(t, x, ip, l) \in Packets
BY DEF Packets

LEMMA PacketFields ==
    ASSUME NEW p \in Packets
    PROVE  /\ p.type \in Questions \cup Answers /\ p.xid \in Xids \cup {0}
           /\ p.ip \in Pool \cup {0} /\ p.lease \in Leases \cup {0}
BY DEF Packets, Packet

-----------------------------------------------------------------------------
(* The lease.                                                              *)

LEMMA LeaseReceive ==
    ASSUME LeaseInv, Receive
    PROVE  LeaseInv'
<1>. USE DEF LeaseInv, TypeOK, CountersOK, TrackingOK, KeepsTracking
<1>1. PICK p \in net : Receive!(p)
  BY DEF Receive
<1>2. /\ net' = net \ {p} /\ Receiving
      /\ UNCHANGED <<pc, timeoutLoop, nakCount, attempts, maxed, ourIp, saved, secs, expiry,
                     threshold, dontRenew, binding, budget>>
  BY <1>1
<1>3. /\ p.xid \in Xids \cup {0} /\ p.ip \in Pool \cup {0}
      /\ p.lease \in Seconds /\ (p.type = "ack" => p.lease # 0)
  BY PacketFields, LeaseSeconds
<1>4. HandleReply(p)
  BY <1>1
<1>5. /\ offerXid' \in Xids \cup {0} /\ offerIp' \in Pool \cup {0}
      /\ leaseTime' \in Seconds /\ (leaseTime # 0 => leaseTime' # 0)
      /\ escape' \in BOOLEAN /\ acked' \in BOOLEAN /\ renewalNak' \in BOOLEAN
      /\ nakReceived' \in BOOLEAN
  BY <1>3, <1>4 DEF HandleReply, offered
<1>. QED BY <1>2, <1>5

LEMMA LeaseServe ==
    ASSUME LeaseInv, Serve
    PROVE  LeaseInv'
<1>. USE DEF LeaseInv, TypeOK, CountersOK, TrackingOK, KeepsTracking
<1>1. PICK q \in net : Serve!(q)
  BY DEF Serve
<1>2. /\ q.xid \in Xids \cup {0} /\ q.ip \in Pool \cup {0}
  BY PacketFields
<1>3. UNCHANGED <<pc, escape, timeoutLoop, offerXid, offerIp, leaseTime, saved, secs, expiry,
                  threshold, dontRenew, acked, nakReceived, nakCount, attempts, maxed,
                  renewalNak, ourIp>>
  BY <1>1, Zenon DEF offered, goVars, lease
<1>4. budget' \in [Events -> Nat]
  BY <1>1, SpendCounts DEF Events
<1>5. binding' \in Pool \cup {0}
  BY <1>1, <1>2
<1>6. \E t \in Answers, ip \in Pool \cup {0}, l \in Leases \cup {0} :
        /\ t = "ack" => l # 0
        /\ net' \subseteq net \cup {Packet(t, q.xid, ip, l)}
  <2>1. ASSUME NEW ip \in Pool, Reply(q, Packet("offer", q.xid, ip, 0)) PROVE <1>6
    BY <2>1 DEF Reply, Answers
  <2>2. ASSUME NEW l \in Leases, Reply(q, Packet("ack", q.xid, q.ip, l)) PROVE <1>6
    BY <1>2, <2>2, DhcpAssumption DEF Reply, Answers
  <2>3. CASE Reply(q, Packet("nak", q.xid, 0, 0))
    BY <2>3 DEF Reply, Answers
  <2>4. CASE net' = net \ {q}
    BY <2>4 DEF Answers
  <2>. QED BY <1>1, <2>1, <2>2, <2>3, <2>4
<1>7. net' \subseteq Packets /\ \A p \in net' : p.type = "ack" => p.lease # 0
  BY <1>2, <1>6, PacketType DEF Packet
<1>. QED BY <1>3, <1>4, <1>5, <1>7

\* Time-outs, cable pulls, the main loop, a program and a lost packet.
LEMMA LeaseLoop ==
    ASSUME LeaseInv, Timeout \/ LinkBack \/ Reenter \/ DhcpTick \/ RunProgram \/ Lose
    PROVE  LeaseInv'
<1>. USE DEF LeaseInv, TypeOK, CountersOK, TrackingOK, KeepsTracking
<1>1. CASE Timeout
  <2>1. budget' \in [Events -> Nat]
    BY <1>1, SpendCounts DEF Timeout, Events
  <2>. QED BY <1>1, <2>1 DEF Timeout, offered, lease, goVars
<1>2. CASE LinkBack
  <2>1. budget' \in [Events -> Nat]
    BY <1>2, SpendCounts DEF LinkBack, Events
  <2>. QED BY <1>2, <2>1, DhcpAssumption DEF LinkBack, offered, lease
<1>3. CASE Reenter
  BY <1>3 DEF Reenter, offered, lease, goVars
<1>4. CASE DhcpTick
  <2>1. secs \in Nat \ {0} /\ secs = expiry
    <3>1. secs \in Seconds /\ Seconds \subseteq Nat /\ secs = expiry
      BY LeaseSeconds
    <3>2. secs > 0
      BY <1>4 DEF DhcpTick
    <3>. QED BY <3>1, <3>2
  <2>2. secs' = secs - 1 /\ expiry' = secs'
    BY <1>4, <2>1, MaxTwo DEF DhcpTick
  <2>3. secs' \in Seconds
    BY <2>1, <2>2, SecondsClosed
  <2>. QED BY <1>4, <2>1, <2>2, <2>3 DEF DhcpTick, offered, goVars
<1>5. CASE RunProgram
  <2>1. budget' \in [Events -> Nat]
    BY <1>5, SpendCounts DEF RunProgram, Events
  <2>2. secs' \in 0 .. secs /\ expiry' = secs' /\ secs \in Nat
    BY <1>5, LeaseSeconds DEF RunProgram, Resync
  <2>3. secs' \in Seconds
    BY <2>2, SecondsClosed
  <2>. QED BY <1>5, <2>1, <2>2, <2>3 DEF RunProgram, offered, goVars
<1>6. CASE Lose
  <2>1. PICK p \in net : net' = net \ {p} /\ Spend("loss")
    BY <1>6 DEF Lose
  <2>2. budget' \in [Events -> Nat]
    BY <2>1, SpendCounts DEF Events
  <2>. QED BY <1>6, <2>1, <2>2 DEF Lose, offered, lease, goVars
<1>. QED BY <1>1, <1>2, <1>3, <1>4, <1>5, <1>6

LEMMA LeaseStartRenew ==
    ASSUME LeaseInv, XidsLast, StartRenew
    PROVE  LeaseInv'
<1>. USE DEF LeaseInv, TypeOK, CountersOK, TrackingOK, KeepsTracking
<1>1. NewXid \in Xids /\ ourIp \in Pool \cup {0}
  BY NewXidType
<1>2. Packet("renew", NewXid, ourIp, 0) \in Packets
  BY <1>1, PacketType DEF Questions
<1>3. Packet("renew", NewXid, ourIp, 0).type = "renew"
  BY DEF Packet
<1>4. /\ pc' = "renew" /\ pc = "main" /\ saved' = leaseTime /\ leaseTime # 0 /\ leaseTime' = 0
      /\ offerXid' = NewXid
      /\ net' = net \cup {Packet("renew", NewXid, ourIp, 0)}
      /\ acked' = FALSE /\ renewalNak' = FALSE
      /\ UNCHANGED <<escape, timeoutLoop, offerIp, secs, expiry, threshold, dontRenew,
                     nakReceived, nakCount, attempts, maxed, ourIp, binding, budget>>
  BY DEF StartRenew, RenewDue
<1>5. 0 \in Seconds
  BY LeaseSeconds
<1>. HIDE DEF TypeOK
<1>. QED BY <1>1, <1>2, <1>3, <1>4, <1>5 DEF TypeOK, Waits

\* What the three ends of a renewal leave: seconds that stay in range, and no
\* renewal that is due at once.
LEMMA EndRenewKeeps ==
    ASSUME LeaseInv, EndRenew
    PROVE  /\ {leaseTime', secs', threshold'} \subseteq Seconds /\ expiry' = secs'
           /\ ourIp' \in Pool \cup {0} /\ dontRenew' \in BOOLEAN
           /\ ourIp' # 0 /\ secs' > 0 => leaseTime' # 0 \/ dontRenew'
           /\ ~RenewDue'
<1>1. /\ pc = "renew" /\ saved # 0 /\ secs = expiry
      /\ {leaseTime, saved, secs, threshold} \subseteq Seconds /\ 0 \in Seconds
      /\ {ourIp, offerIp} \subseteq Pool \cup {0} /\ dontRenew \in BOOLEAN
  BY LeaseSeconds DEF EndRenew, LeaseInv, TypeOK, TrackingOK
<1>2. {leaseTime, saved, secs, threshold} \subseteq Nat
  BY <1>1, LeaseSeconds
<1>3. CASE RenewRefused
  <2>1. NakRemaining \in Seconds
    BY <1>1, <1>2, NakPoint, SecondsClosed DEF NakRemaining
  <2>. QED BY <1>1, <1>3, <2>1 DEF RenewRefused, RenewDue
<1>4. CASE StartLease /\ UNCHANGED dontRenew
  <2>1. leaseTime \div 2 \in Seconds /\ (leaseTime # 0 => leaseTime \div 2 < leaseTime)
    BY <1>1, <1>2, HalfPoint, SecondsClosed
  <2>2. /\ ourIp' = offerIp /\ secs' = leaseTime /\ expiry' = leaseTime
        /\ threshold' = leaseTime \div 2 /\ leaseTime' = leaseTime /\ dontRenew' = dontRenew
    BY <1>4 DEF StartLease
  <2>3. leaseTime' # 0 => ~(secs' <= threshold')
    BY <1>2, <2>1, <2>2, HalfPoint
  <2>. QED BY <1>1, <1>2, <2>1, <2>2, <2>3 DEF RenewDue
<1>5. CASE RenewMissed
  <2>1. CASE secs > 0 /\ BackOff
    <3>1. secs \in Nat \ {0}
      BY <1>2, <2>1
    <3>2. threshold' \in Nat /\ threshold' < secs
      BY <2>1, <3>1, BackOffPoint DEF BackOff
    <3>3. threshold' \in Seconds
      BY <1>1, <3>1, <3>2, SecondsClosed
    <3>. QED BY <1>1, <1>5, <2>1, <3>1, <3>2, <3>3 DEF RenewMissed, BackOff, RenewDue
  <2>2. CASE ~(secs > 0 /\ BackOff)
    BY <1>1, <1>5, <2>2 DEF RenewMissed, RenewDue
  <2>. QED BY <2>1, <2>2
<1>. QED BY <1>3, <1>4, <1>5 DEF EndRenew

LEMMA LeaseEndRenew ==
    ASSUME LeaseInv, EndRenew
    PROVE  LeaseInv'
<1>1. /\ pc = "renew" /\ pc' = "check" /\ escape' = FALSE /\ saved' = 0
      /\ UNCHANGED <<timeoutLoop, offerXid, offerIp, acked, nakReceived, nakCount, attempts,
                     maxed, renewalNak, net, binding, budget>>
  BY DEF EndRenew, offered, goVars
<1>2. 0 \in Seconds
  BY LeaseSeconds
<1>. QED BY <1>1, <1>2, EndRenewKeeps
         DEF LeaseInv, TypeOK, CountersOK, TrackingOK, KeepsTracking

LEMMA LeaseGo ==
    ASSUME LeaseInv, XidsLast, Go
    PROVE  LeaseInv'
<1>. USE DEF LeaseInv, TypeOK, CountersOK, TrackingOK, KeepsTracking
<1>0. MaxAttempts \in Nat \ {0} /\ MaxNaks \in Nat \ {0} /\ 0 \in Seconds
  BY DhcpAssumption, LeaseSeconds
<1>1. CASE StartGo
  <2>1. /\ pc' = "attempt" /\ dontRenew' = FALSE /\ acked' = FALSE /\ nakReceived' = FALSE
        /\ attempts' = 0 /\ nakCount' = 0 /\ timeoutLoop' = 1
        /\ UNCHANGED <<escape, offerXid, offerIp, leaseTime, saved, secs, expiry, threshold,
                       maxed, renewalNak, ourIp, net, binding, budget>>
    BY <1>1 DEF StartGo, offered
  <2>2. ourIp = 0 \/ secs = 0
    BY <1>1 DEF StartGo, DiscoverDue
  <2>3. 0 \in 0 .. MaxNaks /\ 0 \in 0 .. MaxAttempts + 1 /\ 0 <= MaxAttempts /\ 0 < MaxNaks
    BY <1>0
  <2>4. TypeOK'
    <3>. HIDE DEF CountersOK, TrackingOK, KeepsTracking
    <3>. QED BY <2>1, <2>3
  <2>5. (CountersOK /\ TrackingOK /\ KeepsTracking)'
    <3>. HIDE DEF TypeOK
    <3>. QED BY <2>1, <2>2, <2>3
  <2>. QED BY <2>4, <2>5
<1>2. CASE Attempt
  <2>1. /\ pc = "attempt" /\ attempts \in 0 .. MaxAttempts
        /\ UNCHANGED <<escape, offerXid, offerIp, leaseTime, saved, secs, expiry, threshold,
                       dontRenew, acked, nakReceived, nakCount, renewalNak, ourIp, binding,
                       budget>>
    BY <1>0, <1>2 DEF Attempt, offered, lease
  <2>2. Packet("discover", NewXid, 0, 0) \in Packets
    BY NewXidType, PacketType DEF Questions
  <2>3. Packet("discover", NewXid, 0, 0).type = "discover"
    BY DEF Packet
  <2>4. /\ pc' \in {"done", "offer"} /\ timeoutLoop' \in {-1, 0, 1} /\ maxed' \in BOOLEAN
        /\ net' \subseteq net \cup {Packet("discover", NewXid, 0, 0)}
    BY <1>2 DEF Attempt
  <2>5. /\ attempts' \in 0 .. MaxAttempts + 1
        /\ pc' # "done" => attempts' <= MaxAttempts
    BY <1>0, <1>2, <2>1 DEF Attempt
  <2>. QED BY <2>1, <2>2, <2>3, <2>4, <2>5 DEF Waits
<1>3. CASE EndOffer
  <2>1. /\ pc = "offer" /\ pc' \in {"attempt", "ack"} /\ escape' = FALSE
        /\ UNCHANGED <<timeoutLoop, offerXid, offerIp, leaseTime, saved, secs, expiry,
                       threshold, dontRenew, acked, nakReceived, nakCount, attempts, maxed,
                       renewalNak, ourIp, binding, budget>>
    BY <1>3 DEF EndOffer, offered, lease, goVars
  <2>2. Packet("request", offerXid, offerIp, 0) \in Packets
    BY PacketType DEF Questions
  <2>3. Packet("request", offerXid, offerIp, 0).type = "request"
    BY DEF Packet
  <2>4. net' \subseteq net \cup {Packet("request", offerXid, offerIp, 0)}
    BY <1>3 DEF EndOffer
  <2>. QED BY <2>1, <2>2, <2>3, <2>4 DEF Waits
<1>4. CASE EndAck
  <2>1. /\ pc = "ack" /\ escape' = FALSE /\ nakCount \in 0 .. MaxNaks - 1
        /\ UNCHANGED <<timeoutLoop, offerXid, offerIp, leaseTime, saved, secs, expiry,
                       threshold, dontRenew, acked, attempts, renewalNak, ourIp, net,
                       binding, budget>>
    BY <1>0, <1>4 DEF EndAck, offered, lease
  <2>2. /\ pc' \in {"attempt", "done"} /\ maxed' \in BOOLEAN /\ nakReceived' \in BOOLEAN
        /\ nakCount' \in 0 .. MaxNaks /\ (pc' # "done" => nakCount' < MaxNaks)
    <3>1. CASE timeoutLoop > 0 /\ nakReceived
      <4>1. /\ nakReceived' = FALSE /\ nakCount' = nakCount + 1
            /\ maxed' = (maxed \/ nakCount' >= MaxNaks)
            /\ pc' = IF nakCount' >= MaxNaks THEN "done" ELSE "attempt"
        BY <1>4, <3>1, Zenon DEF EndAck
      <4>2. nakCount' \in 0 .. MaxNaks /\ (~(nakCount' >= MaxNaks) => nakCount' < MaxNaks)
        BY <1>0, <2>1, <4>1
      <4>3. maxed' \in BOOLEAN /\ nakReceived' \in BOOLEAN
        BY <4>1
      <4>. QED BY <4>1, <4>2, <4>3
    <3>2. CASE ~(timeoutLoop > 0 /\ nakReceived)
      <4>1. pc' = "attempt" /\ UNCHANGED <<nakReceived, nakCount, maxed>>
        BY <1>4, <3>2, Zenon DEF EndAck
      <4>. QED BY <1>0, <2>1, <4>1
    <3>. QED BY <3>1, <3>2
  <2>. QED BY <1>0, <2>1, <2>2
<1>5. CASE EndGo
  <2>1. /\ pc = "done" /\ pc' = "main" /\ attempts' = 0 /\ timeoutLoop' = 0 /\ maxed' = FALSE
        /\ nakCount' = 0
        /\ UNCHANGED <<escape, offerXid, offerIp, saved, dontRenew, acked, nakReceived,
                       renewalNak, net, binding, budget>>
    BY <1>5 DEF EndGo, offered
  <2>0. /\ attempts' \in 0 .. MaxAttempts + 1 /\ nakCount' \in 0 .. MaxNaks
        /\ attempts' <= MaxAttempts /\ nakCount' < MaxNaks
    BY <1>0, <2>1
  <2>2. CASE maxed
    <3>1. ourIp' = 0 /\ secs' = 0 /\ expiry' = 0 /\ UNCHANGED <<leaseTime, threshold>>
      BY <1>5, <2>2 DEF EndGo
    <3>. QED BY <1>0, <2>0, <2>1, <3>1
  <2>3. CASE ~maxed
    <3>1. /\ ourIp' = offerIp /\ secs' = leaseTime /\ expiry' = leaseTime
          /\ threshold' = leaseTime \div 2 /\ leaseTime' = leaseTime
      BY <1>5, <2>3 DEF EndGo, StartLease
    <3>2. leaseTime \in Nat
      BY LeaseSeconds
    <3>3. leaseTime \div 2 \in Seconds
      BY <3>2, HalfPoint, SecondsClosed
    <3>4. TypeOK'
      <4>. HIDE DEF CountersOK, TrackingOK, KeepsTracking
      <4>. QED BY <1>0, <2>0, <2>1, <3>1, <3>3
    <3>5. (CountersOK /\ TrackingOK /\ KeepsTracking)'
      <4>. HIDE DEF TypeOK
      <4>. QED BY <2>0, <2>1, <3>1, <3>2
    <3>. QED BY <3>4, <3>5
  <2>. QED BY <2>2, <2>3
<1>. QED BY <1>1, <1>2, <1>3, <1>4, <1>5 DEF Go

LEMMA LeaseStep ==
    ASSUME LeaseInv, XidsLast, [Next]_vars
    PROVE  LeaseInv'
<1>1. CASE SkipRenew \/ Settle
  BY <1>1 DEF SkipRenew, Settle, offered, lease, goVars, LeaseInv, TypeOK, CountersOK,
              TrackingOK, KeepsTracking
<1>2. CASE UNCHANGED vars
  BY <1>2 DEF vars, offered, lease, goVars, LeaseInv, TypeOK, CountersOK, TrackingOK,
              KeepsTracking
<1>. QED BY <1>1, <1>2, LeaseReceive, LeaseServe, LeaseLoop, LeaseStartRenew, LeaseEndRenew,
            LeaseGo DEF Next, Poll

LEMMA LeaseInit == Init => LeaseInv
<1>1. 0 \in Seconds /\ MaxAttempts \in Nat \ {0} /\ MaxNaks \in Nat \ {0}
  BY LeaseSeconds, DhcpAssumption
<1>2. /\ 0 \in 0 .. MaxNaks /\ 0 \in 0 .. MaxAttempts + 1 /\ 0 <= MaxAttempts /\ 0 < MaxNaks
      /\ [e \in Events |-> 0] \in [Events -> Nat]
  BY <1>1
<1>3. Init => TypeOK
  BY <1>1, <1>2 DEF Init, TypeOK
<1>4. Init => CountersOK /\ TrackingOK /\ KeepsTracking
  BY <1>2 DEF Init, CountersOK, TrackingOK, KeepsTracking
<1>. QED BY <1>3, <1>4 DEF LeaseInv

\* No counter leaves its range, no lease time wraps, and no running lease is
\* forgotten (dhcp_poll, dhcp_go and dhcp_renew), for any lease times and
\* limits, as long as the model has a number for the next transaction.
THEOREM LeaseKept == Spec /\ []XidsLast => []LeaseInv
BY LeaseInit, LeaseStep, PTL DEF Spec

\* When dhcp_poll has dealt with the end of a renewal, another one is not due
\* at once: the retry point BackOff computes lies before now, whatever Floor
\* is, and a granted or refused lease is not due either.
THEOREM RenewalsPaced == Spec /\ []XidsLast => RenewPaced
<1>1. LeaseInv /\ [Next]_vars => [pc = "renew" /\ pc' = "check" => ~RenewDue']_vars
  <2>. SUFFICES ASSUME LeaseInv, Next, pc = "renew", pc' = "check"
                PROVE  ~RenewDue'
    OBVIOUS
  <2>1. EndRenew
    <3>1. CASE Receive \/ Timeout \/ LinkBack \/ Reenter \/ DhcpTick \/ RunProgram
      BY <3>1 DEF Receive, Timeout, LinkBack, Reenter, DhcpTick, RunProgram
    <3>2. CASE Poll
      BY <3>2 DEF Poll, StartRenew, SkipRenew, Settle
    <3>3. CASE Go
      BY <3>3 DEF Go, StartGo, Attempt, EndOffer, EndAck, EndGo
    <3>4. CASE Serve \/ Lose
      BY <3>4 DEF Serve, Lose
    <3>. QED BY <3>1, <3>2, <3>3, <3>4 DEF Next
  <2>. QED BY <2>1, EndRenewKeeps
<1>. QED BY <1>1, LeaseKept, PTL DEF Spec, RenewPaced

\* Only finitely many packets are ever under way.
LEMMA NetFinite ==
    ASSUME IsFiniteSet(net), [Next]_vars
    PROVE  IsFiniteSet(net')
<1>1. \E x : net' \subseteq net \cup {x}
  <2>1. CASE Receive
    BY <2>1 DEF Receive
  <2>2. CASE Timeout \/ LinkBack \/ Reenter \/ DhcpTick \/ RunProgram
    BY <2>2 DEF Timeout, LinkBack, Reenter, DhcpTick, RunProgram
  <2>3. CASE Poll
    BY <2>3 DEF Poll, StartRenew, EndRenew, SkipRenew, Settle
  <2>4. CASE Go
    <3>1. CASE StartGo \/ EndAck \/ EndGo
      BY <3>1 DEF StartGo, EndAck, EndGo
    <3>2. CASE Attempt
      BY <3>2 DEF Attempt
    <3>3. CASE EndOffer
      BY <3>3 DEF EndOffer
    <3>. QED BY <2>4, <3>1, <3>2, <3>3 DEF Go
  <2>5. CASE Serve
    <3>1. PICK q \in net : Serve!(q)
      BY <2>5 DEF Serve
    <3>2. net' = net \ {q} \/ \E p : Reply(q, p)
      BY <3>1
    <3>. QED BY <3>2 DEF Reply
  <2>6. CASE Lose
    BY <2>6 DEF Lose
  <2>7. CASE UNCHANGED vars
    BY <2>7 DEF vars
  <2>. QED BY <2>1, <2>2, <2>3, <2>4, <2>5, <2>6, <2>7 DEF Next
<1>. QED BY <1>1, FS_AddElement, FS_Subset

LEMMA FiniteLeavesUnused ==
    ASSUME ~IsFiniteSet(Xids), IsFiniteSet(net)
    PROVE  XidsLast
<1>. DEFINE used == {p.xid : p \in net}
<1>1. IsFiniteSet(used)
  <2>1. [p \in net |-> p.xid] \in Surjection(net, used)
    BY DEF Surjection
  <2>. QED BY <2>1, FS_Surjection
<1>2. IsFiniteSet(used \cup {offerXid})
  BY <1>1, FS_AddElement
<1>3. ~(Xids \subseteq used \cup {offerXid})
  BY <1>2, FS_Subset
<1>. QED BY <1>3 DEF XidsLast, Unused

\* What the two theorems assume of the transaction numbers (get_ticks at the
\* send) costs nothing but numbers: an endless supply of them never runs out.
THEOREM XidsSuffice == ~IsFiniteSet(Xids) => (Spec => []XidsLast)
<1>. SUFFICES ASSUME ~IsFiniteSet(Xids) PROVE Spec => []XidsLast
  OBVIOUS
<1>1. Init => IsFiniteSet(net)
  BY FS_EmptySet DEF Init
<1>2. IsFiniteSet(net) /\ [Next]_vars => IsFiniteSet(net)'
  BY NetFinite
<1>3. IsFiniteSet(net) => XidsLast
  BY FiniteLeavesUnused
<1>. QED BY <1>1, <1>2, <1>3, PTL DEF Spec
=============================================================================
