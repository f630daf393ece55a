----------------------------- MODULE SessionProofs -----------------------------
(***************************************************************************)
(* Proofs about Session, for any number of invocations, attempts, losses,  *)
(* late answers, interruptions and system calls, on the assumption that no *)
(* program ends while its EXECUTE is still being repeated (~Short): that   *)
(* programs start and loaders are replaced only whole and that a tool      *)
(* serves what it started (SessionsKept), and that an invocation nothing   *)
(* disturbs does not fail (UndisturbedKept).  The second needs a tool that *)
(* waits for an updated console longer than answers can be late (Patient). *)
(***************************************************************************)
EXTENDS Session, SequenceTheorems, TLAPS

-----------------------------------------------------------------------------
(* The shapes of the state.                                                *)

Commands == {"VERS", "CAPS", "SBIN", "LBIN", "DBIN", "EXEC", "RETV", "REBT"}
Replies == {"VERS", "CAPS", "SBIN", "LBIN", "DBIN", "EXEC", "CALL", "EXIT"}
Ports == {"v2", "legacy"}
Phases == {"off", "done", "settle", "updated", "console"} \cup Legs

Hosts == [at : Phases, n : Nat, job : AllJobs, sock : Nat, port : Ports,
          ver : AllLoaders \cup {"file", "none"}, caps : BOOLEAN, img : Images,
          tries : 0 .. MaxTries, left : 0 .. MaxReopens, again : BOOLEAN, updated : BOOLEAN,
          link : BOOLEAN, told : {"none", "ok", "failed", "killed"}]
Memories == [n : Nat, img : Images, whole : BOOLEAN, used : BOOLEAN]
Consoles == [at : {"idle", "running", "waiting", "booting", "dead"},
             loader : AllLoaders \cup {"file"}, dhcp : BOOLEAN, disc : AllLoaders \X BOOLEAN,
             here : BOOLEAN, mem : Memories, good : BOOLEAN, run : Nat, tool : Nat,
             port : Ports, v : Nat, calls : Nat]
Datagrams == [id : Commands, sock : Nat, port : Ports, n : Nat, img : Images, v : Nat]
Answers == [id : Replies, to : Nat, from : Ports, n : Nat, img : Images,
            ver : AllLoaders \cup {"file"}, dhcp : BOOLEAN]
Counts == [runs : Nat, socks : Nat, loss : Nat, late : Nat, kills : Nat]

Shapes == /\ host \in Hosts /\ con \in Consoles /\ spent \in Counts
          /\ toCon \in Seq(Datagrams) /\ toHost \in Seq(Answers)

-----------------------------------------------------------------------------
(* The inductive invariant.                                                *)

\* The order in which the commands of a session are sent.
Rank(id) == CASE id = "VERS" -> 1 [] id = "CAPS" -> 2 [] id = "SBIN" -> 3
              [] id = "LBIN" -> 4 [] id = "DBIN" -> 5 [] id = "EXEC" -> 6
              [] id = "RETV" -> 7 [] id = "REBT" -> 8
              [] OTHER -> 6     \* CALL and EXIT
Level(at) == CASE at = "FIND" -> 1 [] at = "console" -> 7 [] OTHER -> Rank(at)

Beyond(m, s, r) == s < m.sock \/ (m.sock = s /\ r <= Rank(m.id))
Way == {toCon[i] : i \in 1 .. Len(toCon)}
Coming == {toHost[i] : i \in 1 .. Len(toHost)}
Past(s, r) == \A m \in Way : Beyond(m, s, r)
Sorted(q) == \A i, j \in 1 .. Len(q) : i < j => Beyond(q[j], q[i].sock, Rank(q[i].id))

PortOf(job) == IF job = "run_legacy" THEN "legacy" ELSE "v2"

\* The tool: it has a link while it waits for an answer or serves.
HostOK ==
    /\ host.sock = spent.socks /\ host.n = spent.runs
    /\ host.link <=> host.at \in Legs \cup {"console"}
    /\ host.link => host.port = PortOf(host.job) /\ host.sock > 0
    /\ host.at # "off" => host.n > 0
    /\ host.at \in {"FIND", "VERS", "settle"} => host.ver = "none"
    /\ host.at = "settle" => host.left > 0
    /\ host.at \in {"EXEC", "console"} => host.img = "prog"

\* A program of invocation n may have been started.
Launched(n) == n < host.n \/ (n = host.n /\ host.at \in {"off", "EXEC", "console", "done"})

\* What is on its way to the console: sessions one after the other, each with its
\* commands in order and one image.
Current(m) ==
    /\ m.n = host.n /\ Rank(m.id) <= Level(host.at)
    /\ host.at # "FIND" => m.port = host.port /\ m.v = Version(host)
    /\ Rank(m.id) >= 4 => m.img = host.img
Mates(m, k) ==
    m.sock = k.sock /\ Rank(m.id) >= 4 /\ Rank(k.id) >= 4 => m.n = k.n /\ m.img = k.img
WayOK ==
    /\ Sorted(toCon)
    /\ \A m \in Way : /\ m.sock <= host.sock
                      /\ m.sock = host.sock /\ host.link => Current(m)
                      /\ m.id = "EXEC" /\ m.img = "prog" => Launched(m.n)
    /\ \A m, k \in Way : Mates(m, k)

\* What the console has in memory for the commands that still come, and for the
\* program it runs.
Holding(m) == con.mem.n = m.n /\ con.mem.img = m.img
MemOK ==
    \A m \in Way : /\ m.id = "DBIN" => Holding(m) /\ Past(m.sock, 4)
                   /\ m.id = "EXEC" => Holding(m) /\ con.mem.whole /\ Past(m.sock, 5)
Owner == con.mem.n = con.run /\ con.mem.used /\ Past(con.tool, 6)
Left == con.tool < host.sock /\ \A m \in Way : con.tool < m.sock
RunOK ==
    /\ RunsWhole
    /\ con.at = "booting" => toCon = << >>
    /\ con.mem.used => con.mem.n = con.run
    /\ Launched(con.run)
    /\ con.at = "idle" /\ con.mem.used => host.at # "EXEC" /\ \A m \in Way : m.id # "EXEC"
    /\ con.at = "running" => Owner
    /\ con.at = "waiting" => Owner \/ Left
    /\ con.tool <= host.sock
    /\ con.tool = host.sock /\ host.link => host.at \in {"EXEC", "console"} /\ con.run = host.n

\* What the console has done for the session of the tool, by the commands it has
\* answered.
Greeted == /\ con.port = host.port /\ con.v = Version(host) /\ con.at # "booting"
           /\ Past(host.sock, 1)
Taken == con.mem.n = host.n /\ con.mem.img = host.img /\ Past(host.sock, 4)
Whole == con.mem.whole /\ Past(host.sock, 5)
Started == con.run = host.n /\ con.tool = host.sock /\ Past(host.sock, 6)
Standing(r) == /\ r >= 1 => Greeted
               /\ r >= 4 => Taken
               /\ r >= 5 => Whole
               /\ r >= 6 => Started
AnswersOK ==
    /\ \A a \in Coming : a.to <= host.sock
    /\ host.link /\ host.at # "FIND" =>
         /\ Standing(Level(host.at) - 1)
         /\ \A a \in Coming : a.to = host.sock => Rank(a.id) <= Level(host.at) /\ Standing(Rank(a.id))

InTouch == Shapes /\ HostOK /\ WayOK /\ MemOK /\ RunOK /\ AnswersOK


-----------------------------------------------------------------------------
(* Ranks and sequences.                                                    *)

LEMMA Ranks ==
    /\ \A id : Rank(id) \in 1 .. 8
    /\ Rank("VERS") = 1 /\ Rank("CAPS") = 2 /\ Rank("SBIN") = 3 /\ Rank("LBIN") = 4
    /\ Rank("DBIN") = 5 /\ Rank("EXEC") = 6 /\ Rank("RETV") = 7 /\ Rank("REBT") = 8
    /\ Rank("CALL") = 6 /\ Rank("EXIT") = 6
BY DEF Rank

LEMMA Levels ==
    /\ \A at : Level(at) \in 1 .. 8
    /\ Level("FIND") = 1 /\ Level("VERS") = 1 /\ Level("CAPS") = 2 /\ Level("SBIN") = 3
    /\ Level("LBIN") = 4 /\ Level("DBIN") = 5 /\ Level("EXEC") = 6 /\ Level("console") = 7
    /\ \A at \in Legs \cup {"console"} : Level(at) <= 7 /\ (Level(at) >= 6 <=> at \in {"EXEC", "console"})
BY Ranks DEF Level, Rank, Legs

LEMMA Consts ==
    /\ MaxTries \in Nat \ {0} /\ MaxReopens \in Nat \ {0}
    /\ Jobs \subseteq AllJobs /\ Loaders \subseteq AllLoaders
BY SessionAssumption

\* What a datagram is, and what of it is compared.
LEMMA WayTypes ==
    ASSUME Shapes
    PROVE  /\ Len(toCon) \in Nat /\ Len(toHost) \in Nat
           /\ \A m \in Way : m \in Datagrams /\ m.sock \in Nat /\ m.n \in Nat /\ m.v \in Nat
           /\ \A a \in Coming : a \in Answers /\ a.to \in Nat
           /\ host.sock \in Nat /\ host.n \in Nat /\ con.tool \in Nat /\ con.run \in Nat
           /\ con.mem.n \in Nat
<1>1. toCon \in Seq(Datagrams) /\ toHost \in Seq(Answers) /\ host \in Hosts /\ con \in Consoles
  BY DEF Shapes
<1>2. \A m \in Way : m \in Datagrams
  BY <1>1 DEF Way
<1>3. \A a \in Coming : a \in Answers
  BY <1>1 DEF Coming
<1>4. con.mem \in Memories
  BY <1>1 DEF Consoles
<1>5. \A m \in Datagrams : m.sock \in Nat /\ m.n \in Nat /\ m.v \in Nat
  BY DEF Datagrams
<1>6. \A a \in Answers : a.to \in Nat
  BY DEF Answers
<1>7. host.sock \in Nat /\ host.n \in Nat
  BY <1>1 DEF Hosts
<1>8. con.tool \in Nat /\ con.run \in Nat
  BY <1>1 DEF Consoles
<1>9. con.mem.n \in Nat
  BY <1>4 DEF Memories
<1>. QED BY <1>1, <1>2, <1>3, <1>5, <1>6, <1>7, <1>8, <1>9

\* A session begins at its least command.
LEMMA Transitive ==
    ASSUME NEW m \in Datagrams, NEW k \in Datagrams, NEW s \in Nat, NEW r \in Nat,
           Beyond(m, k.sock, Rank(k.id)), Beyond(k, s, r)
    PROVE  Beyond(m, s, r)
<1>1. m.sock \in Nat /\ k.sock \in Nat
  BY DEF Datagrams
<1>2. Rank(m.id) \in Nat /\ Rank(k.id) \in Nat
  BY Ranks
<1>. QED BY <1>1, <1>2 DEF Beyond

\* Datagrams that are sent follow what is on its way.
LEMMA SendsAfter ==
    ASSUME NEW q \in Seq(Datagrams), NEW ms \in Seq(Datagrams), NEW s \in Nat, NEW r \in Nat,
           Sorted(q),
           \A j \in 1 .. Len(ms) : ms[j].sock = s /\ Rank(ms[j].id) = r,
           \A i \in 1 .. Len(q) : q[i].sock < s \/ (q[i].sock = s /\ Rank(q[i].id) <= r)
    PROVE  /\ Sorted(q \o ms) /\ q \o ms \in Seq(Datagrams)
           /\ {(q \o ms)[i] : i \in 1 .. Len(q \o ms)}
                = {q[i] : i \in 1 .. Len(q)} \cup {ms[i] : i \in 1 .. Len(ms)}
<1>. DEFINE both == q \o ms
<1>1. /\ both \in Seq(Datagrams) /\ Len(both) = Len(q) + Len(ms)
      /\ \A j \in 1 .. Len(both) : both[j] = IF j <= Len(q) THEN q[j] ELSE ms[j - Len(q)]
  BY ConcatProperties
<1>2. Len(q) \in Nat /\ Len(ms) \in Nat
  OBVIOUS
<1>. HIDE DEF both
<1>3. ASSUME NEW j \in 1 .. Len(both)
      PROVE  \/ j \in 1 .. Len(q) /\ both[j] = q[j]
             \/ j - Len(q) \in 1 .. Len(ms) /\ both[j] = ms[j - Len(q)] /\ j > Len(q)
  BY <1>1, <1>2
<1>4. ASSUME NEW i \in 1 .. Len(both), NEW j \in 1 .. Len(both), i < j
      PROVE  Beyond(both[j], both[i].sock, Rank(both[i].id))
  <2>1. CASE j \in 1 .. Len(q) /\ both[j] = q[j]
    <3>1. i \in 1 .. Len(q) /\ both[i] = q[i]
      BY <1>2, <1>3, <1>4, <2>1
    <3>. QED BY <1>4, <2>1, <3>1 DEF Sorted
  <2>2. CASE j - Len(q) \in 1 .. Len(ms) /\ both[j] = ms[j - Len(q)]
    <3>1. both[j].sock = s /\ Rank(both[j].id) = r
      BY <2>2
    <3>2. CASE i \in 1 .. Len(q) /\ both[i] = q[i]
      BY <3>1, <3>2 DEF Beyond
    <3>3. CASE i - Len(q) \in 1 .. Len(ms) /\ both[i] = ms[i - Len(q)]
      BY <3>1, <3>3 DEF Beyond
    <3>. QED BY <1>3, <3>2, <3>3
  <2>. QED BY <1>3, <2>1, <2>2
<1>5. Sorted(both)
  BY <1>4 DEF Sorted
<1>6. ASSUME NEW i \in 1 .. Len(q) PROVE i \in 1 .. Len(both) /\ both[i] = q[i]
  BY <1>1, <1>2
<1>7. ASSUME NEW i \in 1 .. Len(ms)
      PROVE  i + Len(q) \in 1 .. Len(both) /\ both[i + Len(q)] = ms[i]
  <2>1. i + Len(q) \in 1 .. Len(both) /\ ~(i + Len(q) <= Len(q)) /\ i + Len(q) - Len(q) = i
    BY <1>1, <1>2
  <2>. QED BY <1>1, <2>1
<1>8. {both[i] : i \in 1 .. Len(both)} = {q[i] : i \in 1 .. Len(q)} \cup {ms[i] : i \in 1 .. Len(ms)}
  <2>1. ASSUME NEW x, \E i \in 1 .. Len(both) : x = both[i]
        PROVE  (\E i \in 1 .. Len(q) : x = q[i]) \/ (\E i \in 1 .. Len(ms) : x = ms[i])
    BY <1>3, <2>1
  <2>2. \A x : (\E i \in 1 .. Len(q) : x = q[i]) => \E i \in 1 .. Len(both) : x = both[i]
    BY <1>6
  <2>3. \A x : (\E i \in 1 .. Len(ms) : x = ms[i]) => \E i \in 1 .. Len(both) : x = both[i]
    BY <1>7
  <2>. QED BY <2>1, <2>2, <2>3
<1>. QED BY <1>1, <1>5, <1>8 DEF both

\* What is left after the first datagrams follows them.
LEMMA Drops ==
    ASSUME NEW q \in Seq(Datagrams), Sorted(q), NEW n \in 0 .. Len(q)
    PROVE  LET rest == SubSeq(q, n + 1, Len(q))
           IN  /\ rest \in Seq(Datagrams) /\ Sorted(rest)
               /\ {rest[i] : i \in 1 .. Len(rest)} = {q[i] : i \in n + 1 .. Len(q)}
<1>. DEFINE rest == SubSeq(q, n + 1, Len(q))
<1>1. Len(q) \in Nat /\ n \in Nat /\ n + 1 \in Int /\ \A j \in n + 1 .. Len(q) : q[j] \in Datagrams
  OBVIOUS
<1>2. /\ rest \in Seq(Datagrams)
      /\ Len(rest) = IF n + 1 <= Len(q) THEN Len(q) - (n + 1) + 1 ELSE 0
      /\ \A j \in 1 .. Len(q) - (n + 1) + 1 : rest[j] = q[n + 1 + j - 1]
  BY <1>1, SubSeqProperties
<1>. HIDE DEF rest
<1>3. Len(rest) = Len(q) - n
  BY <1>1, <1>2
<1>4. ASSUME NEW j \in 1 .. Len(rest)
      PROVE  n + j \in n + 1 .. Len(q) /\ rest[j] = q[n + j] /\ n + j \in 1 .. Len(q)
  <2>1. j \in 1 .. Len(q) - (n + 1) + 1 /\ n + 1 + j - 1 = n + j /\ n + j \in n + 1 .. Len(q)
        /\ n + j \in 1 .. Len(q)
    BY <1>1, <1>3
  <2>. QED BY <1>2, <2>1
<1>5. ASSUME NEW i \in 1 .. Len(rest), NEW j \in 1 .. Len(rest), i < j
      PROVE  Beyond(rest[j], rest[i].sock, Rank(rest[i].id))
  <2>1. n + i < n + j
    BY <1>1, <1>3, <1>5
  <2>. QED BY <1>4, <2>1 DEF Sorted
<1>6. Sorted(rest)
  BY <1>5 DEF Sorted
<1>7. ASSUME NEW i \in n + 1 .. Len(q)
      PROVE  i - n \in 1 .. Len(rest) /\ rest[i - n] = q[i]
  <2>1. i - n \in 1 .. Len(rest) /\ n + (i - n) = i
    BY <1>1, <1>3
  <2>. QED BY <1>4, <2>1
<1>8. {rest[i] : i \in 1 .. Len(rest)} = {q[i] : i \in n + 1 .. Len(q)}
  <2>1. \A x : (\E i \in 1 .. Len(rest) : x = rest[i]) => \E i \in n + 1 .. Len(q) : x = q[i]
    BY <1>4
  <2>2. \A x : (\E i \in n + 1 .. Len(q) : x = q[i]) => \E i \in 1 .. Len(rest) : x = rest[i]
    BY <1>7
  <2>. QED BY <2>1, <2>2
<1>. QED BY <1>2, <1>6, <1>8 DEF rest

\* The console takes the oldest datagram.
LEMMA TakesFirst ==
    ASSUME Shapes, WayOK, toCon # << >>, toCon' = Tail(toCon)
    PROVE  LET m == Head(toCon)
           IN  /\ m \in Way /\ m \in Datagrams
               /\ toCon' \in Seq(Datagrams) /\ Sorted(toCon) /\ Sorted(toCon)'
               /\ Way = Way' \cup {m}
               /\ \A k \in Way' : Beyond(k, m.sock, Rank(m.id))
<1>. DEFINE m == Head(toCon)
            q == toCon
<1>1. q \in Seq(Datagrams) /\ Sorted(q) /\ Len(q) \in Nat
  BY DEF Shapes, WayOK
<1>2. q # << >>
  OBVIOUS
<1>3. Len(q) >= 1 /\ m = q[1] /\ 1 \in 1 .. Len(q)
  <2>1. Len(q) # 0
    BY <1>1, <1>2, EmptySeq
  <2>. QED BY <1>1, <2>1
<1>4. toCon' = SubSeq(q, 1 + 1, Len(q))
  BY <1>1 DEF q
<1>. HIDE DEF q
<1>5. 1 \in 0 .. Len(q)
  BY <1>1, <1>3
<1>. DEFINE rest == SubSeq(q, 1 + 1, Len(q))
<1>6. /\ toCon' \in Seq(Datagrams) /\ Sorted(toCon')
      /\ Way' = {q[i] : i \in 1 + 1 .. Len(q)}
  <2>1. /\ rest \in Seq(Datagrams) /\ Sorted(rest)
        /\ {rest[i] : i \in 1 .. Len(rest)} = {q[i] : i \in 1 + 1 .. Len(q)}
    BY <1>1, <1>5, Drops
  <2>2. Way' = {toCon'[i] : i \in 1 .. Len(toCon')}
    BY DEF Way
  <2>. QED BY <1>4, <2>1, <2>2
<1>7. Way = Way' \cup {m}
  <2>1. \A i \in 1 .. Len(q) : i = 1 \/ i \in 1 + 1 .. Len(q)
    BY <1>1
  <2>2. \A i \in 1 + 1 .. Len(q) : i \in 1 .. Len(q) /\ 1 < i
    BY <1>1
  <2>. QED BY <1>3, <1>6, <2>1, <2>2 DEF Way, q
<1>8. \A k \in Way' : Beyond(k, m.sock, Rank(m.id))
  <2>2. \A i \in 1 + 1 .. Len(q) : i \in 1 .. Len(q) /\ 1 < i
    BY <1>1
  <2>. QED BY <1>1, <1>3, <1>6, <2>2 DEF Sorted
<1>9. m \in Way /\ m \in Datagrams
  BY <1>1, <1>3, <1>7
<1>. QED BY <1>1, <1>6, <1>7, <1>8, <1>9 DEF m, q, Sorted

-----------------------------------------------------------------------------
(* Steps of the tool: it goes on in its session, ends it, or begins one.   *)

\* What a step of the tool leaves alone.
Steady ==
    /\ con' = con /\ spent' \in Counts
    /\ toHost' \in Seq(Answers) /\ Coming' \subseteq Coming

\* The datagrams S of session s are sent, commands of rank r.
Adds(S, s, r) ==
    /\ toCon' \in Seq(Datagrams) /\ Sorted(toCon)' /\ Way' = Way \cup S
    /\ \A d \in S : d \in Datagrams /\ d.sock = s /\ Rank(d.id) = r
    /\ S # {} => con.at # "booting"
    /\ S = {} => toCon' = toCon

LEMMA PastAdds ==
    ASSUME Shapes, NEW S, NEW s \in Nat, NEW r \in Nat, Adds(S, s, r),
           NEW t \in Nat, NEW l \in Nat, Past(t, l), t < s \/ (t = s /\ l <= r)
    PROVE  Past(t, l)'
BY DEF Past, Adds, Beyond

LEMMA Advances ==
    ASSUME InTouch, Steady, spent'.socks = spent.socks, spent'.runs = spent.runs,
           NEW h \in Hosts, host' = h, host.link, host.at = "FIND" <=> h.at = "FIND",
           h.sock = host.sock, h.n = host.n, h.job = host.job, h.port = host.port, h.link,
           h.at \in Legs \cup {"console"}, Level(host.at) <= Level(h.at),
           h.at \in {"FIND", "VERS"} => h.ver = "none",
           h.at \in {"EXEC", "console"} => h.img = "prog",
           h.img = host.img \/ (Level(host.at) < 4 /\ Level(h.at) <= 4),
           Level(h.at) > 1 => Greeted, Level(h.at) > 4 => Taken,
           Level(h.at) > 5 => Whole, Level(h.at) > 6 => Started,
           NEW S, Adds(S, h.sock, Level(h.at)),
           \A d \in S : /\ d.n = h.n /\ d.img = h.img
                        /\ h.at # "FIND" => d.port = h.port /\ d.v = Version(h)
    PROVE  InTouch'
<1>. DEFINE L == Level(host.at)
            K == Level(h.at)
<1>1. /\ L \in 1 .. 8 /\ K \in 1 .. 8 /\ L <= K /\ K <= 7 /\ L <= 7
      /\ host.at \in Legs \cup {"console"}
      /\ (K >= 6 <=> h.at \in {"EXEC", "console"}) /\ (L >= 6 <=> host.at \in {"EXEC", "console"})
  BY Levels DEF InTouch, HostOK
<1>2. /\ Shapes /\ HostOK /\ WayOK /\ MemOK /\ RunOK /\ AnswersOK
      /\ host.sock \in Nat /\ host.n \in Nat /\ con.tool \in Nat /\ con.run \in Nat
      /\ con.mem.n \in Nat /\ con' = con /\ Version(h) = Version(host)
      /\ \A m \in Way : m.sock \in Nat /\ m.n \in Nat /\ Rank(m.id) \in 1 .. 8
  BY WayTypes, Ranks DEF InTouch, Steady, Version
<1>3. /\ Way' = Way \cup S
      /\ \A d \in S : d \in Datagrams /\ d.sock = h.sock /\ Rank(d.id) = K
  BY DEF Adds
<1>4. ASSUME NEW t \in Nat, NEW l \in Nat, Past(t, l), t < host.sock \/ (t = host.sock /\ l <= K)
      PROVE  Past(t, l)'
  BY <1>1, <1>2, <1>4, PastAdds
<1>5. Shapes'
  BY <1>2 DEF Shapes, Steady, Adds
<1>6. HostOK'
  BY <1>1, <1>2 DEF HostOK, Legs
<1>7. \A n : Launched(n) => Launched(n)'
  BY <1>1, Levels DEF Launched, Legs
<1>8. WayOK'
  <2>1. ASSUME NEW m \in Way' PROVE m.sock <= host'.sock /\ (m.sock = host'.sock => Current(m)')
    <3>1. CASE m \in Way
      <4>1. m.sock = host.sock => Current(m)
        BY <1>2, <3>1 DEF WayOK
      <4>2. m.sock = host.sock /\ L < 4 => Rank(m.id) < 4
        BY <1>1, <1>2, <3>1, <4>1 DEF Current
      <4>. QED BY <1>1, <1>2, <3>1, <4>1, <4>2 DEF WayOK, Current
    <3>2. CASE m \in S
      BY <1>1, <1>2, <1>3, <3>2 DEF Current
    <3>. QED BY <1>3, <3>1, <3>2
  <2>2. ASSUME NEW m \in Way', m.id = "EXEC", m.img = "prog" PROVE Launched(m.n)'
    <3>1. CASE m \in Way
      BY <1>2, <1>7, <2>2, <3>1 DEF WayOK
    <3>2. CASE m \in S
      <4>1. K = 6
        BY <1>3, <2>2, <3>2, Ranks
      <4>. QED BY <1>1, <3>2, <4>1 DEF Launched
    <3>. QED BY <1>3, <3>1, <3>2
  <2>3. ASSUME NEW m \in Way', NEW k \in Way' PROVE Mates(m, k)
    <3>1. ASSUME NEW j \in Way', j.sock = host.sock, Rank(j.id) >= 4
          PROVE  j.n = host.n /\ j.img = h.img
      BY <2>1, <3>1 DEF Current
    <3>2. CASE m \in Way /\ k \in Way
      BY <1>2, <3>2 DEF WayOK
    <3>3. CASE m \in S \/ k \in S
      BY <1>3, <3>1, <3>3 DEF Mates
    <3>. QED BY <1>3, <3>2, <3>3
  <2>4. Sorted(toCon)'
    BY DEF Adds
  <2>. QED BY <2>1, <2>2, <2>3, <2>4 DEF WayOK
<1>9. MemOK'
  <2>1. ASSUME NEW m \in Way, m.id \in {"DBIN", "EXEC"}
        PROVE  Past(m.sock, 4) => Past(m.sock, 4)'
    <3>1. m.sock <= host.sock /\ (m.sock = host.sock => 4 <= K)
      BY <1>1, <1>2, <2>1, Ranks DEF WayOK, Current
    <3>. QED BY <1>2, <1>4, <3>1
  <2>2. ASSUME NEW m \in Way, m.id = "EXEC"
        PROVE  Past(m.sock, 5) => Past(m.sock, 5)'
    <3>1. m.sock <= host.sock /\ (m.sock = host.sock => 5 <= K)
      BY <1>1, <1>2, <2>2, Ranks DEF WayOK, Current
    <3>. QED BY <1>2, <1>4, <3>1
  <2>3. ASSUME NEW m \in S, m.id \in {"DBIN", "EXEC"}
        PROVE  /\ Holding(m) /\ Past(m.sock, 4)'
               /\ m.id = "EXEC" => con.mem.whole /\ Past(m.sock, 5)'
    <3>1. K = Rank(m.id) /\ m.sock = host.sock /\ m.n = host.n /\ m.img = h.img
      BY <1>3, <2>3
    <3>2. K >= 5 /\ (m.id = "EXEC" => K = 6)
      BY <2>3, <3>1, Ranks
    <3>3. Taken /\ h.img = host.img /\ (m.id = "EXEC" => Whole)
      BY <1>1, <3>2
    <3>. QED BY <1>1, <1>2, <1>4, <3>1, <3>2, <3>3 DEF Taken, Whole, Holding
  <2>. QED BY <1>2, <1>3, <2>1, <2>2, <2>3 DEF MemOK, Holding
<1>10. RunOK'
  <2>1. con.tool = host.sock => 6 <= K
    BY <1>1, <1>2 DEF RunOK
  <2>2. Past(con.tool, 6) => Past(con.tool, 6)'
    BY <1>2, <1>4, <2>1 DEF RunOK
  <2>3. Left => Left'
    BY <1>2, <1>3 DEF Left
  <2>4. ASSUME con.at = "idle", con.mem.used
        PROVE  h.at # "EXEC" /\ \A m \in Way' : m.id # "EXEC"
    <3>1. host.at # "EXEC" /\ \A m \in Way : m.id # "EXEC"
      BY <1>2, <2>4 DEF RunOK
    <3>2. h.at # "EXEC"
      <4>. SUFFICES ASSUME h.at = "EXEC" PROVE FALSE
        OBVIOUS
      <4>1. con.mem.n = host.n
        BY <1>1, Levels DEF Taken
      <4>2. Launched(host.n)
        BY <1>2, <2>4, <4>1 DEF RunOK
      <4>3. L = 6 \/ host.at \notin {"EXEC", "console"}
        BY <1>1, Levels
      <4>. QED BY <1>1, <1>2, <3>1, <4>2, <4>3, Levels DEF Launched, Legs
    <3>3. \A m \in S : m.id # "EXEC"
      <4>. SUFFICES ASSUME NEW m \in S, m.id = "EXEC" PROVE FALSE
        OBVIOUS
      <4>1. K = 6
        BY <1>3, Ranks
      <4>. QED BY <1>1, <3>2, <4>1, Levels
    <3>. QED BY <1>3, <3>1, <3>2, <3>3
  <2>5. con.at = "booting" => toCon' = << >>
    BY <1>2 DEF RunOK, Adds
  <2>. QED BY <1>1, <1>2, <1>7, <2>2, <2>3, <2>4, <2>5 DEF RunOK, Owner, RunsWhole
<1>11. ASSUME NEW r \in 0 .. 8, Standing(r), r <= K, r >= 4 => h.img = host.img
       PROVE  Standing(r)'
  <2>1. \A l \in {1, 4, 5, 6} : r >= l /\ Past(host.sock, l) => Past(host.sock, l)'
    BY <1>1, <1>2, <1>4, <1>11
  <2>. QED BY <1>2, <1>11, <2>1 DEF Standing, Greeted, Taken, Whole, Started
<1>12. AnswersOK'
  <2>1. Standing(K - 1)'
    <3>1. Standing(K - 1)
      BY <1>1 DEF Standing
    <3>2. K - 1 >= 4 => h.img = host.img
      BY <1>1
    <3>. QED BY <1>1, <1>11, <3>1, <3>2
  <2>2. ASSUME NEW a \in Coming', a.to = host.sock, h.at # "FIND"
        PROVE  Rank(a.id) <= K /\ Standing(Rank(a.id))'
    <3>1. a \in Coming /\ Rank(a.id) \in 1 .. 8
      BY Ranks DEF Steady
    <3>2. Rank(a.id) <= L /\ Standing(Rank(a.id))
      BY <1>2, <2>2, <3>1 DEF AnswersOK
    <3>. QED BY <1>1, <1>11, <3>1, <3>2
  <2>3. \A a \in Coming' : a.to <= host'.sock
    BY <1>2 DEF AnswersOK, Steady
  <2>. QED BY <2>1, <2>2, <2>3 DEF AnswersOK
<1>. QED BY <1>5, <1>6, <1>8, <1>9, <1>10, <1>12 DEF InTouch

\* The end of a session; the last command may be EXECUTE of a new loader, or a
\* reset.
LEMMA Closes ==
    ASSUME InTouch, Steady, spent'.socks = spent.socks, spent'.runs = spent.runs,
           NEW h \in Hosts, host' = h, h.sock = host.sock, h.n = host.n, ~h.link,
           host.at # "off", h.at \in {"done", "settle", "updated"},
           h.at = "settle" => h.ver = "none" /\ h.left > 0,
           h.at # "done" => host.at \notin {"EXEC", "console", "done"},
           NEW r \in {6, 8}, NEW e, NEW S \in SUBSET {e}, Adds(S, host.sock, r),
           S # {} => host.link /\ host.at # "FIND" /\ Level(host.at) <= 5,
           \A d \in S : /\ d.n = host.n
                        /\ d.img = host.img \/ Level(host.at) < 4
                        /\ d.id = "EXEC" => Level(host.at) = 5 /\ Whole /\ d.img # "prog"
                        /\ d.id \notin {"DBIN", "CALL", "EXIT"}
    PROVE  InTouch'
<1>. DEFINE L == Level(host.at)
<1>1. /\ L \in 1 .. 8
      /\ host.link => host.at \in Legs \cup {"console"}
      /\ host.link => (L >= 6 <=> host.at \in {"EXEC", "console"})
  BY Levels DEF InTouch, HostOK
<1>2. /\ Shapes /\ HostOK /\ WayOK /\ MemOK /\ RunOK /\ AnswersOK
      /\ host.sock \in Nat /\ host.n \in Nat /\ con.tool \in Nat /\ con.run \in Nat
      /\ con.mem.n \in Nat /\ con' = con
      /\ \A m \in Way : m.sock \in Nat /\ m.n \in Nat /\ Rank(m.id) \in 1 .. 8
  BY WayTypes, Ranks DEF InTouch, Steady
<1>3. /\ Way' = Way \cup S
      /\ \A d \in S : d \in Datagrams /\ d.sock = host.sock /\ Rank(d.id) = r
  BY DEF Adds
<1>4. ASSUME NEW t \in Nat, NEW l \in Nat, Past(t, l),
             t < host.sock \/ (t = host.sock /\ l <= 6)
      PROVE  Past(t, l)'
  BY <1>2, <1>4, PastAdds
<1>5. Shapes'
  BY <1>2 DEF Shapes, Steady, Adds
<1>6. HostOK'
  BY <1>1, <1>2 DEF HostOK, Legs
<1>7. \A n : Launched(n) => Launched(n)'
  BY <1>1 DEF Launched, Legs
<1>8. WayOK'
  <2>1. \A m \in Way' : m.sock <= host'.sock
    BY <1>2, <1>3 DEF WayOK
  <2>2. ASSUME NEW m \in Way', m.id = "EXEC", m.img = "prog" PROVE Launched(m.n)'
    BY <1>2, <1>3, <1>7, <2>2 DEF WayOK
  <2>3. ASSUME NEW m \in Way', NEW k \in Way' PROVE Mates(m, k)
    <3>1. ASSUME NEW j \in Way, j.sock = host.sock, Rank(j.id) >= 4, NEW d \in S
          PROVE  j.n = host.n /\ d.n = host.n /\ d.img = j.img
      <4>1. Current(j)
        BY <1>2, <3>1 DEF WayOK
      <4>. QED BY <1>1, <1>2, <3>1, <4>1 DEF Current
    <3>2. CASE m \in Way /\ k \in Way
      BY <1>2, <3>2 DEF WayOK
    <3>3. CASE m \in S /\ k \in S
      BY <3>3 DEF Mates
    <3>4. CASE (m \in Way /\ k \in S) \/ (m \in S /\ k \in Way)
      BY <1>3, <3>1, <3>4 DEF Mates
    <3>. QED BY <1>3, <3>2, <3>3, <3>4
  <2>4. Sorted(toCon)'
    BY DEF Adds
  <2>. QED BY <2>1, <2>2, <2>3, <2>4 DEF WayOK
<1>9. MemOK'
  <2>1. ASSUME NEW m \in Way, NEW l \in {4, 5} PROVE Past(m.sock, l) => Past(m.sock, l)'
    BY <1>2, <1>4 DEF WayOK
  <2>2. ASSUME NEW m \in S, m.id = "EXEC"
        PROVE  Holding(m) /\ con.mem.whole /\ Past(m.sock, 5)'
    <3>1. L = 5 /\ Whole /\ m.n = host.n /\ m.img = host.img /\ m.sock = host.sock
      BY <1>3, <2>2
    <3>2. Taken
      <4>1. Standing(L - 1) /\ L - 1 = 4
        BY <1>2, <2>2, <3>1 DEF AnswersOK
      <4>. QED BY <4>1 DEF Standing
    <3>. QED BY <1>2, <1>4, <3>1, <3>2 DEF Taken, Whole, Holding
  <2>. QED BY <1>2, <1>3, <2>1, <2>2 DEF MemOK, Holding
<1>10. RunOK'
  <2>1. Past(con.tool, 6) => Past(con.tool, 6)'
    BY <1>2, <1>4 DEF RunOK
  <2>2. Left => Left'
    BY <1>2, <1>3 DEF Left
  <2>3. ASSUME con.at = "idle", con.mem.used
        PROVE  \A m \in Way' : m.id # "EXEC"
    <3>1. \A m \in Way : m.id # "EXEC"
      BY <1>2, <2>3 DEF RunOK
    <3>2. ASSUME NEW m \in S, m.id = "EXEC" PROVE FALSE
      <4>1. host.link /\ host.at # "FIND" /\ L = 5
        BY <3>2
      <4>2. Taken
        <5>1. Standing(L - 1) /\ L - 1 = 4
          BY <1>2, <4>1 DEF AnswersOK
        <5>. QED BY <5>1 DEF Standing
      <4>3. Launched(host.n)
        BY <1>2, <2>3, <4>2 DEF RunOK, Taken
      <4>. QED BY <1>1, <1>2, <4>1, <4>3 DEF Launched, Legs
    <3>. QED BY <1>3, <3>1, <3>2
  <2>4. con.at = "booting" => toCon' = << >>
    BY <1>2 DEF RunOK, Adds
  <2>. QED BY <1>2, <1>7, <2>1, <2>2, <2>3, <2>4 DEF RunOK, Owner, RunsWhole
<1>11. AnswersOK'
  BY <1>2 DEF AnswersOK, Steady
<1>. QED BY <1>5, <1>6, <1>8, <1>9, <1>10, <1>11 DEF InTouch

\* A session begins, on new sockets, of the same invocation or the next one.
LEMMA Opens ==
    ASSUME InTouch, Steady, NEW h \in Hosts, host' = h,
           h.sock = host.sock + 1, spent'.socks = h.sock, spent'.runs = h.n,
           h.n > host.n \/ (h.n = host.n /\ host.at \in {"settle", "FIND"}),
           h.link, h.port = PortOf(h.job), h.at \in {"FIND", "VERS"}, h.ver = "none",
           NEW S, Adds(S, h.sock, 1),
           \A d \in S : /\ d.n = h.n /\ d.id = "VERS"
                        /\ h.at = "VERS" => d.port = h.port /\ d.v = Version(h)
    PROVE  InTouch'
<1>2. /\ Shapes /\ HostOK /\ WayOK /\ MemOK /\ RunOK /\ AnswersOK
      /\ host.sock \in Nat /\ host.n \in Nat /\ con.tool \in Nat /\ con.run \in Nat
      /\ con.mem.n \in Nat /\ con' = con /\ h.n \in Nat
      /\ \A m \in Way : m.sock \in Nat /\ m.n \in Nat /\ Rank(m.id) \in 1 .. 8
  BY WayTypes, Ranks DEF InTouch, Steady, Hosts
<1>3. /\ Way' = Way \cup S
      /\ \A d \in S : d \in Datagrams /\ d.sock = h.sock /\ Rank(d.id) = 1
  BY DEF Adds
<1>4. ASSUME NEW t \in Nat, NEW l \in Nat, Past(t, l), t <= host.sock
      PROVE  Past(t, l)'
  BY <1>2, <1>4, PastAdds
<1>5. Shapes'
  BY <1>2 DEF Shapes, Steady, Adds
<1>6. HostOK'
  BY <1>2 DEF HostOK, Legs
<1>7. \A n \in Nat : Launched(n) => Launched(n)'
  BY <1>2 DEF Launched
<1>8. WayOK'
  <2>1. ASSUME NEW m \in Way' PROVE m.sock <= h.sock /\ (m.sock = h.sock => Current(m)')
    <3>1. CASE m \in Way
      BY <1>2, <3>1 DEF WayOK
    <3>2. CASE m \in S
      <4>1. m.n = h.n /\ m.id = "VERS" /\ (h.at = "VERS" => m.port = h.port /\ m.v = Version(h))
            /\ m.sock = h.sock /\ Rank(m.id) = 1
        BY <1>3, <3>2
      <4>2. Level(h.at) = 1 /\ Version(host)' = Version(h) /\ h.sock \in Nat
        BY <1>2, Levels
      <4>. QED BY <1>2, <4>1, <4>2 DEF Current
    <3>. QED BY <1>3, <3>1, <3>2
  <2>2. ASSUME NEW m \in Way', m.id = "EXEC", m.img = "prog" PROVE Launched(m.n)'
    BY <1>2, <1>3, <1>7, <2>2 DEF WayOK
  <2>3. ASSUME NEW m \in Way', NEW k \in Way' PROVE Mates(m, k)
    BY <1>2, <1>3 DEF Mates, WayOK
  <2>4. Sorted(toCon)'
    BY DEF Adds
  <2>. QED BY <2>1, <2>2, <2>3, <2>4 DEF WayOK
<1>9. MemOK'
  <2>1. ASSUME NEW m \in Way, NEW l \in {4, 5} PROVE Past(m.sock, l) => Past(m.sock, l)'
    BY <1>2, <1>4 DEF WayOK
  <2>. QED BY <1>2, <1>3, <2>1 DEF MemOK, Holding
<1>10. RunOK'
  <2>1. Past(con.tool, 6) => Past(con.tool, 6)'
    BY <1>2, <1>4 DEF RunOK
  <2>2. Left => Left'
    BY <1>2, <1>3 DEF Left
  <2>4. con.at = "booting" => toCon' = << >>
    BY <1>2 DEF RunOK, Adds
  <2>. QED BY <1>2, <1>3, <1>7, <2>1, <2>2, <2>4 DEF RunOK, Owner, RunsWhole
<1>11. AnswersOK'
  <2>1. Level(h.at) = 1
    BY Levels
  <2>2. \A a \in Coming' : a.to <= host.sock /\ a.to \in Nat
    BY <1>2, WayTypes DEF AnswersOK, Steady
  <2>3. Standing(0)'
    BY DEF Standing
  <2>4. Level(host'.at) - 1 = 0
    BY <2>1
  <2>. QED BY <1>2, <2>2, <2>3, <2>4 DEF AnswersOK
<1>. QED BY <1>5, <1>6, <1>8, <1>9, <1>10, <1>11 DEF InTouch

-----------------------------------------------------------------------------
(* Sending.                                                                *)

LEMMA DatagramType ==
    ASSUME NEW h \in Hosts, NEW id \in Commands
    PROVE  /\ Datagram(h, id) \in Datagrams /\ Datagram(h, id).id = id
           /\ Datagram(h, id).sock = h.sock /\ Datagram(h, id).n = h.n
           /\ Datagram(h, id).port = h.port /\ Datagram(h, id).img = h.img
           /\ Datagram(h, id).v = Version(h)
<1>1. h.sock \in Nat /\ h.n \in Nat /\ h.port \in Ports /\ h.img \in Images
  BY DEF Hosts
<1>2. Version(h) \in Nat
  BY DEF Version
<1>. HIDE DEF Version
<1>. QED BY <1>1, <1>2 DEF Datagram, Datagrams

\* Nothing on its way comes after a command of rank r of session s.
Upto(s, r) == \A m \in Way : m.sock < s \/ (m.sock = s /\ Rank(m.id) <= r)

\* Some of ms, all of them commands of one session and rank, are sent.
LEMMA Sends ==
    ASSUME Shapes, WayOK, NEW ms \in Seq(Datagrams), NEW s \in Nat, NEW r \in Nat,
           \A j \in 1 .. Len(ms) : ms[j].sock = s /\ Rank(ms[j].id) = r,
           Upto(s, r), con.at # "booting", toCon' = toCon \o ms
    PROVE  LET S == {ms[j] : j \in 1 .. Len(ms)} IN S = {} \/ Adds(S, s, r)
<1>. DEFINE S == {ms[j] : j \in 1 .. Len(ms)}
            q == toCon
<1>1. q \in Seq(Datagrams) /\ Sorted(q)
  BY DEF Shapes, WayOK
<1>2. \A i \in 1 .. Len(q) : q[i].sock < s \/ (q[i].sock = s /\ Rank(q[i].id) <= r)
  BY DEF Upto, Way
<1>3. /\ Sorted(q \o ms) /\ q \o ms \in Seq(Datagrams)
      /\ {(q \o ms)[i] : i \in 1 .. Len(q \o ms)} = {q[i] : i \in 1 .. Len(q)} \cup S
  <2>. HIDE DEF q
  <2>. QED BY <1>1, <1>2, SendsAfter
<1>4. Way' = Way \cup S
  BY <1>3 DEF Way
<1>5. Sorted(toCon)'
  BY <1>3 DEF Sorted
<1>6. \A d \in S : d \in Datagrams /\ d.sock = s /\ Rank(d.id) = r
  OBVIOUS
<1>. QED BY <1>3, <1>4, <1>5, <1>6 DEF Adds

LEMMA AddsNone ==
    ASSUME Shapes, WayOK, toCon' = toCon, NEW s, NEW r
    PROVE  Adds({}, s, r)
BY DEF Adds, Way, Sorted, Shapes, WayOK

\* send_cmd() sends a command, or nothing.
LEMMA SendsOne ==
    ASSUME Shapes, WayOK, NEW h \in Hosts, NEW id \in Commands, toCon' = Sent(h, id),
           Upto(h.sock, Rank(id))
    PROVE  \E S \in SUBSET {Datagram(h, id)} :
              Adds(S, h.sock, Rank(id)) /\ (S # {} => h.link)
<1>. DEFINE d == Datagram(h, id)
            ms == <<d>>
<1>1. d \in Datagrams /\ d.sock = h.sock /\ d.id = id /\ h.sock \in Nat /\ id # "FIND"
  BY DatagramType DEF Hosts, Commands
<1>2. CASE h.link /\ con.here /\ con.at \notin {"booting", "dead"}
  <2>1. toCon' = toCon \o ms
    BY <1>1, <1>2 DEF Sent
  <2>. HIDE DEF d
  <2>2. /\ ms \in Seq(Datagrams) /\ Len(ms) = 1
        /\ \A j \in 1 .. Len(ms) : ms[j] = d
    BY <1>1
  <2>3. {ms[j] : j \in 1 .. Len(ms)} = {d}
    BY <2>2
  <2>4. Rank(id) \in Nat
    BY Ranks
  <2>. HIDE DEF ms
  <2>5. \A j \in 1 .. Len(ms) : ms[j].sock = h.sock /\ Rank(ms[j].id) = Rank(id)
    BY <1>1, <2>2
  <2>6. Adds({d}, h.sock, Rank(id))
    BY <1>1, <1>2, <2>1, <2>2, <2>3, <2>4, <2>5, Sends
  <2>. QED BY <1>2, <2>6 DEF d
<1>3. CASE ~(h.link /\ con.here /\ con.at \notin {"booting", "dead"})
  <2>1. toCon' = toCon
    BY <1>3 DEF Sent
  <2>. QED BY <2>1, AddsNone
<1>. QED BY <1>2, <1>3

\* The search sends two probes, or nothing.
LEMMA SendsProbes ==
    ASSUME Shapes, WayOK, NEW h \in Hosts, toCon' = Sent(h, "FIND"), Upto(h.sock, 1)
    PROVE  \E S : /\ Adds(S, h.sock, 1)
                  /\ \A d \in S : d.n = h.n /\ d.img = h.img /\ d.id = "VERS"
<1>. DEFINE d == Probe(h, "legacy")
            e == Probe(h, "v2")
            ms == <<d, e>>
<1>1. \A p \in Ports : LET x == Probe(h, p)
                       IN  x \in Datagrams /\ x.sock = h.sock /\ x.id = "VERS" /\ x.n = h.n /\ x.img = h.img
  <2>1. Datagram(h, "VERS") \in Datagrams /\ Datagram(h, "VERS").sock = h.sock
        /\ Datagram(h, "VERS").id = "VERS" /\ Datagram(h, "VERS").n = h.n
        /\ Datagram(h, "VERS").img = h.img
    BY DatagramType DEF Commands
  <2>. DEFINE x == Datagram(h, "VERS")
  <2>. HIDE DEF x
  <2>2. ASSUME NEW p \in Ports, x \in Datagrams
        PROVE  LET y == [x EXCEPT !.port = p, !.v = 2]
               IN  y \in Datagrams /\ y.sock = x.sock /\ y.id = x.id /\ y.n = x.n /\ y.img = x.img
    BY <2>2 DEF Datagrams
  <2>. QED BY <2>1, <2>2 DEF x, Probe
<1>2. h.sock \in Nat
  BY DEF Hosts
<1>3. CASE h.link /\ con.here /\ con.at \notin {"booting", "dead"}
  <2>1. toCon' = toCon \o ms
    BY <1>3 DEF Sent
  <2>2. d \in Datagrams /\ e \in Datagrams /\ d.sock = h.sock /\ e.sock = h.sock
        /\ d.id = "VERS" /\ e.id = "VERS" /\ d.n = h.n /\ e.n = h.n /\ d.img = h.img /\ e.img = h.img
    BY <1>1 DEF Ports
  <2>. HIDE DEF d, e
  <2>3. /\ ms \in Seq(Datagrams) /\ Len(ms) = 2
        /\ \A j \in 1 .. Len(ms) : ms[j] \in {d, e}
    BY <2>2
  <2>. HIDE DEF ms
  <2>4. \A j \in 1 .. Len(ms) : /\ ms[j].sock = h.sock /\ Rank(ms[j].id) = 1
                                /\ ms[j].id = "VERS" /\ ms[j].n = h.n /\ ms[j].img = h.img
    BY <2>2, <2>3, Ranks
  <2>. DEFINE S == {ms[j] : j \in 1 .. Len(ms)}
  <2>5. S # {}
    BY <2>3
  <2>6. Adds(S, h.sock, 1)
    BY <1>2, <1>3, <2>1, <2>3, <2>4, <2>5, Sends
  <2>. QED BY <2>4, <2>6
<1>4. CASE ~(h.link /\ con.here /\ con.at \notin {"booting", "dead"})
  <2>1. toCon' = toCon
    BY <1>4 DEF Sent
  <2>. QED BY <2>1, AddsNone
<1>. QED BY <1>3, <1>4

-----------------------------------------------------------------------------
(* The operations of the tool.                                             *)

\* A step of the tool that opens no sockets.
Same == Steady /\ spent'.socks = spent.socks /\ spent'.runs = spent.runs

\* h is the tool in the middle of the session it is in.
Kin(h) == /\ h \in Hosts /\ h.sock = host.sock /\ h.n = host.n
          /\ h.job = host.job /\ h.port = host.port /\ h.link

LEMMA AttemptsLeft == \A id : Attempts(id) - 1 \in 0 .. MaxTries
BY Consts DEF Attempts

LEMMA Behind ==
    ASSUME InTouch, NEW r \in Nat
    PROVE  /\ host.link /\ Level(host.at) <= r => Upto(host.sock, r)
           /\ Upto(host.sock + 1, r)
<1>1. /\ WayOK /\ host.sock \in Nat
      /\ \A m \in Way : m.sock \in Nat
  BY WayTypes DEF InTouch
<1>2. Level(host.at) \in Nat /\ \A m \in Way : Rank(m.id) \in Nat
  <2>1. \A x \in 1 .. 8 : x \in Nat
    OBVIOUS
  <2>. QED BY <2>1, Ranks, Levels
<1>. QED BY <1>1, <1>2 DEF WayOK, Upto, Current

\* The tool goes from host to g, having sent the command id, if it did.
LEMMA Goes ==
    ASSUME InTouch, Same, host.link, host.at # "FIND", NEW h, Kin(h), NEW g, Kin(g), host' = g,
           NEW id \in Commands, toCon' \in {toCon, Sent(h, id)}, h.img = g.img, Rank(id) = Level(g.at),
           g.at \in (Legs \cup {"console"}) \ {"FIND"}, Level(host.at) <= Level(g.at),
           g.at = "VERS" => g.ver = "none",
           g.at \in {"EXEC", "console"} => g.img = "prog",
           g.img = host.img \/ (Level(host.at) < 4 /\ Level(g.at) <= 4),
           Standing(Level(g.at) - 1)
    PROVE  InTouch'
<1>. DEFINE K == Level(g.at)
<1>1. K \in 1 .. 8 /\ Upto(h.sock, Rank(id)) /\ Shapes /\ WayOK /\ h \in Hosts /\ g \in Hosts
  BY Behind, Levels DEF InTouch, Kin
<1>2. PICK S \in SUBSET {Datagram(h, id)} : Adds(S, h.sock, Rank(id))
  <2>1. CASE toCon' = toCon
    BY <1>1, <2>1, AddsNone
  <2>. QED BY <1>1, <2>1, SendsOne
<1>3. ASSUME NEW d \in S
      PROVE  d.n = g.n /\ d.img = g.img /\ d.port = g.port /\ d.v = Version(g)
  <2>1. d = Datagram(h, id) /\ Version(h) = Version(g)
    BY <1>2 DEF Kin, Version
  <2>. QED BY <1>1, <2>1, DatagramType DEF Kin
<1>4. Adds(S, g.sock, K)
  BY <1>2 DEF Kin
<1>5. /\ K > 1 => Greeted
      /\ K > 4 => Taken
      /\ K > 5 => Whole
      /\ K > 6 => Started
  BY <1>1 DEF Standing
<1>. QED BY <1>1, <1>3, <1>4, <1>5, Advances DEF Same, Kin

\* The same, in the words of the model.
LEMMA Asks ==
    ASSUME InTouch, Same, host.link, host.at # "FIND", NEW h, Kin(h), NEW id \in Legs \ {"FIND"},
           Ask(h, id), Level(host.at) <= Level(id), id = "VERS" => h.ver = "none",
           id = "EXEC" => h.img = "prog",
           h.img = host.img \/ (Level(host.at) < 4 /\ Level(id) <= 4), Standing(Level(id) - 1)
    PROVE  InTouch'
<1>. DEFINE g == [h EXCEPT !.at = id, !.tries = Attempts(id) - 1]
<1>1. Attempts(id) - 1 \in 0 .. MaxTries
  BY AttemptsLeft
<1>2. Kin(g) /\ g.img = h.img /\ g.at = id /\ g.ver = h.ver
  <2>. DEFINE t == Attempts(id) - 1
  <2>. HIDE DEF t
  <2>1. ASSUME t \in 0 .. MaxTries
        PROVE  LET x == [h EXCEPT !.at = id, !.tries = t]
               IN  /\ x \in Hosts /\ x.sock = h.sock /\ x.n = h.n /\ x.job = h.job
                   /\ x.port = h.port /\ x.link = h.link /\ x.img = h.img /\ x.at = id
                   /\ x.ver = h.ver
    BY <2>1 DEF Kin, Hosts, Phases
  <2>. QED BY <1>1, <2>1 DEF t, Kin
<1>3. host' = g /\ toCon' = Sent(h, id)
  BY DEF Ask
<1>4. id \in Commands /\ Rank(id) = Level(id)
  BY Ranks, Levels DEF Commands, Legs
<1>5. /\ g.at \in (Legs \cup {"console"}) \ {"FIND"}
      /\ g.at = "VERS" => g.ver = "none"
      /\ g.at \in {"EXEC", "console"} => g.img = "prog"
  <2>. HIDE DEF g
  <2>. QED BY <1>2 DEF Legs
<1>. HIDE DEF g
<1>. QED BY <1>2, <1>3, <1>4, <1>5, Goes

\* A session ends without another command.
LEMMA Ends ==
    ASSUME InTouch, Same, toCon' = toCon, host.at # "off",
           NEW h \in Hosts, host' = h, h.sock = host.sock, h.n = host.n, ~h.link,
           \/ h.at = "done"
           \/ h.at = "settle" /\ h.ver = "none" /\ h.left > 0
              /\ host.at \notin {"EXEC", "console", "done"}
    PROVE  InTouch'
<1>1. Adds({}, host.sock, 8)
  BY AddsNone DEF InTouch
<1>2. PICK S : S = {}
  OBVIOUS
<1>3. S \in SUBSET {host} /\ Adds(S, host.sock, 8)
  BY <1>1, <1>2
<1>. QED BY <1>2, <1>3, Closes DEF Same

LEMMA Finishes ==
    ASSUME InTouch, Same, host.at # "off", NEW h \in Hosts, h.sock = host.sock, h.n = host.n,
           NEW told \in {"none", "ok", "failed", "killed"}, Finish(h, told)
    PROVE  InTouch'
<1>. DEFINE g == [h EXCEPT !.at = "done", !.link = FALSE, !.told = told]
<1>1. g \in Hosts /\ g.sock = h.sock /\ g.n = h.n /\ ~g.link /\ g.at = "done"
  BY DEF Hosts, Phases
<1>2. host' = g /\ toCon' = toCon
  BY DEF Finish
<1>. HIDE DEF g
<1>. QED BY <1>1, <1>2, Ends

\* The tool is in its handshake, and the console knows of it.
Early == host.link /\ host.at \in {"VERS", "CAPS", "SBIN"} /\ Greeted

LEMMA EarlyFacts ==
    ASSUME Early
    PROVE  /\ host.at # "FIND" /\ host.at # "off" /\ Level(host.at) < 4
           /\ Standing(1) /\ Standing(2) /\ Standing(3)
           /\ Level("SBIN") = 3 /\ Level("LBIN") = 4
BY Levels DEF Early, Standing

\* A reset is sent once.
LEMMA Resets ==
    ASSUME InTouch, Same, Early, NEW h, Kin(h), toCon' = Sent(h, "REBT"),
           host' = [h EXCEPT !.at = "done", !.link = FALSE, !.told = "ok"]
    PROVE  InTouch'
<1>. DEFINE g == [h EXCEPT !.at = "done", !.link = FALSE, !.told = "ok"]
<1>1. g \in Hosts /\ g.sock = h.sock /\ g.n = h.n /\ ~g.link /\ g.at = "done"
  BY DEF Hosts, Phases, Kin
<1>2. /\ Level(host.at) < 4 /\ Level(host.at) <= 8 /\ Rank("REBT") = 8 /\ "REBT" \in Commands
      /\ host.at # "FIND" /\ host.at # "off" /\ host.link
  BY EarlyFacts, Levels, Ranks DEF Commands, Early
<1>3. Upto(h.sock, 8) /\ Shapes /\ WayOK /\ h \in Hosts
  BY <1>2, Behind DEF InTouch, Kin
<1>4. PICK S \in SUBSET {Datagram(h, "REBT")} : Adds(S, h.sock, 8)
  BY <1>2, <1>3, SendsOne
<1>5. \A d \in S : d.n = host.n /\ d.id = "REBT"
  BY <1>2, <1>3, <1>4, DatagramType DEF Kin
<1>6. host' = g
  OBVIOUS
<1>7. Adds(S, host.sock, 8) /\ Level(host.at) <= 5
  BY <1>2, <1>4, Levels DEF Kin
<1>8. PICK e : S \in SUBSET {e}
  BY <1>4
<1>. HIDE DEF g
<1>. QED BY <1>1, <1>2, <1>3, <1>5, <1>6, <1>7, <1>8, Closes DEF Same, Kin

LEMMA KinWith ==
    ASSUME NEW h, Kin(h)
    PROVE  /\ \A i \in Images : Kin([h EXCEPT !.img = i]) /\ [h EXCEPT !.img = i].img = i
           /\ Kin([h EXCEPT !.again = FALSE, !.updated = TRUE])
           /\ Kin([h EXCEPT !.caps = TRUE])
           /\ \A v \in AllLoaders \cup {"file"} : Kin([h EXCEPT !.ver = v, !.caps = FALSE])
BY DEF Kin, Hosts

LEMMA Chooses ==
    ASSUME InTouch, Same, Early, NEW h, Kin(h), Command(h)
    PROVE  InTouch'
<1>1. CASE Ask([h EXCEPT !.img = "prog"], "LBIN")
  <2>1. Kin([h EXCEPT !.img = "prog"]) /\ "LBIN" \in Legs \ {"FIND"}
    BY KinWith DEF Legs, Images
  <2>2. Level("LBIN") - 1 = 3 /\ Level(host.at) <= Level("LBIN")
        /\ Level(host.at) < 4 /\ Level("LBIN") <= 4
    BY EarlyFacts, Levels
  <2>3. host.link /\ host.at # "FIND" /\ Standing(Level("LBIN") - 1)
    BY <2>2, EarlyFacts DEF Early
  <2>. QED BY <1>1, <2>1, <2>2, <2>3, Asks
<1>2. ASSUME NEW told \in {"ok", "failed"}, Finish(h, told) PROVE InTouch'
  BY <1>2, EarlyFacts, Finishes DEF Kin
<1>3. CASE /\ host' = [h EXCEPT !.at = "done", !.link = FALSE, !.told = "ok"]
           /\ toCon' = Sent(h, "REBT")
  BY <1>3, Resets
<1>. QED BY <1>1, <1>2, <1>3 DEF Command

LEMMA Picks ==
    ASSUME InTouch, Same, Early, NEW h, Kin(h), AutoUpdate(h)
    PROVE  InTouch'
<1>1. ASSUME NEW i \in Images, Ask([h EXCEPT !.img = i], "LBIN") PROVE InTouch'
  <2>1. Kin([h EXCEPT !.img = i]) /\ "LBIN" \in Legs \ {"FIND"}
    BY KinWith DEF Legs
  <2>2. Level("LBIN") - 1 = 3 /\ Level(host.at) <= Level("LBIN")
        /\ Level(host.at) < 4 /\ Level("LBIN") <= 4
    BY EarlyFacts, Levels
  <2>3. host.link /\ host.at # "FIND" /\ Standing(Level("LBIN") - 1)
    BY <2>2, EarlyFacts DEF Early
  <2>. QED BY <1>1, <2>1, <2>2, <2>3, Asks
<1>2. CASE Ask(h, "SBIN")
  <2>1. "SBIN" \in Legs \ {"FIND"}
    BY DEF Legs
  <2>2. Level("SBIN") - 1 = 2 /\ Level(host.at) <= Level("SBIN")
        /\ Level(host.at) < 4 /\ Level("SBIN") <= 4
    BY EarlyFacts, Levels DEF Early
  <2>3. host.link /\ host.at # "FIND" /\ Standing(Level("SBIN") - 1)
    BY <2>2, EarlyFacts DEF Early
  <2>. QED BY <1>2, <2>1, <2>2, <2>3, Asks
<1>. QED BY <1>1, <1>2, Chooses DEF AutoUpdate, Images

LEMMA Connects ==
    ASSUME InTouch, Same, Early, NEW h, Kin(h), Connected(h)
    PROVE  InTouch'
BY KinWith, Chooses, Picks DEF Connected

\* EXECUTE of a new loader is sent once; the link is closed.
LEMMA Replaces ==
    ASSUME InTouch, Same, host.link, host.at = "DBIN", Standing(5), host.img # "prog",
           SendTrampoline(host)
    PROVE  InTouch'
<1>1. /\ host \in Hosts /\ Level(host.at) = 5 /\ Rank("EXEC") = 6 /\ "EXEC" \in Commands
      /\ Shapes /\ WayOK /\ MaxReopens \in Nat \ {0} /\ Whole
  BY Levels, Ranks, Consts DEF InTouch, Shapes, Commands, Standing
<1>2. Upto(host.sock, 6)
  BY <1>1, Behind
<1>3. toCon' = Sent(host, "EXEC")
  BY DEF SendTrampoline
<1>4. PICK S \in SUBSET {Datagram(host, "EXEC")} : Adds(S, host.sock, 6)
  BY <1>1, <1>2, <1>3, SendsOne
<1>5. \A d \in S : d.n = host.n /\ d.id = "EXEC" /\ d.img = host.img
  BY <1>1, <1>4, DatagramType
<1>6. PICK e : S \in SUBSET {e}
  BY <1>4
<1>7. PICK g : host' = g
  OBVIOUS
<1>8. /\ g \in Hosts /\ g.sock = host.sock /\ g.n = host.n /\ ~g.link
      /\ \/ g.at = "settle" /\ g.ver = "none" /\ g.left > 0
         \/ g.at = "updated"
  <2>. DEFINE d == DropLink(host)
  <2>3. d \in Hosts /\ d.sock = host.sock /\ d.n = host.n /\ ~d.link /\ d.ver = "none"
    BY <1>1 DEF DropLink, Hosts
  <2>4. MaxReopens \in 0 .. MaxReopens /\ MaxReopens > 0
    BY <1>1
  <2>. HIDE DEF d
  <2>1. CASE g = [d EXCEPT !.at = "updated", !.updated = TRUE]
    BY <2>1, <2>3 DEF Hosts, Phases
  <2>2. CASE g = [d EXCEPT !.at = "settle", !.again = TRUE, !.left = MaxReopens]
    BY <2>2, <2>3, <2>4 DEF Hosts, Phases
  <2>. QED BY <1>7, <2>1, <2>2 DEF SendTrampoline, d
<1>9. host.at # "off" /\ host.at \notin {"EXEC", "console", "done"} /\ host.at # "FIND"
  OBVIOUS
<1>10. Level(host.at) <= 5
  BY <1>1
<1>. QED BY <1>1, <1>4, <1>5, <1>6, <1>7, <1>8, <1>9, <1>10, Closes DEF Same

LEMMA Loadeds ==
    ASSUME InTouch, Same, host.link, host.at = "DBIN", Standing(5), Loaded(host)
    PROVE  InTouch'
<1>1. host \in Hosts /\ Kin(host) /\ host.at # "off" /\ host.at # "FIND"
  BY DEF InTouch, Shapes, Kin
<1>2. CASE host.img = "prog" /\ Ask(host, "EXEC")
  <2>1. "EXEC" \in Legs \ {"FIND"} /\ Level("EXEC") = 6 /\ Level(host.at) = 5
    BY Levels DEF Legs
  <2>2. Standing(Level("EXEC") - 1) /\ Level(host.at) <= Level("EXEC")
    BY <2>1
  <2>. QED BY <1>1, <1>2, <2>1, <2>2, Asks
<1>. QED BY <1>1, <1>2, Replaces, Finishes DEF Loaded

\* New sockets, for the next invocation or for another try of this one.
LEMMA Opened ==
    ASSUME InTouch, Steady, NEW h \in Hosts, Open(h), h.ver = "none",
           h.sock \in {0, host.sock},
           \/ h.n = host.n + 1
           \/ h.n = host.n /\ host.at \in {"settle", "FIND"}
    PROVE  InTouch'
<1>. DEFINE o == [h EXCEPT !.sock = spent.socks + 1, !.link = TRUE,
                           !.port = IF h.job = "run_legacy" THEN "legacy" ELSE "v2"]
            id == IF h.job = "run_found" /\ h.sock = 0 THEN "FIND" ELSE "VERS"
            g == [o EXCEPT !.at = id, !.tries = Attempts(id) - 1]
<1>1. /\ Shapes /\ WayOK /\ spent \in Counts /\ host.sock = spent.socks /\ host.sock \in Nat
      /\ host.n \in Nat
  BY WayTypes DEF InTouch, HostOK, Shapes
<1>2. /\ o \in Hosts /\ o.sock = host.sock + 1 /\ o.n = h.n /\ o.link /\ o.job = h.job
      /\ o.port = PortOf(o.job) /\ o.ver = "none"
  <2>. DEFINE p == IF h.job = "run_legacy" THEN "legacy" ELSE "v2"
              t == spent.socks + 1
  <2>1. p \in Ports /\ p = PortOf(h.job) /\ t = host.sock + 1 /\ t \in Nat
    BY <1>1 DEF PortOf, Ports
  <2>. HIDE DEF p, t
  <2>2. LET x == [h EXCEPT !.sock = t, !.link = TRUE, !.port = p]
        IN  /\ x \in Hosts /\ x.sock = t /\ x.n = h.n /\ x.link /\ x.job = h.job
            /\ x.port = p /\ x.ver = h.ver
    BY <2>1 DEF Hosts
  <2>. QED BY <2>1, <2>2 DEF p, t
<1>3. host' = g /\ toCon' = Sent(o, id)
  BY DEF Open, Ask
<1>4. Attempts(id) - 1 \in 0 .. MaxTries
  BY AttemptsLeft
<1>5. spent'.socks = host.sock + 1 /\ spent'.runs = h.n
  BY <1>1 DEF Open, Counts
<1>6. id \in {"FIND", "VERS"}
  OBVIOUS
<1>. HIDE DEF o, id
<1>7. /\ g \in Hosts /\ g.sock = host.sock + 1 /\ g.n = h.n /\ g.link /\ g.at = id
      /\ g.port = PortOf(g.job) /\ g.ver = "none" /\ g.port = o.port /\ Version(g) = Version(o)
  <2>. DEFINE t == Attempts(id) - 1
  <2>1. t \in 0 .. MaxTries
    BY <1>4
  <2>. HIDE DEF t
  <2>2. LET x == [o EXCEPT !.at = id, !.tries = t]
        IN  /\ x \in Hosts /\ x.sock = o.sock /\ x.n = o.n /\ x.job = o.job
            /\ x.port = o.port /\ x.link = o.link /\ x.at = id /\ x.ver = o.ver
    BY <1>2, <1>6, <2>1 DEF Hosts, Phases, Legs
  <2>. QED BY <1>2, <2>2 DEF t, Version
<1>. HIDE DEF g
<1>8. Upto(o.sock, 1)
  BY <1>2, Behind
<1>9. \E S : /\ Adds(S, o.sock, 1)
             /\ \A d \in S : /\ d.n = g.n /\ d.id = "VERS"
                             /\ g.at = "VERS" => d.port = g.port /\ d.v = Version(g)
  <2>1. CASE id = "FIND"
    BY <1>1, <1>2, <1>3, <1>7, <1>8, <2>1, SendsProbes
  <2>2. CASE id = "VERS"
    <3>1. Rank("VERS") = 1 /\ "VERS" \in Commands
      BY Ranks DEF Commands
    <3>2. PICK S \in SUBSET {Datagram(o, "VERS")} : Adds(S, o.sock, 1)
      BY <1>1, <1>2, <1>3, <1>8, <2>2, <3>1, SendsOne
    <3>3. \A d \in S : d.n = o.n /\ d.id = "VERS" /\ d.port = o.port /\ d.v = Version(o)
      BY <1>2, <3>1, <3>2, DatagramType
    <3>. QED BY <1>2, <1>7, <3>2, <3>3
  <2>. QED BY <1>6, <2>1, <2>2
<1>10. g.n > host.n \/ (g.n = host.n /\ host.at \in {"settle", "FIND"})
  BY <1>1, <1>7
<1>11. PICK S : /\ Adds(S, g.sock, 1)
                /\ \A d \in S : /\ d.n = g.n /\ d.id = "VERS"
                                /\ g.at = "VERS" => d.port = g.port /\ d.v = Version(g)
  BY <1>2, <1>7, <1>9
<1>12. spent'.socks = g.sock /\ spent'.runs = g.n /\ g.at \in {"FIND", "VERS"} /\ host' = g
  BY <1>3, <1>5, <1>6, <1>7
<1>. QED BY <1>7, <1>10, <1>11, <1>12, Opens

-----------------------------------------------------------------------------
(* The steps of the tool.                                                  *)

\* A step that leaves the sockets, the invocation and the console alone.
LEMMA Idles ==
    ASSUME InTouch, Same, host' = host, toCon' = toCon
    PROVE  InTouch'
<1>1. Shapes' /\ HostOK' /\ WayOK' /\ MemOK' /\ RunOK'
  BY DEF InTouch, Same, Steady, Shapes, HostOK, WayOK, Way, Sorted, Current, Launched, MemOK,
         Holding, Past, RunOK, RunsWhole, Owner, Left
<1>2. AnswersOK'
  BY DEF InTouch, AnswersOK, Same, Steady, Standing, Greeted, Taken, Whole, Started, Past, Way
<1>. QED BY <1>1, <1>2 DEF InTouch

\* The tool reads the oldest answer.
LEMMA Consumes ==
    ASSUME InTouch, toHost # << >>, toHost' = Tail(toHost), con' = con, spent' \in Counts
    PROVE  Steady /\ Head(toHost) \in Coming /\ Head(toHost) \in Answers
<1>. DEFINE q == toHost
<1>1. q \in Seq(Answers) /\ q # << >>
  BY DEF InTouch, Shapes
<1>. HIDE DEF q
<1>2. Len(q) \in Nat /\ Len(q) >= 1 /\ Head(q) = q[1] /\ 1 \in 1 .. Len(q)
  <2>1. Len(q) # 0
    BY <1>1, EmptySeq
  <2>. QED BY <1>1, <2>1
<1>3. /\ Tail(q) \in Seq(Answers) /\ Len(Tail(q)) = Len(q) - 1
      /\ \A i \in 1 .. Len(Tail(q)) : i + 1 \in 1 .. Len(q) /\ Tail(q)[i] = q[i + 1]
  BY <1>1, <1>2
<1>4. Coming' \subseteq Coming
  BY <1>3 DEF Coming, q
<1>. QED BY <1>1, <1>2, <1>3, <1>4 DEF Steady, Coming, q

\* What the tool gets is an answer to the session it is in.
LEMMA Gets ==
    ASSUME InTouch, toHost # << >>, Takes(Head(toHost)), host.at # "FIND"
    PROVE  LET a == Head(toHost) IN Rank(a.id) <= Level(host.at) /\ Standing(Rank(a.id))
<1>1. Head(toHost) \in Coming /\ Head(toHost).to = host.sock /\ host.link
  <2>. DEFINE q == toHost
  <2>1. q \in Seq(Answers) /\ q # << >>
    BY DEF InTouch, Shapes
  <2>. HIDE DEF q
  <2>2. Len(q) # 0
    BY <2>1, EmptySeq
  <2>3. Head(q) = q[1] /\ 1 \in 1 .. Len(q)
    BY <2>1, <2>2
  <2>. QED BY <2>3 DEF Takes, Coming, q
<1>. QED BY <1>1 DEF InTouch, AnswersOK

LEMMA OpenCounts ==
    ASSUME Shapes, NEW h \in Hosts, Open(h)
    PROVE  spent' \in Counts
<1>. DEFINE t == spent.socks + 1
            n == h.n
<1>1. spent' = [spent EXCEPT !.socks = t, !.runs = n] /\ spent \in Counts
  BY DEF Open, Shapes
<1>2. n \in Nat /\ t \in Nat
  BY <1>1 DEF Counts, Hosts
<1>. HIDE DEF t, n
<1>. QED BY <1>1, <1>2 DEF Counts

LEMMA StepStart ==
    ASSUME InTouch, NEW job \in Jobs, Start(job)
    PROVE  InTouch'
<1>. DEFINE h == [NoTool EXCEPT !.n = spent.runs + 1, !.job = job]
<1>1. /\ host.sock = spent.socks /\ host.n = spent.runs /\ host.sock \in Nat /\ host.n \in Nat
      /\ spent \in Counts /\ Shapes
  BY WayTypes DEF InTouch, HostOK, Shapes
<1>2. h \in Hosts /\ h.sock = 0 /\ h.n = host.n + 1 /\ h.ver = "none"
  <2>1. job \in AllJobs /\ 0 \in 0 .. MaxTries /\ 0 \in 0 .. MaxReopens /\ spent.runs + 1 \in Nat
    BY <1>1, Consts DEF Counts
  <2>2. NoTool.n \in Nat
    BY DEF NoTool
  <2>. DEFINE t == spent.runs + 1
  <2>. HIDE DEF t
  <2>3. ASSUME t \in Nat
        PROVE  [NoTool EXCEPT !.n = t, !.job = job] \in Hosts
    BY <2>1, <2>3 DEF NoTool, Hosts, Phases, Ports, Images
  <2>. QED BY <1>1, <2>1, <2>3 DEF NoTool, t
<1>3. Open(h)
  BY DEF Start
<1>. HIDE DEF h
<1>4. Steady
  <2>1. spent' \in Counts
    BY <1>1, <1>2, <1>3, OpenCounts
  <2>. QED BY <1>1, <2>1 DEF Start, Steady, Coming, Shapes
<1>. QED BY <1>2, <1>3, <1>4, Opened

LEMMA StepReopen ==
    ASSUME InTouch, Reopen
    PROVE  InTouch'
<1>. DEFINE h == [host EXCEPT !.left = @ - 1]
<1>1. /\ Shapes /\ host \in Hosts /\ host.at = "settle" /\ host.left > 0 /\ host.ver = "none"
  BY DEF InTouch, Shapes, HostOK, Reopen
<1>2. h \in Hosts /\ h.sock = host.sock /\ h.n = host.n /\ h.ver = "none"
  BY <1>1, Consts DEF Hosts
<1>3. Open(h)
  BY DEF Reopen
<1>. HIDE DEF h
<1>4. Steady
  BY <1>1, <1>2, <1>3, OpenCounts DEF Reopen, Steady, Coming, Shapes
<1>. QED BY <1>1, <1>2, <1>3, <1>4, Opened

LEMMA StepFound ==
    ASSUME InTouch, Found
    PROVE  InTouch'
<1>1. /\ Shapes /\ host \in Hosts /\ host.at = "FIND" /\ host.ver = "none" /\ Open(host)
      /\ toHost # << >>
  BY DEF InTouch, Shapes, HostOK, Found, Got
<1>2. spent' \in Counts
  BY <1>1, OpenCounts
<1>3. Steady
  BY <1>1, <1>2, Consumes DEF Found, Consume
<1>. QED BY <1>1, <1>3, Opened

LEMMA StepGoOn ==
    ASSUME InTouch, GoOn
    PROVE  InTouch'
<1>1. /\ Shapes /\ host \in Hosts /\ host.at = "updated" /\ ~host.link
  BY DEF InTouch, Shapes, HostOK, GoOn, Legs
<1>2. Same
  BY <1>1 DEF GoOn, Same, Steady, Coming, Shapes
<1>3. ASSUME NEW told \in {"ok", "failed"}, Finish(host, told) PROVE InTouch'
  BY <1>1, <1>2, <1>3, Finishes
<1>4. CASE /\ host' = [host EXCEPT !.at = "done", !.link = FALSE, !.told = "ok"]
           /\ toCon' = Sent(host, "REBT")
  <2>1. Finish(host, "ok")
    BY <1>1, <1>4 DEF Sent, Finish
  <2>. QED BY <1>3, <2>1
<1>5. Command(host)
  BY DEF GoOn
<1>. QED BY <1>1, <1>3, <1>4, <1>5 DEF Command

\* The tool reads an answer and stays with the sockets it has.
LEMMA Reads ==
    ASSUME InTouch, toHost # << >>, Takes(Head(toHost)), Consume, UNCHANGED spent
    PROVE  /\ Same /\ host.link /\ Kin(host) /\ host.at # "off" /\ host \in Hosts
           /\ Head(toHost) \in Answers
<1>1. spent' \in Counts /\ host \in Hosts
  BY DEF InTouch, Shapes
<1>2. Steady /\ Head(toHost) \in Answers
  BY <1>1, Consumes DEF Consume
<1>3. host.link /\ host.at # "off"
  BY DEF Takes, InTouch, HostOK, Legs
<1>. QED BY <1>1, <1>2, <1>3 DEF Same, Kin

LEMMA StepRecvVersion ==
    ASSUME InTouch, RecvVersion
    PROVE  InTouch'
<1>. DEFINE a == Head(toHost)
            h == [host EXCEPT !.ver = a.ver, !.caps = FALSE]
<1>1. /\ toHost # << >> /\ Takes(a) /\ a.id = "VERS" /\ Consume /\ UNCHANGED spent
      /\ host.at = "VERS"
  BY DEF RecvVersion, Got
<1>2. Same /\ host.link /\ Kin(host) /\ a \in Answers
  BY <1>1, Reads
<1>3. Standing(1)
  BY <1>1, Gets, Ranks
<1>4. Early
  BY <1>1, <1>2, <1>3 DEF Early, Standing
<1>5. Kin(h) /\ h.img = host.img
  <2>1. a.ver \in AllLoaders \cup {"file"}
    BY <1>2 DEF Answers
  <2>. DEFINE v == a.ver
  <2>. HIDE DEF v
  <2>2. v \in AllLoaders \cup {"file"} => Kin([host EXCEPT !.ver = v, !.caps = FALSE])
    BY <1>2, KinWith
  <2>. QED BY <2>1, <2>2 DEF v
<1>6. CASE Connected(h)
  BY <1>2, <1>4, <1>5, <1>6, Connects
<1>7. CASE Ask(h, "CAPS")
  <2>1. "CAPS" \in Legs \ {"FIND"} /\ Level("CAPS") - 1 = 1 /\ Level(host.at) <= Level("CAPS")
    BY <1>1, Levels DEF Legs
  <2>2. Standing(Level("CAPS") - 1)
    BY <1>3, <2>1
  <2>. QED BY <1>1, <1>2, <1>5, <1>7, <2>1, <2>2, Asks
<1>8. Connected(h) \/ Ask(h, "CAPS")
  BY DEF RecvVersion
<1>. QED BY <1>6, <1>7, <1>8

LEMMA StepRecvCapabilities ==
    ASSUME InTouch, RecvCapabilities
    PROVE  InTouch'
<1>1. /\ toHost # << >> /\ Takes(Head(toHost)) /\ Head(toHost).id = "CAPS" /\ Consume
      /\ UNCHANGED spent /\ host.at = "CAPS" /\ Connected([host EXCEPT !.caps = TRUE])
  BY DEF RecvCapabilities, Got
<1>2. Same /\ host.link /\ Kin(host)
  BY <1>1, Reads
<1>3. Standing(2)
  BY <1>1, Gets, Ranks
<1>4. Early
  BY <1>1, <1>2, <1>3 DEF Early, Standing
<1>. QED BY <1>1, <1>2, <1>4, KinWith, Connects

LEMMA StepRecvProbe ==
    ASSUME InTouch, RecvProbe
    PROVE  InTouch'
<1>1. /\ toHost # << >> /\ Takes(Head(toHost)) /\ Head(toHost).id = "SBIN" /\ Consume
      /\ UNCHANGED spent /\ host.at = "SBIN"
      /\ \E i \in Images : Ask([host EXCEPT !.img = i], "LBIN")
  BY DEF RecvProbe, Got, Images
<1>2. Same /\ host.link /\ Kin(host)
  BY <1>1, Reads
<1>3. Standing(3)
  BY <1>1, Gets, Ranks
<1>4. PICK i \in Images : Ask([host EXCEPT !.img = i], "LBIN")
  BY <1>1
<1>5. Kin([host EXCEPT !.img = i]) /\ "LBIN" \in Legs \ {"FIND"}
  BY <1>2, KinWith DEF Legs
<1>6. /\ Level("LBIN") - 1 = 3 /\ Level(host.at) <= Level("LBIN")
      /\ Level(host.at) < 4 /\ Level("LBIN") <= 4
  BY <1>1, Levels
<1>7. Standing(Level("LBIN") - 1)
  BY <1>3, <1>6
<1>. QED BY <1>1, <1>2, <1>4, <1>5, <1>6, <1>7, Asks

LEMMA StepRecvAck ==
    ASSUME InTouch, RecvAck
    PROVE  InTouch'
<1>1. /\ toHost # << >> /\ Takes(Head(toHost)) /\ Head(toHost).id = host.at /\ Consume
      /\ UNCHANGED spent /\ host.at # "FIND"
  BY DEF RecvAck, AckMatches
<1>2. Same /\ host.link /\ Kin(host) /\ host \in Hosts
  BY <1>1, Reads
<1>3. Standing(Rank(host.at))
  BY <1>1, Gets
<1>4. CASE host.at = "LBIN" /\ Ask(host, "DBIN")
  <2>1. "DBIN" \in Legs \ {"FIND"} /\ Level("DBIN") - 1 = 4 /\ Level(host.at) <= Level("DBIN")
        /\ Rank(host.at) = 4
    BY <1>4, Levels, Ranks DEF Legs
  <2>2. Standing(Level("DBIN") - 1)
    BY <1>3, <2>1
  <2>. QED BY <1>1, <1>2, <1>4, <2>1, <2>2, Asks
<1>5. CASE host.at = "DBIN" /\ Loaded(host)
  <2>1. Standing(5)
    BY <1>3, <1>5, Ranks
  <2>. QED BY <1>2, <1>5, <2>1, Loadeds
<1>6. CASE host.at = "EXEC" /\ host' = [host EXCEPT !.at = "console"] /\ UNCHANGED toCon
  <2>. DEFINE g == [host EXCEPT !.at = "console"]
  <2>1. Standing(6) /\ Level(host.at) = 6 /\ Level("console") = 7
    BY <1>3, <1>6, Ranks, Levels
  <2>2. /\ g \in Hosts /\ g.sock = host.sock /\ g.n = host.n /\ g.job = host.job /\ g.link
        /\ g.port = host.port /\ g.img = host.img /\ g.at = "console" /\ host.img = "prog"
    BY <1>2, <1>6 DEF Hosts, Phases, InTouch, HostOK
  <2>3. host' = g /\ toCon' \in {toCon, Sent(host, "RETV")}
    BY <1>6
  <2>4. "RETV" \in Commands /\ Rank("RETV") = Level(g.at) /\ Level(host.at) <= Level(g.at)
        /\ Standing(Level(g.at) - 1)
    BY <2>1, <2>2, Ranks DEF Commands
  <2>5. Kin(g)
    BY <2>2 DEF Kin
  <2>. HIDE DEF g
  <2>. QED BY <1>1, <1>2, <2>2, <2>3, <2>4, <2>5, Goes
<1>. QED BY <1>4, <1>5, <1>6 DEF RecvAck

LEMMA StepServe ==
    ASSUME InTouch, Serve
    PROVE  InTouch'
<1>1. /\ toHost # << >> /\ Takes(Head(toHost)) /\ Consume /\ UNCHANGED spent
      /\ host.at = "console"
  BY DEF Serve, Got
<1>2. Same /\ host.link /\ Kin(host) /\ host \in Hosts
  BY <1>1, Reads
<1>3. CASE toCon' = Sent(host, "RETV") /\ UNCHANGED host
  <2>1. /\ "RETV" \in Commands /\ Rank("RETV") = Level(host.at) /\ Level(host.at) = 7
    BY <1>1, Ranks, Levels DEF Commands
  <2>2. host.img = "prog" /\ Standing(Level(host.at) - 1)
    BY <1>1, <1>2 DEF InTouch, HostOK, AnswersOK
  <2>. QED BY <1>1, <1>2, <1>3, <2>1, <2>2, Goes
<1>4. CASE Finish(host, "ok")
  BY <1>1, <1>2, <1>4, Finishes
<1>. QED BY <1>3, <1>4 DEF Serve

LEMMA StepIgnore ==
    ASSUME InTouch, Ignore
    PROVE  InTouch'
<1>. DEFINE a == Head(toHost)
<1>1. /\ toHost # << >> /\ Consume /\ UNCHANGED spent /\ Shapes
      /\ Takes(a) => Unexpected(a)
  BY DEF Ignore, InTouch
<1>2. spent' \in Counts
  BY <1>1 DEF Shapes
<1>3. Same /\ a \in Answers
  BY <1>1, <1>2, Consumes DEF Consume, Same
<1>4. ~(Takes(a) /\ host.at = "VERS")
  <2>. SUFFICES ASSUME Takes(a), host.at = "VERS" PROVE FALSE
    OBVIOUS
  <2>1. Rank(a.id) <= 1
    BY <1>1, Gets, Levels
  <2>2. a.id = "VERS"
    <3>1. a.id \in Replies
      BY <1>3 DEF Answers
    <3>2. \A id \in Replies : Rank(id) <= 1 => id = "VERS"
      BY Ranks DEF Replies
    <3>. QED BY <2>1, <3>1, <3>2
  <2>. QED BY <1>1, <2>2 DEF Unexpected
<1>5. host' = host /\ toCon' = toCon
  BY <1>4 DEF Ignore
<1>. QED BY <1>3, <1>5, Idles

\* The search goes on.
LEMMA Searches ==
    ASSUME InTouch, Same, host.at = "FIND", host.link, NEW g, Kin(g), host' = g,
           g.at = "FIND", g.img = host.img, g.ver = "none", toCon' = Sent(host, "FIND")
    PROVE  InTouch'
<1>1. Shapes /\ WayOK /\ host \in Hosts /\ g \in Hosts
  BY DEF InTouch, Shapes, Kin
<1>2. Level("FIND") = 1 /\ Level(host.at) = 1 /\ Level(g.at) = 1
  BY Levels
<1>3. Upto(host.sock, 1)
  BY <1>2, Behind
<1>4. PICK S : /\ Adds(S, host.sock, 1)
               /\ \A d \in S : d.n = host.n /\ d.img = host.img
  BY <1>1, <1>3, SendsProbes
<1>5. \A d \in S : d.n = g.n /\ d.img = g.img
  BY <1>4 DEF Kin
<1>6. Adds(S, g.sock, Level(g.at))
  BY <1>2, <1>4 DEF Kin
<1>7. /\ Level(host.at) <= Level(g.at)
      /\ g.at \in Legs \cup {"console"}
  BY <1>2 DEF Legs
<1>8. ~(Level(g.at) > 1) /\ ~(Level(g.at) > 4) /\ ~(Level(g.at) > 5) /\ ~(Level(g.at) > 6)
  BY <1>2
<1>. QED BY <1>1, <1>5, <1>6, <1>7, <1>8, Advances DEF Same, Kin

LEMMA StepResend ==
    ASSUME InTouch, Resend
    PROVE  InTouch'
<1>. DEFINE g == [host EXCEPT !.tries = @ - 1]
<1>1. /\ Shapes /\ WayOK /\ host \in Hosts /\ host.at \in Legs /\ host.tries > 0 /\ host.link
      /\ Kin(host)
  BY DEF Resend, InTouch, Shapes, HostOK, Kin
<1>2. /\ Kin(g) /\ g.at = host.at /\ g.img = host.img /\ g.ver = host.ver /\ g \in Hosts
  <2>. DEFINE t == host.tries - 1
  <2>1. t \in 0 .. MaxTries
    BY <1>1, Consts DEF Hosts
  <2>. HIDE DEF t
  <2>2. LET x == [host EXCEPT !.tries = t]
        IN  /\ x \in Hosts /\ x.at = host.at /\ x.img = host.img /\ x.ver = host.ver
            /\ x.sock = host.sock /\ x.n = host.n /\ x.job = host.job /\ x.port = host.port
            /\ x.link = host.link
    BY <1>1, <2>1 DEF Hosts
  <2>. QED BY <1>1, <2>2 DEF t, Kin
<1>3. host' = g /\ toCon' = Sent(host, host.at)
  BY DEF Resend
<1>4. Same
  <2>1. spent' = spent \/ spent' = [spent EXCEPT !.late = @ + 1]
    BY DEF Resend
  <2>2. spent' \in Counts /\ spent'.socks = spent.socks /\ spent'.runs = spent.runs
    BY <1>1, <2>1 DEF Shapes, Counts
  <2>. QED BY <1>1, <2>2 DEF Resend, Same, Steady, Coming, Shapes
<1>5. /\ host.at \in {"FIND", "VERS"} => host.ver = "none"
      /\ host.at \in {"EXEC", "console"} => host.img = "prog"
      /\ host.at # "FIND" => Standing(Level(host.at) - 1)
  BY <1>1 DEF InTouch, HostOK, AnswersOK
<1>. HIDE DEF g
<1>6. CASE host.at # "FIND"
  <2>1. /\ host.at \in Commands /\ Rank(host.at) = Level(host.at) /\ Level(host.at) <= Level(g.at)
        /\ Level(g.at) = Level(host.at)
    BY <1>1, <1>2, <1>6, Ranks, Levels DEF Commands, Legs
  <2>2. Rank(host.at) = Level(g.at) /\ Standing(Level(g.at) - 1)
    BY <1>5, <1>6, <2>1
  <2>. QED BY <1>1, <1>2, <1>3, <1>4, <1>5, <1>6, <2>1, <2>2, Goes
<1>7. CASE host.at = "FIND"
  BY <1>1, <1>2, <1>3, <1>4, <1>5, <1>7, Searches
<1>. QED BY <1>6, <1>7

LEMMA StepGiveUp ==
    ASSUME InTouch, GiveUp
    PROVE  InTouch'
<1>1. /\ Shapes /\ host \in Hosts /\ host.at \in Legs /\ host.link /\ Kin(host) /\ host.at # "off"
  BY DEF GiveUp, InTouch, Shapes, HostOK, Kin, Legs
<1>2. Same
  BY <1>1 DEF GiveUp, Same, Steady, Coming, Shapes
<1>3. CASE Finish(host, "failed")
  BY <1>1, <1>2, <1>3, Finishes
<1>4. CASE /\ host.at = "VERS" /\ host.left > 0 /\ UNCHANGED toCon
           /\ host' = [host EXCEPT !.at = "settle", !.link = FALSE]
  <2>. DEFINE g == [host EXCEPT !.at = "settle", !.link = FALSE]
  <2>1. /\ g \in Hosts /\ g.sock = host.sock /\ g.n = host.n /\ ~g.link
        /\ g.at = "settle" /\ g.ver = "none" /\ g.left > 0
    BY <1>1, <1>4 DEF Hosts, Phases, InTouch, HostOK
  <2>2. host' = g
    BY <1>4
  <2>. HIDE DEF g
  <2>. QED BY <1>1, <1>2, <1>4, <2>1, <2>2, Ends
<1>5. CASE host.at = "CAPS" /\ Connected(host)
  <2>1. Standing(1)
    BY <1>1, <1>5, Levels DEF InTouch, AnswersOK
  <2>2. Early
    BY <1>1, <1>5, <2>1 DEF Early, Standing
  <2>. QED BY <1>1, <1>2, <1>5, <2>2, Connects
<1>6. CASE host.at = "SBIN" /\ Command(host)
  <2>1. Standing(2)
    BY <1>1, <1>6, Levels DEF InTouch, AnswersOK
  <2>2. Early
    BY <1>1, <1>6, <2>1 DEF Early, Standing
  <2>. QED BY <1>1, <1>2, <1>6, <2>2, Chooses
<1>. QED BY <1>3, <1>4, <1>5, <1>6 DEF GiveUp

LEMMA StepKill ==
    ASSUME InTouch, Kill
    PROVE  InTouch'
<1>. DEFINE g == [host EXCEPT !.at = "done", !.link = FALSE, !.told = "killed"]
<1>1. /\ Shapes /\ host \in Hosts /\ host.at # "off" /\ host' = g /\ toCon' = toCon
  BY DEF Kill, InTouch, Shapes
<1>2. spent' \in Counts /\ spent'.socks = spent.socks /\ spent'.runs = spent.runs
  BY DEF Kill, InTouch, Shapes, Counts
<1>3. Same
  BY <1>1, <1>2 DEF Kill, Same, Steady, Coming, Shapes
<1>4. g \in Hosts /\ g.sock = host.sock /\ g.n = host.n /\ ~g.link /\ g.at = "done"
  BY <1>1 DEF Hosts, Phases
<1>. HIDE DEF g
<1>. QED BY <1>1, <1>3, <1>4, Ends

-----------------------------------------------------------------------------
(* The steps of the console and of the network.                            *)

\* Some datagrams leave the way to the console.
Drained ==
    /\ host' = host /\ spent' \in Counts /\ spent'.socks = spent.socks /\ spent'.runs = spent.runs
    /\ toCon' \in Seq(Datagrams) /\ Sorted(toCon)' /\ Way' \subseteq Way

LEMMA Drains ==
    ASSUME InTouch, Drained
    PROVE  /\ HostOK' /\ WayOK'
           /\ \A n : Launched(n)' <=> Launched(n)
           /\ \A s, r : Past(s, r) => Past(s, r)'
           /\ Left /\ con'.tool = con.tool => Left'
<1>1. HostOK'
  BY DEF InTouch, Drained, HostOK
<1>2. \A n : Launched(n)' <=> Launched(n)
  BY DEF Drained, Launched
<1>3. \A m : Current(m)' <=> Current(m)
  BY DEF Drained, Current
<1>4. WayOK'
  BY <1>2, <1>3 DEF InTouch, Drained, WayOK
<1>. QED BY <1>1, <1>2, <1>4 DEF Drained, Past, Left

\* What the console has of a session stays so if what it reads is of that session.
LEMMA KeepsAnswers ==
    ASSUME InTouch, host' = host, NEW x, Coming' \subseteq Coming \cup {x}, x.to <= host.sock,
           host.link /\ host.at # "FIND" =>
             /\ \A r \in 0 .. 8 : Standing(r) => Standing(r)'
             /\ x.to = host.sock => Rank(x.id) <= Level(host.at) /\ Standing(Rank(x.id))'
    PROVE  AnswersOK'
<1>1. AnswersOK /\ Level(host.at) - 1 \in 0 .. 8 /\ \A a \in Coming : Rank(a.id) \in 0 .. 8
  BY Levels, Ranks DEF InTouch
<1>. QED BY <1>1 DEF AnswersOK

LEMMA Replied ==
    ASSUME Shapes, NEW m \in Datagrams, NEW id \in Replies, NEW from \in Ports,
           Reply(m, id, from)
    PROVE  /\ toHost' \in Seq(Answers)
           /\ \E x \in Answers : Coming' \subseteq Coming \cup {x} /\ x.to = m.sock /\ x.id = id
<1>. DEFINE x == [id |-> id, to |-> m.sock, from |-> from, n |-> m.n,
                  img |-> m.img, ver |-> con.loader, dhcp |-> con.dhcp]
            q == toHost
<1>1. x \in Answers /\ x.to = m.sock /\ x.id = id
  BY DEF Shapes, Answers, Datagrams, Consoles
<1>2. toHost' = Append(q, x) /\ q \in Seq(Answers)
  BY DEF Reply, Shapes
<1>. HIDE DEF x, q
<1>3. Append(q, x) \in Seq(Answers) /\ Len(Append(q, x)) = Len(q) + 1 /\ Len(q) \in Nat
      /\ \A i \in 1 .. Len(q) + 1 : Append(q, x)[i] = IF i <= Len(q) THEN q[i] ELSE x
  BY <1>1, <1>2
<1>4. Coming' \subseteq Coming \cup {x}
  <2>1. \A i \in 1 .. Len(q) + 1 : i \in 1 .. Len(q) \/ ~(i <= Len(q))
    BY <1>3
  <2>2. \A i \in 1 .. Len(q) : i <= Len(q) /\ i \in 1 .. Len(q) + 1
    BY <1>3
  <2>. QED BY <1>2, <1>3, <2>1, <2>2 DEF Coming, q
<1>. QED BY <1>1, <1>2, <1>3, <1>4

\* A console that knows of the tool reads only what that tool has sent.
LEMMA Ours ==
    ASSUME InTouch, host.link, host.at # "FIND", NEW m \in Way
    PROVE  /\ Greeted => m.sock = host.sock
           /\ m.sock = host.sock => Current(m) /\ Rank(m.id) <= Level(host.at) /\ m.n = host.n
           /\ m.sock = host.sock => \A r \in 0 .. 8 : r < Rank(m.id) => Standing(r)
           /\ m.sock <= host.sock
<1>1. m.sock \in Nat /\ host.sock \in Nat /\ WayOK /\ AnswersOK
  BY WayTypes DEF InTouch
<1>2. Greeted => m.sock = host.sock
  BY <1>1 DEF Greeted, Past, Beyond, WayOK
<1>3. m.sock = host.sock => Current(m) /\ Rank(m.id) <= Level(host.at) /\ m.n = host.n
  BY <1>1 DEF WayOK, Current
<1>4. ASSUME m.sock = host.sock, NEW r \in 0 .. 8, r < Rank(m.id) PROVE Standing(r)
  <2>1. Standing(Level(host.at) - 1)
    BY <1>1 DEF AnswersOK
  <2>2. r <= Level(host.at) - 1 /\ Level(host.at) \in 1 .. 8
    BY <1>3, <1>4, Levels, Ranks
  <2>. QED BY <2>1, <2>2 DEF Standing
<1>. QED BY <1>1, <1>2, <1>3, <1>4 DEF WayOK

\* Commands that touch neither the memory nor a program.
LEMMA Leaves ==
    ASSUME InTouch, Drained, con'.mem = con.mem, con'.at = con.at, con'.run = con.run,
           con'.tool = con.tool, con'.good = con.good, con.at # "booting" \/ toCon' = << >>
    PROVE  MemOK' /\ RunOK'
<1>1. /\ \A n : Launched(n)' <=> Launched(n)
      /\ \A s, r : Past(s, r) => Past(s, r)'
      /\ Left => Left'
      /\ Way' \subseteq Way /\ host' = host
  BY Drains DEF Drained
<1>2. MemOK'
  BY <1>1 DEF InTouch, MemOK, Holding
<1>3. RunOK'
  BY <1>1 DEF InTouch, RunOK, RunsWhole, Owner
<1>. QED BY <1>2, <1>3

LEMMA Builds ==
    ASSUME InTouch, Drained, con' \in Consoles, toHost' \in Seq(Answers),
           MemOK', RunOK', AnswersOK'
    PROVE  InTouch'
<1>1. Shapes'
  BY DEF Shapes, Drained, InTouch
<1>. QED BY <1>1, Drains DEF InTouch

\* The console has read m, and what is left follows it.
Reading(m) == /\ Drained /\ m \in Way /\ m \in Datagrams /\ con.at \in {"idle", "waiting"}
              /\ \A k \in Way' : Beyond(k, m.sock, Rank(m.id))

\* Answers of the same rank as the command, or none, and nothing else undone.
LEMMA Answered ==
    ASSUME InTouch, NEW m, Reading(m), NEW id \in Replies, NEW from \in Ports,
           Reply(m, id, from), Rank(id) = Rank(m.id), con' \in Consoles, MemOK', RunOK',
           host.link /\ host.at # "FIND" /\ m.sock = host.sock =>
              /\ \A r \in 0 .. 8 : Standing(r) => Standing(r)'
              /\ Standing(Rank(m.id))'
    PROVE  InTouch'
<1>1. Shapes /\ m \in Datagrams /\ Drained /\ m \in Way
  BY DEF InTouch, Reading
<1>2. PICK x \in Answers : Coming' \subseteq Coming \cup {x} /\ x.to = m.sock /\ x.id = id
  BY <1>1, Replied
<1>3. toHost' \in Seq(Answers) /\ host' = host /\ m.sock <= host.sock
  BY <1>1, Replied DEF Drained, InTouch, WayOK
<1>4. ASSUME host.link, host.at # "FIND"
      PROVE  /\ \A r \in 0 .. 8 : Standing(r) => Standing(r)'
             /\ m.sock = host.sock => Rank(x.id) <= Level(host.at) /\ Standing(Rank(x.id))'
  <2>1. CASE m.sock = host.sock
    BY <1>1, <1>2, <1>4, <2>1, Ours
  <2>2. CASE m.sock # host.sock
    <3>1. ~Greeted
      BY <1>1, <1>4, <2>2, Ours
    <3>. QED BY <2>2, <3>1 DEF Standing
  <2>. QED BY <2>1, <2>2
<1>5. AnswersOK'
  BY <1>2, <1>3, <1>4, KeepsAnswers
<1>. QED BY <1>1, <1>3, <1>5, Builds

\* What reading m means for the session of the tool.
LEMMA ReadOurs ==
    ASSUME InTouch, NEW m, Reading(m), host.link, host.at # "FIND", m.sock = host.sock
    PROVE  /\ Current(m) /\ m.n = host.n /\ Rank(m.id) \in 1 .. 8 /\ host.sock \in Nat
           /\ Rank(m.id) <= Level(host.at) /\ Level(host.at) <= 7 /\ host' = host
           /\ \A r \in 0 .. 8 : r < Rank(m.id) => Standing(r)
           /\ \A r \in 0 .. 8 : r <= Rank(m.id) => Past(host.sock, r)'
           /\ \A s, r : Past(s, r) => Past(s, r)'
           /\ \A r \in 0 .. 8 : Rank(m.id) < r => ~Past(host.sock, r)
<1>1. /\ m \in Way /\ Drained /\ host.sock \in Nat /\ Rank(m.id) \in 1 .. 8
      /\ \A k \in Way' : k.sock \in Nat /\ Rank(k.id) \in 1 .. 8
      /\ Level(host.at) <= 7
  BY WayTypes, Ranks, Levels DEF InTouch, Reading, Drained, HostOK
<1>2. ASSUME NEW r \in 0 .. 8, r <= Rank(m.id) PROVE Past(host.sock, r)'
  <2>1. host' = host /\ \A k \in Way' : Beyond(k, host.sock, Rank(m.id))
    BY <1>1 DEF Reading, Drained
  <2>2. \A k \in Way' : Beyond(k, host.sock, r)
    BY <1>1, <1>2, <2>1 DEF Beyond
  <2>. QED BY <2>1, <2>2 DEF Past
<1>3. ASSUME NEW r \in 0 .. 8, Rank(m.id) < r PROVE ~Past(host.sock, r)
  BY <1>1, <1>3 DEF Past, Beyond
<1>. QED BY <1>1, <1>2, <1>3, Drains, Ours DEF Drained

LEMMA ReadTypes ==
    ASSUME InTouch, NEW m, Reading(m)
    PROVE  /\ Shapes /\ m \in Datagrams /\ con \in Consoles /\ con.mem \in Memories
           /\ con.port \in Ports /\ m.sock \in Nat /\ m.n \in Nat /\ m.v \in Nat
           /\ m.port \in Ports /\ m.img \in Images /\ con.at # "booting"
           /\ Drained /\ m \in Way
BY DEF InTouch, Shapes, Reading, Datagrams, Consoles

LEMMA StepVersion ==
    ASSUME InTouch, NEW m, Reading(m), m.id = "VERS", CmdVersion(m)
    PROVE  InTouch'
<1>. DEFINE port == IF m.v < 2 THEN "legacy" ELSE m.port
<1>1. /\ con' = [con EXCEPT !.v = m.v, !.port = port] /\ Reply(m, "VERS", port)
  BY DEF CmdVersion
<1>2. /\ Shapes /\ m \in Datagrams /\ con \in Consoles /\ port \in Ports /\ m.v \in Nat
      /\ con.at # "booting" /\ Drained
  BY ReadTypes DEF Ports
<1>3. "VERS" \in Replies /\ Rank("VERS") = Rank(m.id) /\ Rank(m.id) = 1
  BY Ranks DEF Replies
<1>4. ASSUME host.link, host.at # "FIND", m.sock = host.sock
      PROVE  port = host.port /\ m.v = Version(host)
  <2>1. m.port = host.port /\ m.v = Version(host) /\ host.port = PortOf(host.job)
    BY <1>4, ReadOurs DEF Current, InTouch, HostOK
  <2>. QED BY <2>1 DEF Version, PortOf
<1>. HIDE DEF port
<1>5. /\ con' \in Consoles /\ con'.mem = con.mem /\ con'.at = con.at /\ con'.run = con.run
      /\ con'.tool = con.tool /\ con'.good = con.good /\ con'.v = m.v /\ con'.port = port
  BY <1>1, <1>2 DEF Consoles
<1>6. MemOK' /\ RunOK'
  BY <1>2, <1>5, Leaves
<1>7. ASSUME host.link, host.at # "FIND", m.sock = host.sock
      PROVE  /\ \A r \in 0 .. 8 : Standing(r) => Standing(r)'
             /\ Standing(1)'
  <2>1. /\ host' = host /\ \A s, r : Past(s, r) => Past(s, r)'
        /\ Past(host.sock, 1)'
    BY <1>3, <1>7, ReadOurs
  <2>2. Greeted'
    BY <1>2, <1>4, <1>5, <1>7, <2>1 DEF Greeted, Version
  <2>. QED BY <1>5, <2>1, <2>2 DEF Standing, Taken, Whole, Started
<1>. QED BY <1>1, <1>2, <1>3, <1>5, <1>6, <1>7, Answered

\* The console answers a question without a change of its own.
LEMMA StepQuestion ==
    ASSUME InTouch, NEW m, Reading(m), m.id \in {"CAPS", "SBIN"},
           m.id = "CAPS" => CmdCapabilities(m), m.id = "SBIN" => CmdSendbin(m)
    PROVE  InTouch'
<1>1. PICK from \in Ports : Reply(m, m.id, from) /\ con' = con
  BY ReadTypes DEF CmdCapabilities, CmdSendbin
<1>2. /\ Shapes /\ m \in Datagrams /\ con \in Consoles /\ con.at # "booting" /\ Drained
  BY ReadTypes
<1>3. m.id \in Replies /\ Rank(m.id) \in {2, 3}
  BY Ranks DEF Replies
<1>4. MemOK' /\ RunOK'
  BY <1>1, <1>2, Leaves
<1>5. ASSUME host.link, host.at # "FIND", m.sock = host.sock
      PROVE  /\ \A r \in 0 .. 8 : Standing(r) => Standing(r)'
             /\ Standing(Rank(m.id))'
  <2>1. /\ host' = host /\ \A s, r : Past(s, r) => Past(s, r)'
        /\ Standing(1)
    BY <1>3, <1>5, ReadOurs
  <2>2. \A r \in 0 .. 8 : Standing(r) => Standing(r)'
    BY <1>1, <2>1 DEF Standing, Greeted, Taken, Whole, Started, Version
  <2>. QED BY <1>3, <2>1, <2>2 DEF Standing
<1>. QED BY <1>1, <1>2, <1>3, <1>4, <1>5, Answered

LEMMA StepLoadbin ==
    ASSUME InTouch, NEW m, Reading(m), m.id = "LBIN", CmdLoadbin(m)
    PROVE  InTouch'
<1>. DEFINE mem == [n |-> m.n, img |-> m.img, whole |-> FALSE, used |-> FALSE]
<1>1. con' = [con EXCEPT !.mem = mem] /\ Reply(m, "LBIN", m.port)
  BY DEF CmdLoadbin
<1>2. /\ Shapes /\ m \in Datagrams /\ con \in Consoles /\ m.port \in Ports /\ m.sock \in Nat
      /\ m.n \in Nat /\ m.img \in Images /\ con.at # "booting" /\ Drained /\ m \in Way
      /\ con.tool \in Nat /\ host.sock \in Nat /\ \A k \in Way : k.sock \in Nat
  BY ReadTypes, WayTypes
<1>3. /\ "LBIN" \in Replies /\ Rank("LBIN") = Rank(m.id) /\ Rank(m.id) = 4
      /\ Rank("DBIN") = 5 /\ Rank("EXEC") = 6
  BY Ranks DEF Replies
<1>4. /\ mem \in Memories /\ mem.n = m.n /\ mem.img = m.img /\ ~mem.used
  BY <1>2 DEF Memories
<1>. HIDE DEF mem
<1>5. /\ con' \in Consoles /\ con'.mem = mem /\ con'.at = con.at /\ con'.run = con.run
      /\ con'.tool = con.tool /\ con'.good = con.good /\ con'.v = con.v /\ con'.port = con.port
  BY <1>1, <1>2, <1>4 DEF Consoles
<1>6. /\ host' = host /\ Way' \subseteq Way
      /\ \A s, r : Past(s, r) => Past(s, r)'
      /\ \A n : Launched(n)' <=> Launched(n)
      /\ Left => Left'
  BY <1>2, <1>5, Drains DEF Drained
<1>7. MemOK'
  <2>1. ASSUME NEW k \in Way', k.id \in {"DBIN", "EXEC"}
        PROVE  k.id = "DBIN" /\ k.n = m.n /\ k.img = m.img /\ Past(k.sock, 4)'
    <3>4. Past(k.sock, 5) => Past(k.sock, 4)
      <4>1. \A j \in Way : Rank(j.id) \in 1 .. 8
        BY Ranks
      <4>. QED BY <1>2, <4>1 DEF Past, Beyond
    <3>1. k \in Way /\ Past(k.sock, 4) /\ (k.id = "EXEC" => Past(k.sock, 5)) /\ k.sock >= m.sock
      <4>1. k \in Way /\ k.sock \in Nat /\ Beyond(k, m.sock, 4)
        BY <1>2, <1>3, <1>6, <2>1 DEF Reading
      <4>2. (k.id = "DBIN" => Past(k.sock, 4)) /\ (k.id = "EXEC" => Past(k.sock, 5))
        BY <4>1 DEF InTouch, MemOK
      <4>3. k.sock >= m.sock
        BY <1>2, <4>1 DEF Beyond
      <4>. QED BY <2>1, <3>4, <4>1, <4>2, <4>3
    <3>2. k.sock = m.sock /\ k.id = "DBIN"
      BY <1>2, <1>3, <2>1, <3>1 DEF Past, Beyond
    <3>3. Mates(m, k)
      BY <1>2, <3>1 DEF InTouch, WayOK
    <3>. QED BY <1>3, <1>6, <3>1, <3>2, <3>3 DEF Mates
  <2>. QED BY <1>4, <1>5, <2>1 DEF MemOK, Holding
<1>8. RunOK'
  <2>1. con.at = "waiting" => Left'
    <3>. SUFFICES ASSUME con.at = "waiting", Past(con.tool, 6) PROVE Left'
      BY <1>6 DEF InTouch, RunOK, Owner
    <3>1. con.tool < m.sock /\ m.sock <= host.sock
      BY <1>2, <1>3 DEF Past, Beyond, InTouch, WayOK
    <3>2. \A k \in Way' : m.sock <= k.sock
      BY <1>2, <1>6 DEF Reading, Beyond
    <3>. QED BY <1>2, <1>5, <1>6, <3>1, <3>2 DEF Left
  <2>2. con.at # "running"
    BY DEF Reading
  <2>. QED BY <1>2, <1>4, <1>5, <1>6, <2>1, <2>2 DEF InTouch, RunOK, RunsWhole
<1>9. ASSUME host.link, host.at # "FIND", m.sock = host.sock
      PROVE  /\ \A r \in 0 .. 8 : Standing(r) => Standing(r)'
             /\ Standing(4)'
  <2>1. /\ m.n = host.n /\ m.img = host.img /\ Past(host.sock, 4)' /\ ~Past(host.sock, 5)
        /\ Standing(3)
    BY <1>3, <1>9, ReadOurs DEF Current
  <2>2. Greeted' /\ Taken'
    BY <1>4, <1>5, <1>6, <2>1 DEF Standing, Greeted, Taken, Version
  <2>. QED BY <2>1, <2>2 DEF Standing, Whole
<1>. QED BY <1>1, <1>2, <1>3, <1>5, <1>7, <1>8, <1>9, Answered

LEMMA StepDonebin ==
    ASSUME InTouch, NEW m, Reading(m), m.id = "DBIN", CmdDonebin(m)
    PROVE  InTouch'
<1>1. /\ Shapes /\ m \in Datagrams /\ con \in Consoles /\ m.port \in Ports
      /\ con.mem \in Memories /\ con.at # "booting" /\ Drained /\ m \in Way
  BY ReadTypes
<1>2. "DBIN" \in Replies /\ Rank("DBIN") = Rank(m.id) /\ Rank(m.id) = 5
  BY Ranks DEF Replies
<1>3. con.mem.n = m.n /\ con.mem.img = m.img
  BY <1>1 DEF InTouch, MemOK, Holding
<1>4. con' = [con EXCEPT !.mem.whole = TRUE] /\ Reply(m, "DBIN", m.port)
  BY <1>3 DEF CmdDonebin
<1>5. /\ con' \in Consoles /\ con'.mem.n = con.mem.n /\ con'.mem.img = con.mem.img
      /\ con'.mem.whole /\ con'.mem.used = con.mem.used /\ con'.at = con.at /\ con'.run = con.run
      /\ con'.tool = con.tool /\ con'.good = con.good /\ con'.v = con.v /\ con'.port = con.port
  BY <1>1, <1>4 DEF Consoles, Memories
<1>6. /\ host' = host /\ Way' \subseteq Way
      /\ \A s, r : Past(s, r) => Past(s, r)'
      /\ \A n : Launched(n)' <=> Launched(n)
      /\ Left => Left'
  BY <1>1, <1>5, Drains DEF Drained
<1>7. MemOK'
  BY <1>5, <1>6 DEF InTouch, MemOK, Holding
<1>8. RunOK'
  BY <1>1, <1>5, <1>6 DEF InTouch, RunOK, RunsWhole, Owner
<1>9. ASSUME host.link, host.at # "FIND", m.sock = host.sock
      PROVE  /\ \A r \in 0 .. 8 : Standing(r) => Standing(r)'
             /\ Standing(5)'
  <2>1. Past(host.sock, 5)' /\ Standing(4)
    BY <1>2, <1>9, ReadOurs
  <2>2. \A r \in 0 .. 8 : Standing(r) => Standing(r)'
    BY <1>5, <1>6 DEF Standing, Greeted, Taken, Whole, Started, Version
  <2>. QED BY <1>5, <1>6, <2>1, <2>2 DEF Standing, Whole
<1>. QED BY <1>1, <1>2, <1>4, <1>5, <1>7, <1>8, <1>9, Answered

\* A program that has not been started is as it was sent.
LEMMA Ready ==
    ASSUME InTouch, NEW m, Reading(m), m.id = "EXEC", con.at = "idle"
    PROVE  /\ con.mem = [n |-> m.n, img |-> m.img, whole |-> TRUE, used |-> FALSE]
           /\ Holding(m) /\ ~con.mem.used
<1>1. con.mem \in Memories /\ m \in Way
  BY ReadTypes
<1>2. Holding(m) /\ con.mem.whole /\ ~con.mem.used
  BY <1>1 DEF InTouch, MemOK, RunOK
<1>. QED BY <1>1, <1>2 DEF Memories, Holding

\* EXECUTE starts the program.
LEMMA StepRuns ==
    ASSUME InTouch, NEW m, Reading(m), m.id = "EXEC", con.at = "idle", m.img = "prog",
           con' = [con EXCEPT !.at = "running", !.run = m.n, !.good = TRUE,
                              !.tool = m.sock, !.calls = 0, !.mem.used = TRUE],
           Reply(m, "EXEC", m.port)
    PROVE  InTouch'
<1>1. /\ Shapes /\ m \in Datagrams /\ con \in Consoles /\ m.port \in Ports
      /\ con.mem \in Memories /\ Drained /\ m \in Way /\ m.sock \in Nat /\ m.n \in Nat
  BY ReadTypes
<1>2. /\ "EXEC" \in Replies /\ Rank("EXEC") = Rank(m.id) /\ Rank(m.id) = 6
  BY Ranks DEF Replies
<1>3. Holding(m)
  BY Ready
<1>5. /\ con' \in Consoles /\ con'.mem.n = con.mem.n /\ con'.mem.img = con.mem.img
      /\ con'.mem.whole = con.mem.whole /\ con'.mem.used /\ con'.at = "running"
      /\ con'.run = m.n /\ con'.tool = m.sock /\ con'.good /\ con'.v = con.v
      /\ con'.port = con.port
  BY <1>1 DEF Consoles, Memories
<1>6. /\ host' = host /\ Way' \subseteq Way
      /\ \A s, r : Past(s, r) => Past(s, r)'
      /\ \A n : Launched(n)' <=> Launched(n)
  BY <1>1, Drains DEF Drained
<1>7. MemOK'
  BY <1>5, <1>6 DEF InTouch, MemOK, Holding
<1>8. RunOK'
  <2>1. Launched(m.n) /\ m.sock <= host.sock
    BY <1>1 DEF InTouch, WayOK
  <2>2. Owner'
    <3>1. Past(m.sock, 6)'
      BY <1>2 DEF Past, Reading
    <3>. QED BY <1>3, <1>5, <3>1 DEF Owner, Holding
  <2>3. m.sock = host.sock /\ host.link => host.at \in {"EXEC", "console"} /\ m.n = host.n
    <3>1. m.sock = host.sock /\ host.link => Current(m) /\ host.at \in Legs \cup {"console"}
      BY <1>1 DEF InTouch, WayOK, HostOK
    <3>. QED BY <1>2, <3>1, Levels DEF Current
  <2>. QED BY <1>3, <1>5, <1>6, <2>1, <2>2, <2>3 DEF RunOK, RunsWhole, Holding
<1>9. ASSUME host.link, host.at # "FIND", m.sock = host.sock
      PROVE  /\ \A r \in 0 .. 8 : Standing(r) => Standing(r)'
             /\ Standing(6)'
  <2>1. Past(host.sock, 6)' /\ Standing(5) /\ m.n = host.n
    BY <1>2, <1>9, ReadOurs
  <2>2. Started'
    BY <1>5, <1>6, <1>9, <2>1 DEF Started
  <2>3. \A r \in 0 .. 8 : Standing(r) => Standing(r)'
    BY <1>5, <1>6, <2>2 DEF Standing, Greeted, Taken, Whole, Version
  <2>4. Standing(5)'
    BY <2>1, <2>3
  <2>. QED BY <2>2, <2>3, <2>4 DEF Standing
<1>. QED BY <1>1, <1>2, <1>5, <1>7, <1>8, <1>9, Answered

\* The console starts anew, by an EXECUTE of a loader or by a reset: what was on its
\* way is lost, and the session of the tool is over.
LEMMA StepRestarts ==
    ASSUME InTouch, NEW m, Reading(m), toCon' = << >>, con' \in Consoles, con'.at = "booting",
           con'.good = con.good, con'.run = con.run, con'.tool \in {con.tool, m.sock},
           ~con'.mem.used, toHost' \in Seq(Answers),
           ~(m.sock = host.sock /\ host.link),
           \E x : Coming' \subseteq Coming \cup {x} /\ x.to = m.sock
    PROVE  InTouch'
<1>1. /\ Drained /\ m \in Way /\ con.at # "booting"
  BY ReadTypes
<1>2. /\ host' = host /\ Way' = {} /\ \A n : Launched(n)' <=> Launched(n)
  BY <1>1, Drains DEF Drained, Way
<1>3. MemOK'
  BY <1>2 DEF MemOK
<1>4. m.sock <= host.sock
  BY <1>1 DEF InTouch, WayOK
<1>5. RunOK'
  BY <1>2, <1>4 DEF InTouch, RunOK, RunsWhole
<1>6. ASSUME host.link, host.at # "FIND", NEW r \in 0 .. 8, Standing(r) PROVE Standing(r)'
  <2>1. ~Greeted
    BY <1>1, <1>6, Ours
  <2>. QED BY <1>6, <2>1 DEF Standing
<1>7. PICK x : Coming' \subseteq Coming \cup {x} /\ x.to = m.sock
  OBVIOUS
<1>8. AnswersOK'
  BY <1>2, <1>4, <1>6, <1>7, KeepsAnswers
<1>. QED BY <1>1, <1>3, <1>5, <1>8, Builds

LEMMA StepExecute ==
    ASSUME InTouch, NEW m, Reading(m), m.id = "EXEC", CmdExecute(m),
           con'.at \in {"booting", "dead"} => toCon' = << >>
    PROVE  InTouch'
<1>1. /\ Shapes /\ m \in Datagrams /\ con \in Consoles /\ m.port \in Ports /\ con.at # "booting"
      /\ con.mem \in Memories /\ Drained /\ m \in Way /\ m.sock \in Nat /\ m.n \in Nat
  BY ReadTypes
<1>. DEFINE good == con.mem = [n |-> m.n, img |-> m.img, whole |-> TRUE, used |-> FALSE]
<1>2. CASE con.at # "idle" /\ UNCHANGED <<con, toHost>>
  <2>1. MemOK' /\ RunOK'
    BY <1>1, <1>2, Leaves
  <2>2. \A r \in 0 .. 8 : Standing(r) => Standing(r)'
    BY <1>1, <1>2, Drains DEF Standing, Greeted, Taken, Whole, Started, Version, Drained
  <2>3. AnswersOK'
    <3>1. /\ \A a \in Coming : Rank(a.id) \in 0 .. 8
          /\ Level(host.at) - 1 \in 0 .. 8
      BY Ranks, Levels
    <3>. QED BY <1>1, <1>2, <2>2, <3>1 DEF InTouch, AnswersOK, Drained, Coming
  <2>. QED BY <1>1, <1>2, <2>1, <2>3, Builds DEF Shapes
<1>3. CASE /\ con.at = "idle" /\ m.img = "prog" /\ Reply(m, "EXEC", m.port)
           /\ con' = [con EXCEPT !.at = "running", !.run = m.n, !.good = good,
                                 !.tool = m.sock, !.calls = 0, !.mem.used = TRUE]
  <2>1. good = TRUE
    BY <1>3, Ready
  <2>. HIDE DEF good
  <2>. QED BY <1>3, <2>1, StepRuns
<1>4. CASE /\ con.at = "idle" /\ m.img # "prog" /\ Reply(m, "EXEC", m.port)
           /\ con' = [con EXCEPT !.at = IF good THEN "booting" ELSE "dead", !.tool = m.sock]
  <2>1. good /\ ~con.mem.used
    BY <1>4, Ready
  <2>2. con' = [con EXCEPT !.at = "booting", !.tool = m.sock]
    BY <1>4, <2>1
  <2>. HIDE DEF good
  <2>3. /\ con' \in Consoles /\ con'.at = "booting" /\ con'.good = con.good /\ con'.run = con.run
        /\ con'.tool = m.sock /\ con'.mem = con.mem
    BY <1>1, <2>2 DEF Consoles
  <2>4. ~(m.sock = host.sock /\ host.link)
    <3>. SUFFICES ASSUME m.sock = host.sock, host.link PROVE FALSE
      OBVIOUS
    <3>1. Current(m) /\ host.at \in Legs \cup {"console"} /\ Rank(m.id) = 6
      BY <1>1, Ranks DEF InTouch, WayOK, HostOK
    <3>2. host.at \in {"EXEC", "console"} /\ m.img = host.img
      BY <3>1, Levels DEF Current
    <3>. QED BY <1>4, <3>2 DEF InTouch, HostOK
  <2>5. "EXEC" \in Replies
    BY DEF Replies
  <2>6. PICK x \in Answers : Coming' \subseteq Coming \cup {x} /\ x.to = m.sock
    BY <1>1, <1>4, <2>5, Replied
  <2>7. toHost' \in Seq(Answers)
    BY <1>1, <1>4, <2>5, Replied
  <2>. QED BY <2>1, <2>3, <2>4, <2>6, <2>7, StepRestarts
<1>. QED BY <1>2, <1>3, <1>4 DEF CmdExecute

LEMMA StepReboot ==
    ASSUME InTouch, NEW m, Reading(m), m.id = "REBT", CmdReboot(m), toCon' = << >>
    PROVE  InTouch'
<1>1. /\ Shapes /\ con \in Consoles /\ Drained /\ m \in Way
  BY ReadTypes
<1>2. con.disc \in AllLoaders \X BOOLEAN /\ Empty \in Memories /\ ~Empty.used
  BY <1>1 DEF Consoles, Memories, Empty, Images
<1>. DEFINE l == con.disc[1]
            d == con.disc[2]
            e == Empty
<1>3. l \in AllLoaders /\ d \in BOOLEAN /\ e \in Memories
  BY <1>2
<1>4. con' = [con EXCEPT !.at = "booting", !.mem = e, !.loader = l, !.dhcp = d]
  BY DEF CmdReboot
<1>. HIDE DEF l, d, e
<1>5. /\ con' \in Consoles /\ con'.at = "booting" /\ con'.good = con.good /\ con'.run = con.run
      /\ con'.tool = con.tool /\ con'.mem = e
  BY <1>1, <1>3, <1>4 DEF Consoles
<1>6. ~(m.sock = host.sock /\ host.link)
  <2>. SUFFICES ASSUME m.sock = host.sock, host.link PROVE FALSE
    OBVIOUS
  <2>1. Current(m) /\ host.at \in Legs \cup {"console"} /\ Rank(m.id) = 8
    BY <1>1, Ranks DEF InTouch, WayOK, HostOK
  <2>. QED BY <2>1, Levels DEF Current
<1>7. toHost' = toHost /\ toHost' \in Seq(Answers)
  BY <1>1 DEF CmdReboot, Shapes
<1>8. \E x : Coming' \subseteq Coming \cup {x} /\ x.to = m.sock
  <2>1. Coming' = Coming
    BY <1>7 DEF Coming
  <2>. WITNESS [to |-> m.sock]
  <2>. QED BY <2>1
<1>9. ~con'.mem.used
  BY <1>2, <1>5 DEF e
<1>. QED BY <1>5, <1>6, <1>7, <1>8, <1>9, StepRestarts

\* A program goes on when the answer to its system call comes.
LEMMA StepRetval ==
    ASSUME InTouch, NEW m, Reading(m), m.id = "RETV", CmdRetval(m)
    PROVE  InTouch'
<1>1. /\ Shapes /\ con \in Consoles /\ Drained /\ m \in Way /\ con.at # "booting"
  BY ReadTypes
<1>2. /\ con' \in Consoles /\ con'.mem = con.mem /\ con'.run = con.run
      /\ con'.tool = con.tool /\ con'.good = con.good /\ con'.v = con.v /\ con'.port = con.port
      /\ \/ con'.at = con.at
         \/ con.at = "waiting" /\ con'.at = "running" /\ m.sock = con.tool
  BY <1>1 DEF CmdRetval, Consoles
<1>3. /\ host' = host /\ Way' \subseteq Way /\ toHost' = toHost
      /\ \A s, r : Past(s, r) => Past(s, r)'
      /\ \A n : Launched(n)' <=> Launched(n)
      /\ Left => Left'
  BY <1>1, <1>2, Drains DEF Drained, CmdRetval
<1>4. MemOK'
  BY <1>2, <1>3 DEF InTouch, MemOK, Holding
<1>5. RunOK'
  <2>1. CASE con'.at = con.at
    BY <1>1, <1>2, <2>1, Leaves
  <2>2. CASE con.at = "waiting" /\ con'.at = "running" /\ m.sock = con.tool
    <3>1. con.tool \in Nat /\ m \in Way
      BY <1>1, WayTypes
    <3>2. ~Left
      BY <2>2, <3>1 DEF Left
    <3>3. Owner
      BY <2>2, <3>2 DEF InTouch, RunOK
    <3>4. Owner'
      BY <1>2, <1>3, <3>3 DEF Owner
    <3>. QED BY <1>2, <1>3, <2>2, <3>4 DEF InTouch, RunOK, RunsWhole
  <2>. QED BY <1>2, <2>1, <2>2
<1>6. \A r \in 0 .. 8 : Standing(r) => Standing(r)'
  BY <1>1, <1>2, <1>3 DEF Standing, Greeted, Taken, Whole, Started, Version
<1>7. AnswersOK'
  <2>1. /\ \A a \in Coming : Rank(a.id) \in 0 .. 8
        /\ Level(host.at) - 1 \in 0 .. 8
    BY Ranks, Levels
  <2>. QED BY <1>3, <1>6, <2>1 DEF InTouch, AnswersOK, Coming
<1>. QED BY <1>1, <1>2, <1>3, <1>4, <1>5, <1>7, Builds DEF Shapes

LEMMA StepReceive ==
    ASSUME InTouch, Receive
    PROVE  InTouch'
<1>. DEFINE m == Head(toCon)
<1>1. /\ Shapes /\ WayOK /\ toCon # << >> /\ con.at \in {"idle", "waiting"}
      /\ host' = host /\ spent' = spent /\ spent \in Counts
  BY DEF InTouch, Shapes, Receive
<1>2. m \in Way /\ m \in Datagrams
  <2>1. toCon \in Seq(Datagrams)
    BY <1>1 DEF Shapes
  <2>. DEFINE q == toCon
  <2>. HIDE DEF q
  <2>2. q \in Seq(Datagrams) /\ q # << >> => Len(q) # 0
    BY EmptySeq
  <2>3. q \in Seq(Datagrams) /\ q # << >> => Head(q) = q[1] /\ 1 \in 1 .. Len(q) /\ q[1] \in Datagrams
    BY <2>2
  <2>. QED BY <1>1, <2>1, <2>3 DEF Way, q
<1>3. Reading(m) /\ (con'.at \in {"booting", "dead"} => toCon' = << >>)
  <2>1. CASE toCon' = Tail(toCon) /\ con'.at \notin {"booting", "dead"}
    BY <1>1, <2>1, TakesFirst DEF Reading, Drained
  <2>2. CASE toCon' = << >>
    <3>1. /\ toCon' \in Seq(Datagrams) /\ Len(toCon') = 0
      BY <2>2
    <3>2. Sorted(toCon)' /\ Way' = {}
      BY <3>1 DEF Sorted, Way
    <3>. QED BY <1>1, <1>2, <2>2, <3>1, <3>2 DEF Reading, Drained
  <2>. QED BY <2>1, <2>2 DEF Receive
<1>4. m.id \in Commands
  BY <1>2 DEF Datagrams
<1>. HIDE DEF m
<1>5. /\ m.id = "VERS" => CmdVersion(m)
      /\ m.id = "CAPS" => CmdCapabilities(m)
      /\ m.id = "SBIN" => CmdSendbin(m)
      /\ m.id = "LBIN" => CmdLoadbin(m)
      /\ m.id = "DBIN" => CmdDonebin(m)
      /\ m.id = "EXEC" => CmdExecute(m)
      /\ m.id = "REBT" => CmdReboot(m)
      /\ m.id = "RETV" => CmdRetval(m)
  BY <1>4 DEF Receive, Commands, m
<1>6. m.id = "REBT" => toCon' = << >>
  <2>1. m.id = "REBT" => con'.at = "booting"
    BY <1>1, <1>5 DEF CmdReboot, Shapes, Consoles
  <2>. QED BY <1>3, <2>1
<1>. QED BY <1>3, <1>4, <1>5, <1>6, StepVersion, StepQuestion, StepLoadbin, StepDonebin,
            StepExecute, StepReboot, StepRetval DEF Commands

LEMMA StepBoot ==
    ASSUME InTouch, Boot
    PROVE  InTouch'
<1>1. /\ Shapes /\ con \in Consoles /\ spent \in Counts /\ con.at = "booting" /\ toCon = << >>
      /\ con.disc \in AllLoaders \X BOOLEAN /\ host.sock \in Nat /\ host.n \in Nat
  BY WayTypes DEF InTouch, Shapes, Boot, RunOK, Consoles
<1>2. Drained
  BY <1>1 DEF Boot, Drained, InTouch, WayOK, Shapes, Sorted, Way
<1>3. /\ con' \in Consoles /\ con'.at = "idle" /\ con'.good = con.good /\ con'.run = 0
      /\ con'.tool = 0 /\ con'.mem = Empty
  <2>1. PICK here \in BOOLEAN, dhcp \in BOOLEAN, l \in AllLoaders \cup {"file"} :
           con' = [con EXCEPT !.at = "idle", !.here = here, !.mem = Empty,
                              !.port = "legacy", !.v = 0, !.tool = 0, !.run = 0,
                              !.dhcp = dhcp, !.loader = l]
    <3>. DEFINE d == IF con.mem.img = "prog" THEN con.dhcp ELSE con.mem.img = "fw_dhcp"
                l == CASE con.mem.img = "prog" -> con.loader
                       [] con.mem.img = "fw_file" -> "file"
                       [] OTHER -> "new"
    <3>1. d \in BOOLEAN /\ l \in AllLoaders \cup {"file"}
      BY <1>1 DEF Consoles, AllLoaders
    <3>2. \E here \in BOOLEAN :
             con' = [con EXCEPT !.at = "idle", !.here = here, !.mem = Empty,
                                !.port = "legacy", !.v = 0, !.tool = 0, !.run = 0,
                                !.dhcp = d, !.loader = l]
      BY DEF Boot
    <3>. HIDE DEF d, l
    <3>. QED BY <3>1, <3>2
  <2>2. Empty \in Memories
    BY DEF Empty, Memories, Images
  <2>. QED BY <1>1, <2>1, <2>2 DEF Consoles, Ports
<1>4. host' = host /\ Way' = {} /\ toHost' = toHost /\ \A n : Launched(n)' <=> Launched(n)
  BY <1>1, <1>2, Drains DEF Boot, Way
<1>5. MemOK'
  BY <1>4 DEF MemOK
<1>6. RunOK'
  <2>1. Launched(0)
    BY <1>1 DEF Launched, InTouch, HostOK
  <2>2. ~(0 = host.sock /\ host.link)
    BY <1>1 DEF InTouch, HostOK
  <2>. QED BY <1>1, <1>3, <1>4, <2>1, <2>2 DEF RunOK, RunsWhole, InTouch, Empty
<1>7. ASSUME host.link, host.at # "FIND"
      PROVE  Level(host.at) = 1 /\ \A a \in Coming : a.to # host.sock
  <2>1. ~Greeted
    BY <1>1 DEF Greeted
  <2>2. Level(host.at) \in 1 .. 8 /\ \A a \in Coming : Rank(a.id) \in 1 .. 8
    BY Levels, Ranks
  <2>. QED BY <1>7, <2>1, <2>2 DEF InTouch, AnswersOK, Standing
<1>8. AnswersOK'
  <2>1. Standing(0)'
    BY DEF Standing
  <2>2. host.link /\ host.at # "FIND" => Level(host.at) - 1 = 0
    BY <1>7
  <2>. QED BY <1>4, <1>7, <2>1, <2>2 DEF AnswersOK, InTouch, Coming
<1>. QED BY <1>1, <1>2, <1>3, <1>4, <1>5, <1>6, <1>8, Builds DEF Shapes

\* A program that runs is that of the session it talks to.
LEMMA Asked ==
    ASSUME InTouch, con.at = "running", NEW id \in {"CALL", "EXIT"}, toHost' = Request(id)
    PROVE  /\ toHost' \in Seq(Answers)
           /\ \E x \in Answers : Coming' \subseteq Coming \cup {x} /\ x.to = con.tool /\ Rank(x.id) = 6
           /\ host.link /\ host.at # "FIND" /\ con.tool = host.sock =>
                6 <= Level(host.at) /\ Standing(6)
           /\ con.tool <= host.sock
<1>. DEFINE x == [id |-> id, to |-> con.tool, from |-> con.port, n |-> con.run,
                  img |-> "prog", ver |-> con.loader, dhcp |-> con.dhcp]
            q == toHost
<1>1. x \in Answers /\ x.to = con.tool /\ x.id = id
  BY DEF InTouch, Shapes, Answers, Consoles, Replies, Images
<1>2. toHost' = Append(q, x) /\ q \in Seq(Answers) /\ Rank(id) = 6
  BY Ranks DEF Request, InTouch, Shapes
<1>. HIDE DEF x, q
<1>3. Append(q, x) \in Seq(Answers) /\ Len(Append(q, x)) = Len(q) + 1 /\ Len(q) \in Nat
      /\ \A i \in 1 .. Len(q) + 1 : Append(q, x)[i] = IF i <= Len(q) THEN q[i] ELSE x
  BY <1>1, <1>2
<1>4. Coming' \subseteq Coming \cup {x}
  <2>1. \A i \in 1 .. Len(q) + 1 : i \in 1 .. Len(q) \/ ~(i <= Len(q))
    BY <1>3
  <2>2. \A i \in 1 .. Len(q) : i <= Len(q) /\ i \in 1 .. Len(q) + 1
    BY <1>3
  <2>. QED BY <1>2, <1>3, <2>1, <2>2 DEF Coming, q
<1>5. ASSUME host.link, host.at # "FIND", con.tool = host.sock
      PROVE  6 <= Level(host.at) /\ Standing(6)
  <2>1. host.at \in {"EXEC", "console"} /\ con.run = host.n /\ Owner /\ AnswersOK
    BY <1>5 DEF InTouch, RunOK
  <2>2. Level(host.at) \in {6, 7}
    BY <2>1, Levels
  <2>3. Standing(5)
    BY <1>5, <2>1, <2>2 DEF AnswersOK, Standing
  <2>. QED BY <1>5, <2>1, <2>2, <2>3 DEF Standing, Started, Owner
<1>. QED BY <1>1, <1>2, <1>3, <1>4, <1>5 DEF InTouch, RunOK

LEMMA StepCall ==
    ASSUME InTouch, Call
    PROVE  InTouch'
<1>1. /\ Shapes /\ con \in Consoles /\ spent \in Counts /\ con.at = "running"
      /\ con.mem \in Memories /\ toHost' = Request("CALL")
  BY DEF InTouch, Shapes, Call, Consoles
<1>2. Drained
  BY <1>1 DEF Call, Drained, InTouch, WayOK, Shapes, Sorted, Way
<1>. DEFINE c == con.calls + 1
<1>3. c \in Nat /\ con' = [con EXCEPT !.at = "waiting", !.calls = c, !.mem.used = TRUE]
  BY <1>1 DEF Call, Consoles
<1>. HIDE DEF c
<1>4. /\ con' \in Consoles /\ con'.mem.n = con.mem.n /\ con'.mem.img = con.mem.img
      /\ con'.mem.whole = con.mem.whole /\ con'.mem.used /\ con'.at = "waiting"
      /\ con'.run = con.run /\ con'.tool = con.tool /\ con'.good = con.good
      /\ con'.v = con.v /\ con'.port = con.port
  BY <1>1, <1>3 DEF Consoles, Memories
<1>5. /\ host' = host /\ Way' \subseteq Way
      /\ \A s, r : Past(s, r) => Past(s, r)'
      /\ \A n : Launched(n)' <=> Launched(n)
  BY <1>2, Drains DEF Drained
<1>6. MemOK'
  BY <1>4, <1>5 DEF InTouch, MemOK, Holding
<1>7. RunOK'
  <2>1. Owner
    BY <1>1 DEF InTouch, RunOK
  <2>. QED BY <1>4, <1>5, <2>1 DEF InTouch, RunOK, RunsWhole, Owner
<1>8. \A r \in 0 .. 8 : Standing(r) => Standing(r)'
  BY <1>1, <1>4, <1>5 DEF Standing, Greeted, Taken, Whole, Started, Version
<1>9. toHost' \in Seq(Answers)
  BY <1>1, Asked
<1>10. PICK x : Coming' \subseteq Coming \cup {x} /\ x.to = con.tool /\ Rank(x.id) = 6
  BY <1>1, Asked
<1>11. AnswersOK'
  <2>1. /\ con.tool <= host.sock
        /\ host.link /\ host.at # "FIND" /\ con.tool = host.sock =>
             6 <= Level(host.at) /\ Standing(6)
    BY <1>1, Asked
  <2>. QED BY <1>5, <1>8, <1>10, <2>1, KeepsAnswers
<1>. QED BY <1>2, <1>4, <1>6, <1>7, <1>9, <1>11, Builds

\* A program ends: nothing asks the console to start it again.
LEMMA StepExit ==
    ASSUME InTouch, ~Short, Exit
    PROVE  InTouch'
<1>1. /\ Shapes /\ con \in Consoles /\ spent \in Counts /\ con.at = "running"
      /\ con.mem \in Memories /\ toHost' = Request("EXIT") /\ host' = host /\ spent' = spent
      /\ con' = [con EXCEPT !.at = "idle", !.mem.used = TRUE]
      /\ WayOK
  BY DEF InTouch, Shapes, Exit, Consoles
<1>2. PICK n \in 0 .. Len(toCon) :
         /\ toCon' = SubSeq(toCon, n + 1, Len(toCon))
         /\ host.at # "EXEC"
         /\ \A i \in n + 1 .. Len(toCon) : toCon[i].id # "EXEC" \/ toCon[i].n # con.run
  BY DEF Exit
<1>3. /\ Drained
      /\ \A k \in Way' : k.id # "EXEC" \/ k.n # con.run
  <2>. DEFINE q == toCon
              rest == SubSeq(q, n + 1, Len(q))
  <2>1. /\ rest \in Seq(Datagrams) /\ Sorted(rest)
        /\ {rest[i] : i \in 1 .. Len(rest)} = {q[i] : i \in n + 1 .. Len(q)}
    <3>1. q \in Seq(Datagrams) /\ Sorted(q) /\ n \in 0 .. Len(q)
      BY <1>1 DEF Shapes, WayOK
    <3>. HIDE DEF q
    <3>. QED BY <3>1, Drops
  <2>2. Way' = {toCon[i] : i \in n + 1 .. Len(toCon)}
    BY <1>2, <2>1 DEF Way
  <2>3. \A i \in n + 1 .. Len(toCon) : i \in 1 .. Len(toCon)
    BY <1>1, WayTypes
  <2>4. Way' \subseteq Way
    BY <2>2, <2>3 DEF Way
  <2>5. toCon' \in Seq(Datagrams) /\ Sorted(toCon)'
    BY <1>2, <2>1 DEF Sorted
  <2>. QED BY <1>1, <1>2, <2>2, <2>4, <2>5 DEF Drained
<1>4. /\ con' \in Consoles /\ con'.mem.n = con.mem.n /\ con'.mem.img = con.mem.img
      /\ con'.mem.whole = con.mem.whole /\ con'.mem.used /\ con'.at = "idle"
      /\ con'.run = con.run /\ con'.tool = con.tool /\ con'.good = con.good
      /\ con'.v = con.v /\ con'.port = con.port
  BY <1>1 DEF Consoles, Memories
<1>5. /\ Way' \subseteq Way
      /\ \A s, r : Past(s, r) => Past(s, r)'
      /\ \A l : Launched(l)' <=> Launched(l)
  BY <1>3, Drains DEF Drained
<1>6. MemOK'
  BY <1>1, <1>4, <1>5 DEF InTouch, MemOK, Holding
<1>7. RunOK'
  <2>1. Owner
    BY <1>1 DEF InTouch, RunOK
  <2>2. \A k \in Way' : k.id # "EXEC"
    BY <1>3, <1>5, <2>1 DEF InTouch, MemOK, Holding, Owner
  <2>. QED BY <1>1, <1>2, <1>4, <1>5, <2>1, <2>2 DEF InTouch, RunOK, RunsWhole, Owner
<1>8. \A r \in 0 .. 8 : Standing(r) => Standing(r)'
  BY <1>1, <1>4, <1>5 DEF Standing, Greeted, Taken, Whole, Started, Version
<1>9. toHost' \in Seq(Answers)
  BY <1>1, Asked
<1>10. PICK x : Coming' \subseteq Coming \cup {x} /\ x.to = con.tool /\ Rank(x.id) = 6
  BY <1>1, Asked
<1>11. AnswersOK'
  <2>1. /\ con.tool <= host.sock
        /\ host.link /\ host.at # "FIND" /\ con.tool = host.sock =>
             6 <= Level(host.at) /\ Standing(6)
    BY <1>1, Asked
  <2>. QED BY <1>1, <1>8, <1>10, <2>1, KeepsAnswers
<1>. QED BY <1>3, <1>4, <1>6, <1>7, <1>9, <1>11, Builds

LEMMA StepLose ==
    ASSUME InTouch, Lose
    PROVE  InTouch'
<1>1. /\ Shapes /\ WayOK /\ spent \in Counts /\ spent' = [spent EXCEPT !.loss = @ + 1]
      /\ host' = host /\ con' = con
  BY DEF InTouch, Shapes, Lose
<1>2. spent' \in Counts /\ spent'.socks = spent.socks /\ spent'.runs = spent.runs
  BY <1>1 DEF Counts
<1>3. CASE toCon # << >> /\ toCon' = Tail(toCon) /\ UNCHANGED toHost
  <2>1. Drained
    BY <1>1, <1>2, <1>3, TakesFirst DEF Drained
  <2>2. con.at # "booting"
    BY <1>3 DEF InTouch, RunOK
  <2>3. MemOK' /\ RunOK'
    BY <1>1, <2>1, <2>2, Leaves
  <2>4. \A r \in 0 .. 8 : Standing(r) => Standing(r)'
    BY <1>1, <2>1, Drains DEF Standing, Greeted, Taken, Whole, Started, Version
  <2>5. AnswersOK'
    <3>1. /\ \A a \in Coming : Rank(a.id) \in 0 .. 8
          /\ Level(host.at) - 1 \in 0 .. 8
      BY Ranks, Levels
    <3>. QED BY <1>1, <1>3, <2>4, <3>1 DEF InTouch, AnswersOK, Coming
  <2>. QED BY <1>1, <1>3, <2>1, <2>3, <2>5, Builds DEF Shapes
<1>4. CASE toHost # << >> /\ toHost' = Tail(toHost) /\ UNCHANGED toCon
  <2>1. Same
    BY <1>1, <1>2, <1>4, Consumes DEF Same
  <2>. QED BY <1>1, <1>4, <2>1, Idles
<1>. QED BY <1>3, <1>4 DEF Lose

-----------------------------------------------------------------------------
(* The invariant, and what it is for.                                      *)

LEMMA InTouchInit == Init => InTouch
<1>. SUFFICES ASSUME Init PROVE InTouch
  OBVIOUS
<1>1. host = NoTool /\ toCon = << >> /\ toHost = << >>
      /\ spent = [runs |-> 0, socks |-> 0, loss |-> 0, late |-> 0, kills |-> 0]
  BY DEF Init
<1>2. Way = {} /\ Coming = {} /\ Len(toCon) = 0
  BY <1>1 DEF Way, Coming
<1>3. Empty \in Memories /\ Empty.n = 0 /\ ~Empty.used
  BY DEF Empty, Memories, Images
<1>4. /\ con \in Consoles /\ con.at = "idle" /\ con.mem = Empty /\ con.good /\ con.run = 0
      /\ con.tool = 0
  <2>1. PICK l \in Loaders, d \in BOOLEAN :
           con = [at |-> "idle", loader |-> l, dhcp |-> d, disc |-> <<l, d>>, here |-> TRUE,
                  mem |-> Empty, good |-> TRUE, run |-> 0, tool |-> 0,
                  port |-> "legacy", v |-> 0, calls |-> 0]
    BY DEF Init
  <2>2. l \in AllLoaders /\ <<l, d>> \in AllLoaders \X BOOLEAN
    BY Consts
  <2>. QED BY <1>3, <2>1, <2>2 DEF Consoles, Ports
<1>5. Shapes
  <2>1. NoTool \in Hosts
    <3>1. 0 \in 0 .. MaxTries /\ 0 \in 0 .. MaxReopens
      BY Consts
    <3>. QED BY <3>1 DEF NoTool, Hosts, Phases, Ports, Images, AllJobs
  <2>2. spent \in Counts
    BY <1>1 DEF Counts
  <2>. QED BY <1>1, <1>4, <2>1, <2>2 DEF Shapes
<1>6. HostOK
  BY <1>1 DEF HostOK, NoTool, Legs
<1>7. WayOK /\ MemOK
  BY <1>2 DEF WayOK, MemOK, Sorted
<1>8. RunOK
  BY <1>1, <1>2, <1>3, <1>4 DEF RunOK, RunsWhole, Launched, NoTool
<1>9. AnswersOK
  BY <1>1, <1>2 DEF AnswersOK, NoTool
<1>. QED BY <1>5, <1>6, <1>7, <1>8, <1>9 DEF InTouch

LEMMA InTouchStep ==
    ASSUME ~Short, InTouch, [Next]_vars
    PROVE  InTouch'
<1>1. CASE UNCHANGED vars
  <2>1. Same /\ host' = host /\ toCon' = toCon
    BY <1>1 DEF vars, Same, Steady, Coming, InTouch, Shapes
  <2>. QED BY <2>1, Idles
<1>2. CASE \E job \in Jobs : Start(job)
  BY <1>2, StepStart
<1>3. CASE Tool
  BY <1>3, StepReopen, StepGoOn, StepFound, StepRecvVersion, StepRecvCapabilities,
     StepRecvProbe, StepRecvAck, StepServe, StepIgnore, StepResend, StepGiveUp DEF Tool
<1>4. CASE Console
  BY <1>4, StepReceive, StepBoot, StepCall, StepExit DEF Console
<1>. QED BY <1>1, <1>2, <1>3, <1>4, StepKill, StepLose DEF Next

LEMMA InTouchSafe == InTouch => SessionInv
<1>. SUFFICES ASSUME InTouch PROVE SessionInv
  OBVIOUS
<1>1. TypeOK
  <2>1. host \in Hosts /\ con \in Consoles /\ con.mem \in Memories
    BY DEF InTouch, Shapes, Consoles
  <2>2. host.at \in Phases /\ host.img \in Images /\ host.port \in Ports
        /\ host.tries \in 0 .. MaxTries /\ host.left \in 0 .. MaxReopens
    BY <2>1 DEF Hosts
  <2>3. con.at \in {"idle", "running", "waiting", "booting", "dead"}
        /\ con.loader \in AllLoaders \cup {"file"} /\ con.mem.img \in Images
    BY <2>1 DEF Consoles, Memories
  <2>. QED BY <2>2, <2>3 DEF TypeOK, Phases, Ports
<1>2. RunsWhole
  BY DEF InTouch, RunOK
<1>3. ServesOwn
  <2>. SUFFICES ASSUME host.at = "console"
                PROVE  /\ con.run = host.n /\ con.tool = host.sock /\ con.port = host.port
                       /\ con.v = Version(host)
    BY DEF ServesOwn
  <2>1. host.link /\ AnswersOK
    BY DEF InTouch, HostOK
  <2>2. Standing(Level(host.at) - 1) /\ Level(host.at) - 1 = 6
    BY <2>1, Levels DEF AnswersOK
  <2>3. Standing(6)
    BY <2>2
  <2>. QED BY <2>3 DEF Standing, Greeted, Started
<1>. QED BY <1>1, <1>2, <1>3 DEF SessionInv

\* SessionInv holds for every number of invocations, attempts, losses, late answers,
\* interruptions and calls: a program starts, and a loader is replaced, only with its
\* whole image in memory, and a tool that serves has started that program
\* (cmd_execute, cmd_version, command_ack_matches, upload).
THEOREM SessionsKept == ~Short => (Spec => []SessionInv)
<1>. SUFFICES ASSUME ~Short PROVE Spec => []SessionInv
  OBVIOUS
<1>1. Init => InTouch
  BY InTouchInit
<1>2. InTouch /\ [Next]_vars => InTouch'
  BY InTouchStep
<1>3. InTouch => SessionInv
  BY InTouchSafe
<1>. QED BY <1>1, <1>2, <1>3, PTL DEF Spec

-----------------------------------------------------------------------------
(* The second inductive invariant: an invocation that nothing disturbs.    *)

\* RECONNECT_TIMEOUT_USEC leaves time for a second handshake, or not every attempt of
\* the first one can be answered late.
Patient == MaxReopens > 1 \/ MaxLate < MaxTries

\* What the invariant does not speak of: the file of a user, and an address from DHCP.
Excused == host.job = "flash" \/ host.img = "fw_dhcp"

\* Only an update sends a loader or looks for one again, and it goes on with the link
\* closed only after a loader that asks for its address.
JobFits(h) ==
    /\ h.again \/ h.updated \/ h.img # "prog" \/ h.at = "SBIN" => Updates(h.job)
    /\ h.img = "fw_dhcp" => h.at \in {"LBIN", "DBIN", "updated", "done"}
    /\ h.at = "updated" => h.img = "fw_dhcp"
    /\ h.at = "settle" => h.again
    /\ h.again => h.at \in {"settle", "VERS", "CAPS", "done"} /\ ~h.updated
    /\ h.updated /\ h.img # "prog" => h.at \in {"updated", "done"}
    /\ h.at \in {"FIND", "VERS", "CAPS", "SBIN"} => ~h.updated /\ (h.again \/ h.img = "prog")

\* The answer the tool waits for, and the command it answers.
Wanted == IF host.at = "FIND" THEN "VERS" ELSE host.at
Fits(a) == /\ a.to = host.sock /\ a.id = Wanted
           /\ host.at = "FIND" \/ a.from = host.port
           /\ host.at \in {"LBIN", "EXEC"} => a.n = host.n /\ a.img = host.img
Due(m) == m.sock = host.sock /\ m.id = Wanted

\* Nothing that ends the console's main loop is on its way to it.
Fresh == con.at = "idle" /\ \A m \in Way : m.id \notin {"EXEC", "REBT"}
Expected == (\E m \in Way : Due(m)) \/ \E a \in Coming : Fits(a)
\* The program is about to start, or has started and the tool is about to hear of it.
Handed == (con.at = "idle" /\ \E m \in Way : Due(m)) \/ \E a \in Coming : Fits(a)

\* An update between its EXECUTE and the new loader's answer.
Unheard == \A a \in Coming : a.to # host.sock
Sending ==
    /\ con.at = "idle"
    /\ \A m \in Way : m.id # "REBT" /\ (m.id = "EXEC" => m.img = "fw_kept")
    /\ \E m \in Way : m.id = "EXEC" /\ (host.at = "VERS" => m.sock < host.sock)
    /\ host.at = "settle" => host.left = MaxReopens
    /\ host.at = "VERS" => /\ Unheard /\ host.left + 1 = MaxReopens
                           /\ host.tries + spent.late >= MaxTries
Starting ==
    /\ con.at = "booting" /\ con.mem.img = "fw_kept"
    /\ host.at = "VERS" => Unheard /\ (host.left > 0 \/ host.tries > 0)
Replaced ==
    /\ Fresh /\ con.loader = "new"
    /\ host.at = "VERS" =>
         /\ \A a \in Coming : a.to = host.sock => a.ver = "new"
         /\ Expected \/ host.left > 0 \/ host.tries > 0
    /\ host.at = "CAPS" => Expected

\* At every moment: where the console is, and what may still happen to it.
Kept ==
    /\ con.here /\ host.told # "failed" /\ (host.updated => con.loader = "new")
    /\ host.img \in {"prog", "fw_kept"}
    /\ con.at = "booting" => con.mem.img \in {"prog", "fw_kept"} /\ ~host.updated
Harmless ==
    \A m \in Way : /\ m.id = "EXEC" => m.img = "prog" \/ (m.img = "fw_kept" /\ ~host.updated)
                   /\ m.id = "REBT" => ~host.updated
\* And in each part of an invocation.
Asking == host.at \in Legs \ {"EXEC"} /\ ~host.again => Fresh /\ Expected
Serving ==
    /\ host.at \in {"EXEC", "console"} =>
         /\ con.at # "booting"
         /\ \A m \in Way : m.id # "REBT" /\ (m.id = "EXEC" => m.img = "prog")
    /\ host.at = "EXEC" => Handed /\ \A m \in Way : m.id = "EXEC" => m.sock = host.sock
Changing ==
    host.again /\ host.at # "done" =>
       /\ host.at = "CAPS" => Replaced
       /\ Sending \/ Starting \/ Replaced
Smooth == Kept /\ Harmless /\ Asking /\ Serving /\ Changing

Smoothly == JobFits(host) /\ spent.late <= MaxLate /\ (calm /\ host.at # "off" /\ ~Excused => Smooth)

\* A command reaches a console that is there; a search is the command VERSION.
LEMMA Reaches ==
    ASSUME Shapes, NEW h \in Hosts, NEW id \in Commands \cup {"FIND"}, toCon' = Sent(h, id)
    PROVE  LET c == IF id = "FIND" THEN "VERS" ELSE id
           IN  /\ Way \subseteq Way'
               /\ \A m \in Way' : m \in Way \/ (m.id = c /\ m.sock = h.sock /\ m.img = h.img)
               /\ h.link /\ con.here /\ con.at \notin {"booting", "dead"} =>
                    \E m \in Way' : m.sock = h.sock /\ m.id = c /\ m.img = h.img
<1>. DEFINE c == IF id = "FIND" THEN "VERS" ELSE id
            ms == IF id = "FIND" THEN <<Probe(h, "legacy"), Probe(h, "v2")>> ELSE <<Datagram(h, id)>>
            q == toCon
<1>1. q \in Seq(Datagrams) /\ Len(q) \in Nat
  BY DEF Shapes
<1>2. /\ ms \in Seq(Datagrams) /\ Len(ms) \in Nat /\ 1 <= Len(ms)
      /\ \A j \in 1 .. Len(ms) : ms[j].sock = h.sock /\ ms[j].id = c /\ ms[j].img = h.img
  <2>1. CASE id = "FIND"
    <3>. DEFINE d == Probe(h, "legacy")
                e == Probe(h, "v2")
    <3>1. /\ d \in Datagrams /\ d.sock = h.sock /\ d.id = "VERS" /\ d.img = h.img
          /\ e \in Datagrams /\ e.sock = h.sock /\ e.id = "VERS" /\ e.img = h.img
      <4>1. Datagram(h, "VERS") \in Datagrams
        BY DatagramType DEF Commands
      <4>. DEFINE g == Datagram(h, "VERS")
      <4>2. g.sock = h.sock /\ g.id = "VERS" /\ g.img = h.img
        BY DatagramType DEF Commands
      <4>. HIDE DEF g
      <4>3. \A p \in Ports : LET x == [g EXCEPT !.port = p, !.v = 2]
                             IN  x \in Datagrams /\ x.sock = g.sock /\ x.id = g.id /\ x.img = g.img
        BY <4>1 DEF Datagrams, g
      <4>. QED BY <4>2, <4>3 DEF Probe, Ports, g
    <3>. HIDE DEF d, e
    <3>2. ms = <<d, e>> /\ c = "VERS"
      BY <2>1 DEF d, e
    <3>. HIDE DEF ms, c
    <3>3. /\ <<d, e>> \in Seq(Datagrams) /\ Len(<<d, e>>) = 2
          /\ \A j \in 1 .. 2 : <<d, e>>[j] \in {d, e}
      BY <3>1
    <3>. QED BY <3>1, <3>2, <3>3
  <2>2. CASE id # "FIND"
    <3>. DEFINE d == Datagram(h, id)
    <3>1. id \in Commands /\ d \in Datagrams /\ d.sock = h.sock /\ d.id = id /\ d.img = h.img
      BY <2>2, DatagramType
    <3>. HIDE DEF d
    <3>2. ms = <<d>> /\ c = id
      BY <2>2 DEF d
    <3>. HIDE DEF ms, c
    <3>3. /\ <<d>> \in Seq(Datagrams) /\ Len(<<d>>) = 1 /\ <<d>>[1] = d
      BY <3>1
    <3>. QED BY <3>1, <3>2, <3>3
  <2>. QED BY <2>1, <2>2
<1>3. toCon' = IF h.link /\ con.here /\ con.at \notin {"booting", "dead"} THEN q \o ms ELSE q
  BY DEF Sent
<1>. HIDE DEF ms, q, c
<1>4. CASE ~(h.link /\ con.here /\ con.at \notin {"booting", "dead"})
  <2>1. Way' = Way
    BY <1>3, <1>4 DEF Way, q
  <2>. QED BY <1>4, <2>1
<1>5. CASE h.link /\ con.here /\ con.at \notin {"booting", "dead"}
  <2>1. /\ q \o ms \in Seq(Datagrams) /\ Len(q \o ms) = Len(q) + Len(ms)
        /\ \A j \in 1 .. Len(q \o ms) : (q \o ms)[j] = IF j <= Len(q) THEN q[j] ELSE ms[j - Len(q)]
    BY <1>1, <1>2, ConcatProperties
  <2>. DEFINE all == q \o ms
  <2>2. toCon' = all
    BY <1>3, <1>5
  <2>. HIDE DEF all
  <2>3. ASSUME NEW j \in 1 .. Len(all)
        PROVE  (j \in 1 .. Len(q) /\ all[j] = q[j]) \/ \E i \in 1 .. Len(ms) : all[j] = ms[i]
    <3>1. CASE j <= Len(q)
      BY <1>1, <1>2, <2>1, <3>1 DEF all
    <3>2. CASE ~(j <= Len(q))
      <4>1. j - Len(q) \in 1 .. Len(ms) /\ all[j] = ms[j - Len(q)]
        BY <1>1, <1>2, <2>1, <3>2 DEF all
      <4>. QED BY <4>1
    <3>. QED BY <3>1, <3>2
  <2>4. \A i \in 1 .. Len(q) : i \in 1 .. Len(all) /\ all[i] = q[i]
    BY <1>1, <1>2, <2>1 DEF all
  <2>5. Len(q) + 1 \in 1 .. Len(all) /\ all[Len(q) + 1] = ms[1] /\ 1 \in 1 .. Len(ms)
    <3>1. Len(q) + 1 \in 1 .. Len(all) /\ ~(Len(q) + 1 <= Len(q)) /\ Len(q) + 1 - Len(q) = 1
      BY <1>1, <1>2, <2>1 DEF all
    <3>. QED BY <1>2, <2>1, <3>1 DEF all
  <2>6. Way' = {all[i] : i \in 1 .. Len(all)} /\ Way = {q[i] : i \in 1 .. Len(q)}
    BY <2>2 DEF Way, q
  <2>7. Way \subseteq Way'
    BY <2>4, <2>6
  <2>8. \A m \in Way' : m \in Way \/ (m.id = c /\ m.sock = h.sock /\ m.img = h.img)
    BY <1>2, <2>3, <2>6
  <2>9. ms[1] \in Way' /\ ms[1].sock = h.sock /\ ms[1].id = c /\ ms[1].img = h.img
    BY <1>2, <2>5, <2>6
  <2>. QED BY <2>7, <2>8, <2>9 DEF c
<1>. QED BY <1>4, <1>5 DEF c

\* The tool reads the oldest answer.
LEMMA ReadsFirst ==
    ASSUME Shapes, toHost # << >>, toHost' = Tail(toHost)
    PROVE  Coming = Coming' \cup {Head(toHost)} /\ Head(toHost) \in Answers
<1>. DEFINE q == toHost
<1>1. q \in Seq(Answers) /\ q # << >> /\ toHost' = Tail(q)
  BY DEF Shapes
<1>. HIDE DEF q
<1>2. Len(q) \in Nat /\ Len(q) >= 1 /\ Head(q) = q[1] /\ 1 \in 1 .. Len(q) /\ q[1] \in Answers
  <2>1. Len(q) # 0
    BY <1>1, EmptySeq
  <2>. QED BY <1>1, <2>1
<1>3. /\ Tail(q) \in Seq(Answers) /\ Len(Tail(q)) = Len(q) - 1
      /\ \A i \in 1 .. Len(Tail(q)) : i + 1 \in 1 .. Len(q) /\ Tail(q)[i] = q[i + 1]
  BY <1>1, <1>2
<1>4. \A i \in 1 .. Len(q) : i = 1 \/ (i - 1 \in 1 .. Len(Tail(q)) /\ Tail(q)[i - 1] = q[i])
  BY <1>2, <1>3
<1>5. Coming' = {Tail(q)[i] : i \in 1 .. Len(Tail(q))} /\ Coming = {q[i] : i \in 1 .. Len(q)}
  BY <1>1 DEF Coming, q
<1>6. Coming' \cup {q[1]} \subseteq Coming
  BY <1>2, <1>3, <1>5
<1>7. Coming \subseteq Coming' \cup {q[1]}
  BY <1>4, <1>5
<1>. QED BY <1>2, <1>6, <1>7 DEF q

\* The console answers m, or its program asks for something.
LEMMA Delivers ==
    ASSUME Shapes, NEW x \in Answers, toHost' = Append(toHost, x)
    PROVE  Coming' = Coming \cup {x}
<1>. DEFINE q == toHost
<1>1. q \in Seq(Answers) /\ toHost' = Append(q, x)
  BY DEF Shapes
<1>. HIDE DEF q
<1>2. /\ Len(Append(q, x)) = Len(q) + 1 /\ Len(q) \in Nat
      /\ \A i \in 1 .. Len(q) + 1 : Append(q, x)[i] = IF i <= Len(q) THEN q[i] ELSE x
  BY <1>1
<1>3. \A i \in 1 .. Len(q) + 1 : (i \in 1 .. Len(q) /\ i <= Len(q)) \/ ~(i <= Len(q))
  BY <1>2
<1>4. /\ \A i \in 1 .. Len(q) : i <= Len(q) /\ i \in 1 .. Len(q) + 1
      /\ Len(q) + 1 \in 1 .. Len(q) + 1 /\ ~(Len(q) + 1 <= Len(q))
  BY <1>2
<1>5. Coming' = {Append(q, x)[i] : i \in 1 .. Len(q) + 1} /\ Coming = {q[i] : i \in 1 .. Len(q)}
  BY <1>1, <1>2 DEF Coming, q
<1>6. Coming' \subseteq Coming \cup {x}
  BY <1>2, <1>3, <1>5
<1>7. Coming \subseteq Coming' /\ x \in Coming'
  BY <1>2, <1>4, <1>5
<1>. QED BY <1>6, <1>7

LEMMA DeliversReply ==
    ASSUME Shapes, NEW m \in Datagrams, NEW id \in Replies, NEW from \in Ports, Reply(m, id, from)
    PROVE  \E x \in Answers : /\ Coming' = Coming \cup {x}
                              /\ x.to = m.sock /\ x.id = id /\ x.from = from
                              /\ x.n = m.n /\ x.img = m.img /\ x.ver = con.loader
<1>. DEFINE x == [id |-> id, to |-> m.sock, from |-> from, n |-> m.n,
                  img |-> m.img, ver |-> con.loader, dhcp |-> con.dhcp]
<1>1. /\ x \in Answers /\ x.to = m.sock /\ x.id = id /\ x.from = from
      /\ x.n = m.n /\ x.img = m.img /\ x.ver = con.loader
  BY DEF Shapes, Answers, Datagrams, Consoles
<1>2. toHost' = Append(toHost, x)
  BY DEF Reply
<1>. HIDE DEF x
<1>. QED BY <1>1, <1>2, Delivers

LEMMA DeliversRequest ==
    ASSUME Shapes, NEW id \in {"CALL", "EXIT"}, toHost' = Request(id)
    PROVE  Coming \subseteq Coming'
<1>. DEFINE x == [id |-> id, to |-> con.tool, from |-> con.port, n |-> con.run,
                  img |-> "prog", ver |-> con.loader, dhcp |-> con.dhcp]
<1>1. x \in Answers
  BY DEF Shapes, Answers, Consoles, Replies, Images
<1>2. toHost' = Append(toHost, x)
  BY DEF Request
<1>. HIDE DEF x
<1>. QED BY <1>1, <1>2, Delivers

\* Something is under way only when there is something.
LEMMA NothingComes ==
    /\ toHost = << >> => Coming = {}
    /\ toCon = << >> => Way = {}
<1>1. \A q : q = << >> => {q[i] : i \in 1 .. Len(q)} = {}
  OBVIOUS
<1>. QED BY <1>1 DEF Coming, Way

-----------------------------------------------------------------------------
(* What a step of the tool leaves of its context.                          *)

LEMMA AskFields ==
    ASSUME NEW h \in Hosts, NEW id \in Legs, Ask(h, id)
    PROVE  /\ host'.at = id /\ host'.tries = Attempts(id) - 1 /\ toCon' = Sent(h, id)
           /\ host'.sock = h.sock /\ host'.n = h.n /\ host'.job = h.job /\ host'.port = h.port
           /\ host'.img = h.img /\ host'.again = h.again /\ host'.updated = h.updated
           /\ host'.told = h.told /\ host'.left = h.left
BY DEF Ask, Hosts

LEMMA FinishFields ==
    ASSUME NEW h \in Hosts, NEW told, Finish(h, told)
    PROVE  /\ host'.at = "done" /\ host'.told = told /\ toCon' = toCon
           /\ host'.job = h.job /\ host'.img = h.img /\ host'.again = h.again
           /\ host'.updated = h.updated
BY DEF Finish, Hosts

\* The contexts that are handed from one operation to the next.
LEMMA Becomes ==
    ASSUME NEW h \in Hosts
    PROVE  /\ \A i \in Images : LET g == [h EXCEPT !.img = i]
                                IN  /\ g \in Hosts /\ g.img = i /\ g.sock = h.sock /\ g.n = h.n
                                    /\ g.job = h.job /\ g.port = h.port /\ g.again = h.again
                                    /\ g.updated = h.updated /\ g.told = h.told /\ g.link = h.link
                                    /\ g.ver = h.ver /\ g.caps = h.caps
           /\ LET g == [h EXCEPT !.again = FALSE, !.updated = TRUE]
              IN  /\ g \in Hosts /\ g.img = h.img /\ g.job = h.job /\ ~g.again /\ g.updated
                  /\ g.told = h.told /\ g.link = h.link /\ g.ver = h.ver /\ g.caps = h.caps
           /\ LET g == [h EXCEPT !.caps = TRUE]
              IN  /\ g \in Hosts /\ g.img = h.img /\ g.job = h.job /\ g.again = h.again
                  /\ g.updated = h.updated /\ g.told = h.told /\ g.link = h.link
                  /\ g.ver = h.ver /\ g.caps
           /\ \A v \in AllLoaders \cup {"file"} :
                LET g == [h EXCEPT !.ver = v, !.caps = FALSE]
                IN  /\ g \in Hosts /\ g.img = h.img /\ g.job = h.job /\ g.again = h.again
                    /\ g.updated = h.updated /\ g.told = h.told /\ g.link = h.link
                    /\ g.ver = v
BY DEF Hosts

\* network_init() starts a session.
LEMMA OpensFields ==
    ASSUME Shapes, NEW h \in Hosts, Open(h), h.ver = "none"
    PROVE  /\ \E o \in Hosts : \E id \in {"FIND", "VERS"} :
                 /\ Ask(o, id) /\ o.link /\ o.sock = spent.socks + 1 /\ o.job = h.job
                 /\ o.img = h.img /\ o.again = h.again /\ o.updated = h.updated
                 /\ o.told = h.told /\ o.left = h.left
                 /\ h.job # "run_found" => id = "VERS"
           /\ spent'.late = spent.late
<1>. DEFINE p == IF h.job = "run_legacy" THEN "legacy" ELSE "v2"
            t == spent.socks + 1
            id == IF h.job = "run_found" /\ h.sock = 0 THEN "FIND" ELSE "VERS"
            o == [h EXCEPT !.sock = t, !.link = TRUE, !.port = p]
<1>1. spent \in Counts /\ t \in Nat /\ p \in Ports /\ id \in {"FIND", "VERS"}
  BY DEF Shapes, Counts, Ports
<1>2. Ask(o, id) /\ spent' = [spent EXCEPT !.socks = t, !.runs = h.n]
  BY DEF Open
<1>3. h.job # "run_found" => id = "VERS"
  OBVIOUS
<1>. HIDE DEF p, id
<1>4. spent'.late = spent.late
  BY <1>1, <1>2 DEF Counts
<1>. HIDE DEF t
<1>5. /\ o \in Hosts /\ o.link /\ o.sock = t /\ o.job = h.job /\ o.img = h.img
      /\ o.again = h.again /\ o.updated = h.updated /\ o.told = h.told /\ o.left = h.left
  BY <1>1 DEF Hosts
<1>. HIDE DEF o
<1>. QED BY <1>1, <1>2, <1>3, <1>4, <1>5 DEF t

\* What AutoUpdate and main() choose keeps to the kinds of invocation.
LEMMA CommandFits ==
    ASSUME NEW h \in Hosts, Command(h), h.updated \/ h.img # "prog" => Updates(h.job), ~h.again,
           h.img = "fw_dhcp" => ~h.link
    PROVE  JobFits(host') /\ host'.job = h.job /\ (h.img = "fw_dhcp" => host'.img = h.img)
<1>1. CASE Loads(h.job) /\ h.link /\ Ask([h EXCEPT !.img = "prog"], "LBIN")
  <2>. DEFINE g == [h EXCEPT !.img = "prog"]
  <2>1. /\ g \in Hosts /\ g.img = "prog" /\ g.job = h.job /\ g.again = h.again
        /\ g.updated = h.updated /\ Ask(g, "LBIN")
    BY <1>1, Becomes DEF Images
  <2>. HIDE DEF g
  <2>2. /\ host'.at = "LBIN" /\ host'.job = h.job /\ host'.img = "prog" /\ ~host'.again
        /\ host'.updated = h.updated
    BY <2>1, AskFields DEF Legs
  <2>. QED BY <1>1, <2>2 DEF JobFits
<1>2. CASE \E told : Finish(h, told)
  BY <1>2, FinishFields DEF JobFits
<1>3. CASE host' = [h EXCEPT !.at = "done", !.link = FALSE, !.told = "ok"]
  <2>1. /\ host'.at = "done" /\ host'.job = h.job /\ host'.img = h.img /\ ~host'.again
        /\ host'.updated = h.updated
    BY <1>3 DEF Hosts
  <2>. QED BY <2>1 DEF JobFits
<1>. QED BY <1>1, <1>2, <1>3 DEF Command

LEMMA AutoUpdateFits ==
    ASSUME NEW h \in Hosts, AutoUpdate(h), Updates(h.job), ~h.again, ~h.updated, h.img = "prog"
    PROVE  JobFits(host') /\ host'.job = h.job
<1>1. ASSUME NEW i \in {"fw_file", "fw_kept", "fw_built"}, Ask([h EXCEPT !.img = i], "LBIN")
      PROVE  JobFits(host') /\ host'.job = h.job
  <2>. DEFINE g == [h EXCEPT !.img = i]
  <2>3. i \in Images
    BY DEF Images
  <2>4. /\ g \in Hosts /\ g.img = i /\ g.job = h.job /\ g.again = h.again
        /\ g.updated = h.updated
    BY <2>3 DEF Hosts
  <2>1. g \in Hosts /\ Ask(g, "LBIN")
    BY <1>1, <2>4
  <2>. HIDE DEF g
  <2>2. /\ host'.at = "LBIN" /\ host'.job = h.job /\ host'.img = i /\ ~host'.again
        /\ ~host'.updated
    BY <2>1, <2>4, AskFields DEF Legs
  <2>. QED BY <2>2 DEF JobFits
<1>2. CASE Ask(h, "SBIN")
  <2>1. /\ host'.at = "SBIN" /\ host'.job = h.job /\ host'.img = h.img /\ ~host'.again
        /\ ~host'.updated
    BY <1>2, AskFields DEF Legs
  <2>. QED BY <2>1 DEF JobFits
<1>3. CASE Command(h)
  BY <1>3, CommandFits
<1>. QED BY <1>1, <1>2, <1>3 DEF AutoUpdate

LEMMA ConnectedFits ==
    ASSUME NEW h \in Hosts, Connected(h), h.again \/ h.updated \/ h.img # "prog" => Updates(h.job),
           h.img # "fw_dhcp", ~h.again => ~h.updated /\ h.img = "prog"
    PROVE  JobFits(host') /\ host'.job = h.job
<1>. DEFINE g == [h EXCEPT !.again = FALSE, !.updated = TRUE]
<1>1. g \in Hosts /\ g.img = h.img /\ g.job = h.job /\ ~g.again /\ g.updated
  BY Becomes
<1>2. CASE h.again /\ Command(g)
  <2>. HIDE DEF g
  <2>. QED BY <1>1, <1>2, CommandFits
<1>3. CASE ~h.again /\ Updates(h.job) /\ AutoUpdate(h)
  BY <1>3, AutoUpdateFits
<1>4. CASE ~h.again /\ ~Updates(h.job) /\ Command(h)
  BY <1>4, CommandFits
<1>. QED BY <1>2, <1>3, <1>4 DEF Connected

\* Every step of the tool keeps to the kind of its invocation.
JobKept == /\ JobFits(host') /\ host'.job = host.job
           /\ host.img = "fw_dhcp" => host'.img = "fw_dhcp"

\* What the tool's context is without the fields that a step changes.
LEMMA Touches ==
    ASSUME InTouch, JobFits(host), host.at # "off", NEW at \in Phases, NEW n \in 0 .. MaxTries,
           NEW p \in Ports, NEW l \in BOOLEAN, NEW told \in {"none", "ok", "failed", "killed"},
           \/ host' = [host EXCEPT !.tries = n]
           \/ host' = [host EXCEPT !.port = p]
           \/ host' = [host EXCEPT !.at = "console"] /\ host.at = "EXEC"
           \/ host' = [host EXCEPT !.at = "settle", !.link = FALSE] /\ host.at = "VERS" /\ host.again
           \/ host' = [host EXCEPT !.at = "done", !.link = FALSE, !.told = told]
    PROVE  JobKept
<1>1. host \in Hosts
  BY DEF InTouch, Shapes
<1>2. /\ host'.job = host.job /\ host'.img = host.img /\ host'.again = host.again
      /\ host'.updated = host.updated
      /\ \/ host'.at \in {host.at, "done"}
         \/ host'.at = "settle" /\ host.at = "VERS" /\ host.again
         \/ host'.at = "console" /\ host.at = "EXEC"
  BY <1>1 DEF Hosts
<1>. QED BY <1>2 DEF JobKept, JobFits

LEMMA KeepsJob ==
    ASSUME InTouch, JobFits(host), Tool \/ Kill
    PROVE  JobKept
<1>1. /\ Shapes /\ HostOK /\ host \in Hosts /\ host.tries \in 0 .. MaxTries /\ host.port \in Ports
      /\ "done" \in Phases /\ 0 \in 0 .. MaxTries
  BY Consts DEF InTouch, Shapes, Hosts, Phases
<1>2. CASE Reopen
  <2>. DEFINE h == [host EXCEPT !.left = @ - 1]
  <2>1. /\ host.at = "settle" /\ host.left > 0 /\ host.ver = "none" /\ host.again
        /\ Updates(host.job) /\ host.img # "fw_dhcp" /\ ~host.updated
    BY <1>1, <1>2 DEF Reopen, HostOK, JobFits
  <2>2. /\ h \in Hosts /\ h.ver = "none" /\ h.job = host.job /\ h.img = host.img /\ h.again
        /\ h.updated = host.updated
    <3>. DEFINE k == host.left - 1
    <3>1. k \in 0 .. MaxReopens
      BY <1>1, <2>1, Consts DEF Hosts
    <3>. HIDE DEF k
    <3>2. LET g == [host EXCEPT !.left = k]
          IN  /\ g \in Hosts /\ g.ver = host.ver /\ g.job = host.job /\ g.img = host.img
              /\ g.again = host.again /\ g.updated = host.updated
      BY <1>1, <3>1 DEF Hosts
    <3>. QED BY <2>1, <3>2 DEF k
  <2>3. Open(h)
    BY <1>2 DEF Reopen
  <2>. HIDE DEF h
  <2>4. PICK o \in Hosts : \E id \in {"FIND", "VERS"} :
              /\ Ask(o, id) /\ o.link /\ o.sock = spent.socks + 1 /\ o.job = h.job
              /\ o.img = h.img /\ o.again = h.again /\ o.updated = h.updated
              /\ o.told = h.told /\ o.left = h.left
              /\ h.job # "run_found" => id = "VERS"
    BY <1>1, <2>2, <2>3, OpensFields
  <2>5. Ask(o, "VERS")
    BY <2>1, <2>2, <2>4 DEF Updates
  <2>6. /\ host'.at = "VERS" /\ host'.job = host.job /\ host'.img = host.img /\ host'.again
        /\ host'.updated = host.updated
    BY <2>2, <2>4, <2>5, AskFields DEF Legs
  <2>. QED BY <2>1, <2>6 DEF JobKept, JobFits
<1>3. CASE GoOn
  <2>1. /\ Command(host) /\ ~host.again /\ ~host.link
        /\ host.updated \/ host.img # "prog" => Updates(host.job)
    BY <1>1, <1>3 DEF GoOn, HostOK, JobFits, Legs
  <2>2. JobFits(host') /\ host'.job = host.job /\ (host.img = "fw_dhcp" => host'.img = host.img)
    BY <1>1, <2>1, CommandFits
  <2>. QED BY <2>2 DEF JobKept
<1>4. CASE Found
  <2>1. /\ Open(host) /\ host.at = "FIND" /\ host.ver = "none" /\ ~host.again /\ ~host.updated
        /\ host.img = "prog"
    BY <1>1, <1>4 DEF Found, HostOK, JobFits
  <2>2. PICK o \in Hosts, id \in {"FIND", "VERS"} :
              /\ Ask(o, id) /\ o.job = host.job /\ o.img = host.img /\ o.again = host.again
              /\ o.updated = host.updated
    BY <1>1, <2>1, OpensFields
  <2>3. /\ host'.at \in {"FIND", "VERS"} /\ host'.job = host.job /\ host'.img = "prog"
        /\ ~host'.again /\ ~host'.updated
    BY <2>1, <2>2, AskFields DEF Legs
  <2>. QED BY <2>1, <2>3 DEF JobKept, JobFits
<1>5. CASE RecvVersion
  <2>. DEFINE v == Head(toHost).ver
              h == [host EXCEPT !.ver = v, !.caps = FALSE]
  <2>1. /\ host.at = "VERS" /\ toHost # << >> /\ toHost' = Tail(toHost)
        /\ (h.ver = "dcload" /\ Connected(h)) \/ Ask(h, "CAPS")
    BY <1>5 DEF RecvVersion, Got, Consume
  <2>2. v \in AllLoaders \cup {"file"}
    BY <1>1, <2>1, ReadsFirst DEF Answers
  <2>3. /\ h \in Hosts /\ h.img = host.img /\ h.job = host.job /\ h.again = host.again
        /\ h.updated = host.updated
    <3>. HIDE DEF v
    <3>. QED BY <1>1, <2>2 DEF Hosts
  <2>. HIDE DEF h
  <2>4. /\ host.again \/ host.updated \/ host.img # "prog" => Updates(host.job)
        /\ host.img # "fw_dhcp" /\ ~host.updated /\ (host.again \/ host.img = "prog")
    BY <2>1 DEF JobFits
  <2>5. CASE Connected(h)
    <3>1. JobFits(host') /\ host'.job = h.job
      BY <2>3, <2>4, <2>5, ConnectedFits
    <3>. QED BY <2>3, <2>4, <3>1 DEF JobKept
  <2>6. CASE Ask(h, "CAPS")
    <3>1. /\ host'.at = "CAPS" /\ host'.job = host.job /\ host'.img = host.img
          /\ host'.again = host.again /\ host'.updated = host.updated
      BY <2>3, <2>6, AskFields DEF Legs
    <3>. QED BY <2>4, <3>1 DEF JobKept, JobFits
  <2>. QED BY <2>1, <2>5, <2>6
<1>6. CASE RecvCapabilities
  <2>. DEFINE h == [host EXCEPT !.caps = TRUE]
  <2>1. host.at = "CAPS" /\ Connected(h)
    BY <1>6 DEF RecvCapabilities
  <2>2. /\ h \in Hosts /\ h.img = host.img /\ h.job = host.job /\ h.again = host.again
        /\ h.updated = host.updated
    BY <1>1, Becomes
  <2>. HIDE DEF h
  <2>3. /\ host.again \/ host.updated \/ host.img # "prog" => Updates(host.job)
        /\ host.img # "fw_dhcp" /\ ~host.updated /\ (host.again \/ host.img = "prog")
    BY <2>1 DEF JobFits
  <2>4. JobFits(host') /\ host'.job = h.job
    BY <2>1, <2>2, <2>3, ConnectedFits
  <2>. QED BY <2>2, <2>3, <2>4 DEF JobKept
<1>7. CASE RecvProbe
  <2>. DEFINE i == IF Head(toHost).dhcp THEN "fw_dhcp" ELSE "fw_kept"
              h == [host EXCEPT !.img = i]
  <2>1. host.at = "SBIN" /\ Ask(h, "LBIN") /\ i \in Images /\ i \in {"fw_dhcp", "fw_kept"}
    BY <1>7 DEF RecvProbe, Images
  <2>. HIDE DEF i
  <2>2. /\ h \in Hosts /\ h.img = i /\ h.job = host.job /\ h.again = host.again
        /\ h.updated = host.updated
    BY <1>1, <2>1 DEF Hosts
  <2>. HIDE DEF h
  <2>3. /\ host'.at = "LBIN" /\ host'.job = host.job /\ host'.img = i
        /\ host'.again = host.again /\ host'.updated = host.updated
    BY <2>1, <2>2, AskFields DEF Legs
  <2>4. Updates(host.job) /\ ~host.again /\ ~host.updated /\ host.img # "fw_dhcp"
    BY <2>1 DEF JobFits
  <2>. QED BY <2>1, <2>3, <2>4 DEF JobKept, JobFits
<1>8. CASE RecvAck
  <2>0. host.at \in {"LBIN", "DBIN", "EXEC"} /\ ~host.again
    BY <1>8 DEF RecvAck, JobFits
  <2>1. CASE host.at = "LBIN" /\ Ask(host, "DBIN")
    <3>1. /\ host'.at = "DBIN" /\ host'.job = host.job /\ host'.img = host.img
          /\ host'.again = host.again /\ host'.updated = host.updated
      BY <1>1, <2>1, AskFields DEF Legs
    <3>. QED BY <2>1, <3>1 DEF JobKept, JobFits
  <2>2. CASE host.at = "DBIN" /\ host.img # "prog" /\ SendTrampoline(host)
    <3>1. DropLink(host) \in Hosts
      BY <1>1 DEF DropLink, Hosts
    <3>2. /\ DropLink(host).job = host.job /\ DropLink(host).img = host.img
          /\ DropLink(host).again = host.again /\ DropLink(host).updated = host.updated
      BY <1>1 DEF DropLink, Hosts
    <3>. DEFINE d == DropLink(host)
    <3>3. host' = IF host.img = "fw_dhcp" THEN [d EXCEPT !.at = "updated", !.updated = TRUE]
                  ELSE [d EXCEPT !.at = "settle", !.again = TRUE, !.left = MaxReopens]
      BY <2>2 DEF SendTrampoline
    <3>. HIDE DEF d
    <3>4. /\ host'.job = host.job /\ host'.img = host.img
          /\ host.img = "fw_dhcp" => host'.at = "updated" /\ host'.updated /\ ~host'.again
          /\ host.img # "fw_dhcp" =>
               host'.at = "settle" /\ host'.again /\ host'.updated = host.updated
      <4>1. d \in Hosts /\ d.job = host.job /\ d.img = host.img /\ d.again = host.again
            /\ d.updated = host.updated
        BY <3>1, <3>2 DEF d
      <4>. QED BY <2>0, <3>3, <4>1 DEF Hosts
    <3>. QED BY <2>2, <3>4 DEF JobKept, JobFits
  <2>3. CASE host.at = "DBIN" /\ host.img = "prog" /\ Ask(host, "EXEC")
    <3>1. /\ host'.at = "EXEC" /\ host'.job = host.job /\ host'.img = host.img
          /\ host'.again = host.again /\ host'.updated = host.updated
      BY <1>1, <2>3, AskFields DEF Legs
    <3>. QED BY <2>3, <3>1 DEF JobKept, JobFits
  <2>4. CASE Finish(host, "ok")
    BY <1>1, <2>0, <2>4, Touches DEF Finish
  <2>5. CASE host.at = "EXEC" /\ host' = [host EXCEPT !.at = "console"]
    BY <1>1, <2>5, Touches
  <2>. QED BY <1>8, <2>1, <2>2, <2>3, <2>4, <2>5 DEF RecvAck, Loaded
<1>9. CASE Serve
  <2>1. CASE host' = host
    BY <2>1 DEF JobKept
  <2>2. CASE Finish(host, "ok") /\ host.at = "console"
    BY <1>1, <2>2, Touches DEF Finish
  <2>. QED BY <1>9, <2>1, <2>2 DEF Serve
<1>10. CASE Ignore
  <2>1. CASE host' = host
    BY <2>1 DEF JobKept
  <2>2. CASE host' = Switched(host) /\ host.at = "VERS"
    <3>. DEFINE p == IF host.port = "v2" THEN "legacy" ELSE "v2"
    <3>1. p \in Ports /\ host' = [host EXCEPT !.port = p]
      BY <2>2 DEF Switched, Ports
    <3>. HIDE DEF p
    <3>. QED BY <1>1, <2>2, <3>1, Touches
  <2>. QED BY <1>10, <2>1, <2>2 DEF Ignore
<1>11. CASE Resend
  <2>. DEFINE n == host.tries - 1
  <2>1. host' = [host EXCEPT !.tries = n] /\ n \in 0 .. MaxTries /\ host.at # "off"
    BY <1>1, <1>11, Consts DEF Resend, Legs
  <2>. HIDE DEF n
  <2>. QED BY <1>1, <2>1, Touches
<1>12. CASE GiveUp
  <2>0. host.at \in Legs /\ host.at # "off"
    BY <1>12 DEF GiveUp, Legs
  <2>1. CASE Finish(host, "failed")
    BY <1>1, <2>0, <2>1, Touches DEF Finish
  <2>2. CASE host.at = "VERS" /\ host.again /\ host' = [host EXCEPT !.at = "settle", !.link = FALSE]
    BY <1>1, <2>2, Touches
  <2>3. CASE host.at = "CAPS" /\ Connected(host)
    <3>1. /\ host.again \/ host.updated \/ host.img # "prog" => Updates(host.job)
          /\ host.img # "fw_dhcp" /\ ~host.updated /\ (host.again \/ host.img = "prog")
      BY <2>3 DEF JobFits
    <3>2. JobFits(host') /\ host'.job = host.job
      BY <1>1, <2>3, <3>1, ConnectedFits
    <3>. QED BY <3>1, <3>2 DEF JobKept
  <2>4. CASE host.at = "SBIN" /\ Command(host)
    <3>1. /\ host.updated \/ host.img # "prog" => Updates(host.job)
          /\ host.img # "fw_dhcp" /\ ~host.again
      BY <2>4 DEF JobFits
    <3>2. JobFits(host') /\ host'.job = host.job
      BY <1>1, <2>4, <3>1, CommandFits
    <3>. QED BY <3>1, <3>2 DEF JobKept
  <2>. QED BY <1>12, <2>1, <2>2, <2>3, <2>4 DEF GiveUp
<1>13. CASE Kill
  <2>1. /\ host' = [host EXCEPT !.at = "done", !.link = FALSE, !.told = "killed"]
        /\ host.at # "off"
    BY <1>13 DEF Kill
  <2>. QED BY <1>1, <2>1, Touches
<1>. QED BY <1>2, <1>3, <1>4, <1>5, <1>6, <1>7, <1>8, <1>9, <1>10, <1>11, <1>12, <1>13 DEF Tool

-----------------------------------------------------------------------------
(* The tool goes on while the console is in its main loop.                 *)

Going(h) ==
    /\ h \in Hosts /\ h.link /\ Fresh /\ con.here /\ con' = con
    /\ h.told # "failed" /\ h.img \in {"prog", "fw_kept"}
    /\ h.updated => con.loader = "new" /\ Updates(h.job)

LEMMA AsksSmoothly ==
    ASSUME Shapes, NEW h, Going(h), NEW id \in Legs, Ask(h, id), id = "EXEC" => h.img = "prog",
           ~h.again \/ (id = "CAPS" /\ con.loader = "new")
    PROVE  Smooth'
<1>. DEFINE c == IF id = "FIND" THEN "VERS" ELSE id
<1>1. /\ host'.at = id /\ toCon' = Sent(h, id) /\ host'.sock = h.sock /\ host'.img = h.img
      /\ host'.again = h.again /\ host'.updated = h.updated /\ host'.told = h.told
  BY AskFields DEF Going
<1>2. /\ con' = con /\ con.at = "idle" /\ con.here /\ h.link
      /\ \A m \in Way : m.id \notin {"EXEC", "REBT"}
  BY DEF Going, Fresh
<1>3. /\ \A m \in Way' : m \in Way \/ (m.id = c /\ m.sock = h.sock /\ m.img = h.img)
      /\ \E m \in Way' : m.sock = h.sock /\ m.id = c
  <2>1. h \in Hosts /\ id \in Commands \cup {"FIND"}
    BY DEF Going, Legs, Commands
  <2>. QED BY <1>1, <1>2, <2>1, Reaches
<1>4. c = Wanted' /\ c # "REBT" /\ (c = "EXEC" <=> id = "EXEC")
  BY <1>1 DEF Wanted, Legs
<1>. HIDE DEF c
<1>5. Expected' /\ \E m \in Way' : Due(m)'
  BY <1>1, <1>3, <1>4 DEF Expected, Due
<1>6. id # "EXEC" => Fresh'
  BY <1>2, <1>3, <1>4 DEF Fresh
<1>7. Kept'
  BY <1>1, <1>2 DEF Kept, Going
<1>8. Harmless'
  BY <1>1, <1>2, <1>3, <1>4 DEF Harmless
<1>9. Asking'
  BY <1>1, <1>5, <1>6 DEF Asking
<1>10. Serving'
  <2>1. CASE id = "EXEC"
    <3>1. Handed'
      BY <1>2, <1>5 DEF Handed
    <3>2. \A m \in Way' : /\ m.id # "REBT"
                          /\ m.id = "EXEC" => m.img = "prog" /\ m.sock = host'.sock
      BY <1>1, <1>2, <1>3, <1>4
    <3>. QED BY <1>2, <3>1, <3>2 DEF Serving
  <2>2. CASE id # "EXEC"
    BY <1>1, <2>2 DEF Serving, Legs
  <2>. QED BY <2>1, <2>2
<1>11. Changing'
  BY <1>1, <1>2, <1>5, <1>6 DEF Changing, Replaced
<1>. QED BY <1>7, <1>8, <1>9, <1>10, <1>11 DEF Smooth

LEMMA EndsSmoothly ==
    ASSUME con' = con, con.here, Way' = Way, host'.at = "done", host'.told # "failed",
           host'.img \in {"prog", "fw_kept"},
           \/ Fresh /\ (host'.updated => con.loader = "new")
           \/ Kept /\ Harmless /\ (host'.updated <=> host.updated)
    PROVE  Smooth'
<1>1. Kept'
  BY DEF Kept, Fresh
<1>2. Harmless'
  BY DEF Harmless, Fresh
<1>. QED BY <1>1, <1>2 DEF Smooth, Asking, Serving, Changing, Legs

LEMMA FinishesSmoothly ==
    ASSUME NEW h, Going(h), NEW told, told # "failed", Finish(h, told)
    PROVE  Smooth'
<1>1. /\ host'.at = "done" /\ host'.told = told /\ toCon' = toCon
      /\ host'.img = h.img /\ host'.updated = h.updated
  BY FinishFields DEF Going
<1>2. Way' = Way
  BY <1>1 DEF Way
<1>. QED BY <1>1, <1>2, EndsSmoothly DEF Going

LEMMA CommandSmooth ==
    ASSUME Shapes, NEW h, Going(h), ~h.again, Command(h)
    PROVE  Smooth'
<1>0. h \in Hosts /\ h.link /\ con' = con
  BY DEF Going
<1>1. CASE Ask([h EXCEPT !.img = "prog"], "LBIN")
  <2>. DEFINE g == [h EXCEPT !.img = "prog"]
  <2>1. /\ g \in Hosts /\ g.img = "prog" /\ g.job = h.job /\ ~g.again
        /\ g.updated = h.updated /\ g.told = h.told /\ g.link = h.link
    BY <1>0, Becomes DEF Images
  <2>2. Ask(g, "LBIN")
    BY <1>1
  <2>. HIDE DEF g
  <2>3. Going(g)
    BY <2>1 DEF Going
  <2>. QED BY <2>1, <2>2, <2>3, AsksSmoothly DEF Legs
<1>2. CASE h.job = "reset" /\ toCon' = Sent(h, "REBT")
           /\ host' = [h EXCEPT !.at = "done", !.link = FALSE, !.told = "ok"]
  <2>1. /\ host'.at = "done" /\ host'.told = "ok" /\ host'.img = h.img
        /\ host'.updated = h.updated
    BY <1>0, <1>2 DEF Hosts
  <2>2. ~h.updated
    BY <1>2 DEF Going, Updates
  <2>3. \A m \in Way' : m \in Way \/ m.id = "REBT"
    BY <1>0, <1>2, Reaches DEF Commands
  <2>4. Kept'
    BY <2>1, <2>2 DEF Kept, Going, Fresh
  <2>5. Harmless'
    BY <2>1, <2>2, <2>3 DEF Harmless, Going, Fresh
  <2>. QED BY <2>1, <2>4, <2>5 DEF Smooth, Asking, Serving, Changing, Legs
<1>3. CASE Finish(h, "ok")
  BY <1>3, FinishesSmoothly
<1>. QED BY <1>0, <1>1, <1>2, <1>3 DEF Command

LEMMA AutoUpdateSmooth ==
    ASSUME Shapes, NEW h, Going(h), ~h.again, h.job # "flash", h.ver = "old" => h.caps, AutoUpdate(h)
    PROVE  Smooth'
<1>0. h \in Hosts /\ h.link
  BY DEF Going
<1>1. CASE Ask([h EXCEPT !.img = "fw_kept"], "LBIN")
  <2>. DEFINE g == [h EXCEPT !.img = "fw_kept"]
  <2>1. /\ g \in Hosts /\ g.img = "fw_kept" /\ g.job = h.job /\ ~g.again
        /\ g.updated = h.updated /\ g.told = h.told /\ g.link = h.link
    BY <1>0, Becomes DEF Images
  <2>2. Ask(g, "LBIN")
    BY <1>1
  <2>. HIDE DEF g
  <2>3. Going(g)
    BY <2>1 DEF Going
  <2>. QED BY <2>1, <2>2, <2>3, AsksSmoothly DEF Legs
<1>2. CASE Ask(h, "SBIN")
  BY <1>2, AsksSmoothly DEF Legs
<1>. QED BY <1>1, <1>2, CommandSmooth DEF AutoUpdate

LEMMA ConnectedSmooth ==
    ASSUME Shapes, NEW h, Going(h), h.job # "flash", h.ver = "old" => h.caps,
           h.again => con.loader = "new" /\ Updates(h.job), Connected(h)
    PROVE  Smooth'
<1>. DEFINE g == [h EXCEPT !.again = FALSE, !.updated = TRUE]
<1>1. /\ g \in Hosts /\ g.img = h.img /\ g.job = h.job /\ ~g.again /\ g.updated
      /\ g.told = h.told /\ g.link = h.link
  BY Becomes DEF Going
<1>2. CASE h.again /\ Command(g)
  <2>. HIDE DEF g
  <2>1. Going(g)
    BY <1>1, <1>2 DEF Going
  <2>. QED BY <1>1, <1>2, <2>1, CommandSmooth
<1>. QED BY <1>2, AutoUpdateSmooth, CommandSmooth DEF Connected

\* A session that begins while the console is in its main loop.
LEMMA OpensSmoothly ==
    ASSUME Shapes, NEW h \in Hosts, Open(h), h.ver = "none", Fresh, con.here, con' = con,
           h.told # "failed", h.img \in {"prog", "fw_kept"}, ~h.updated, ~h.again
    PROVE  Smooth'
<1>1. PICK o \in Hosts : \E id \in {"FIND", "VERS"} :
              /\ Ask(o, id) /\ o.link /\ o.sock = spent.socks + 1 /\ o.job = h.job
              /\ o.img = h.img /\ o.again = h.again /\ o.updated = h.updated
              /\ o.told = h.told /\ o.left = h.left
              /\ h.job # "run_found" => id = "VERS"
  BY OpensFields
<1>2. Going(o) /\ ~o.again
  BY <1>1 DEF Going
<1>3. PICK id \in {"FIND", "VERS"} : Ask(o, id)
  BY <1>1
<1>4. id \in Legs /\ id # "EXEC"
  BY DEF Legs
<1>. QED BY <1>2, <1>3, <1>4, AsksSmoothly

-----------------------------------------------------------------------------
(* The steps of the tool in an invocation that nothing disturbs.           *)

\* More of the same is sent, and answers that are not waited for are read.
LEMMA StaysSmooth ==
    ASSUME JobFits(host), Smooth, con' = con, host'.at = host.at, host'.sock = host.sock, host'.n = host.n,
           host'.img = host.img, host'.port = host.port, host'.again = host.again,
           host'.updated = host.updated, host'.told = host.told, host'.left = host.left,
           Way \subseteq Way',
           \A m \in Way' : \/ m \in Way \/ m.id \notin {"EXEC", "REBT"}
                           \/ m.id = "EXEC" /\ host.at = "EXEC" /\ m.img = "prog" /\ m.sock = host.sock,
           Coming' \subseteq Coming,
           host.at \in Legs => \A a \in Coming : Fits(a) => a \in Coming',
           \/ host'.tries = host.tries /\ spent'.late = spent.late
           \/ host.again => /\ con.at # "booting" /\ \E m \in Way' : Due(m)
                            /\ Sending => host'.tries + spent'.late >= MaxTries
    PROVE  Smooth'
<1>1. (\A a : Fits(a)' <=> Fits(a)) /\ (\A m : Due(m)' <=> Due(m))
  BY DEF Fits, Due, Wanted
<1>2. host.at \in Legs => (Expected => Expected') /\ (Handed => Handed')
  BY <1>1 DEF Expected, Handed
<1>3. (\E m \in Way' : Due(m)) => Expected'
  BY <1>1 DEF Expected
<1>4. host.at # "EXEC" /\ Fresh => Fresh'
  BY DEF Fresh
<1>5. Kept' /\ Harmless'
  <2>1. host.at = "EXEC" => host.at \in {"EXEC", "console"}
    OBVIOUS
  <2>. QED BY DEF Smooth, Kept, Harmless
<1>6. Asking'
  <2>1. ASSUME host.at \in Legs \ {"EXEC"}, ~host.again PROVE Fresh' /\ Expected'
    BY <1>2, <1>4, <2>1 DEF Smooth, Asking
  <2>. QED BY <2>1 DEF Asking
<1>7. Serving'
  <2>1. host.at = "EXEC" => host.at \in Legs
    BY DEF Legs
  <2>2. host.at \in {"EXEC", "console"} =>
          con.at # "booting" /\ \A m \in Way' : m.id # "REBT" /\ (m.id = "EXEC" => m.img = "prog")
    BY DEF Smooth, Serving
  <2>3. host.at = "EXEC" => Handed' /\ \A m \in Way' : m.id = "EXEC" => m.sock = host.sock
    BY <1>2, <2>1 DEF Smooth, Serving
  <2>. QED BY <2>2, <2>3 DEF Serving
<1>8. Changing'
  <2>. SUFFICES ASSUME host.again, host.at # "done"
                PROVE  /\ host.at = "CAPS" => Replaced'
                       /\ Sending' \/ Starting' \/ Replaced'
    BY DEF Changing
  <2>1. host.at \in {"settle", "VERS", "CAPS"} /\ (host.at = "CAPS" => Replaced)
        /\ (Sending \/ Starting \/ Replaced)
    BY DEF Smooth, Changing, JobFits
  <2>2. Unheard => Unheard'
    BY DEF Unheard
  <2>3. ASSUME Sending PROVE Sending'
    BY <2>1, <2>2, <2>3 DEF Sending
  <2>4. ASSUME Starting PROVE Starting'
    BY <2>1, <2>2, <2>4 DEF Starting
  <2>5. ASSUME Replaced PROVE Replaced'
    <3>1. Fresh' /\ con'.loader = "new"
      BY <1>4, <2>1, <2>5 DEF Replaced
    <3>2. host.at = "CAPS" => Expected'
      BY <1>2, <2>5 DEF Replaced, Legs
    <3>3. host.at = "VERS" => Expected' \/ host'.left > 0 \/ host'.tries > 0
      BY <1>2, <1>3, <2>5 DEF Replaced, Legs
    <3>4. host.at = "VERS" => \A a \in Coming' : a.to = host'.sock => a.ver = "new"
      BY <2>5 DEF Replaced
    <3>. QED BY <3>1, <3>2, <3>3, <3>4 DEF Replaced
  <2>. QED BY <2>1, <2>3, <2>4, <2>5
<1>. QED BY <1>5, <1>6, <1>7, <1>8 DEF Smooth

\* The answer that is waited for is not passed over, and no other socket is tried.
LEMMA Disregards ==
    ASSUME InTouch, Ignore
    PROVE  /\ host' = host /\ toCon' = toCon /\ con' = con /\ spent' = spent
           /\ Coming' \subseteq Coming
           /\ host.at \in Legs => \A a \in Coming : Fits(a) => a \in Coming'
<1>. DEFINE a == Head(toHost)
<1>1. /\ Shapes /\ HostOK /\ host \in Hosts /\ toHost # << >> /\ toHost' = Tail(toHost)
      /\ Takes(a) => Unexpected(a)
      /\ con' = con /\ spent' = spent
  BY DEF InTouch, Shapes, Ignore, Consume
<1>2. Coming = Coming' \cup {a} /\ a \in Answers
  BY <1>1, ReadsFirst
<1>3. a.id \in Replies
  BY <1>2 DEF Answers
<1>4. host.at = "VERS" => ~Takes(a)
  <2>. SUFFICES ASSUME host.at = "VERS", Takes(a) PROVE FALSE
    OBVIOUS
  <2>1. Rank(a.id) <= 1
    BY <1>1, Gets, Levels
  <2>2. a.id = "VERS"
    BY <1>3, <2>1, Ranks DEF Replies
  <2>. QED BY <1>1, <2>2 DEF Unexpected
<1>5. host' = host /\ toCon' = toCon
  BY <1>4 DEF Ignore
<1>6. ASSUME host.at \in Legs, Fits(a) PROVE FALSE
  <2>1. Takes(a)
    BY <1>1, <1>6 DEF Fits, Takes, HostOK
  <2>2. Unexpected(a) /\ a.id = Wanted
    BY <1>1, <1>6, <2>1 DEF Fits
  <2>3. host.at \in {"FIND", "VERS"} => a.id = "VERS"
    BY <2>2 DEF Wanted
  <2>4. host.at \notin {"FIND", "VERS"} => a.id = host.at
    BY <2>2 DEF Wanted
  <2>5. host.at \in {"LBIN", "DBIN", "EXEC"} => AckMatches(a)
    BY <1>6, <2>4 DEF AckMatches, Fits
  <2>. QED BY <1>6, <2>2, <2>3, <2>4, <2>5 DEF Unexpected, Legs
<1>. HIDE DEF a
<1>. QED BY <1>1, <1>2, <1>5, <1>6

\* Such an invocation, at one of its points.
Easy == /\ InTouch /\ JobFits(host) /\ spent.late <= MaxLate /\ host.at # "off" /\ ~Excused
        /\ Smooth

LEMMA EasyFacts ==
    ASSUME Easy
    PROVE  /\ Shapes /\ HostOK /\ host \in Hosts /\ con \in Consoles /\ spent \in Counts
           /\ host.sock \in Nat /\ host.tries \in 0 .. MaxTries /\ host.left \in 0 .. MaxReopens
           /\ spent.late \in Nat /\ MaxTries \in Nat \ {0} /\ MaxReopens \in Nat \ {0} /\ MaxLate \in Nat
           /\ con.here /\ host.told # "failed" /\ host.img \in {"prog", "fw_kept"}
           /\ (host.updated => con.loader = "new" /\ Updates(host.job))
           /\ host.job # "flash" /\ con.at # "dead"
           /\ host.at \in Legs \ {"EXEC"} /\ ~host.again => Fresh /\ Expected
           /\ host.at = "EXEC" => Handed
           /\ host.again /\ host.at # "done" =>
                /\ Sending \/ Starting \/ Replaced
                /\ host.at = "CAPS" => Replaced
<1>1. /\ Shapes /\ HostOK /\ host \in Hosts /\ con \in Consoles /\ spent \in Counts /\ RunsWhole
  BY DEF Easy, InTouch, Shapes, RunOK
<1>2. /\ host.sock \in Nat /\ host.tries \in 0 .. MaxTries /\ host.left \in 0 .. MaxReopens
      /\ spent.late \in Nat /\ MaxTries \in Nat \ {0} /\ MaxReopens \in Nat \ {0} /\ MaxLate \in Nat
  BY <1>1, SessionAssumption DEF Hosts, Counts
<1>3. /\ con.here /\ host.told # "failed" /\ host.img \in {"prog", "fw_kept"}
      /\ (host.updated => con.loader = "new" /\ Updates(host.job)) /\ host.job # "flash"
  BY DEF Easy, Smooth, Kept, JobFits, Excused
<1>4. con.at # "dead"
  BY <1>1 DEF RunsWhole
<1>. QED BY <1>1, <1>2, <1>3, <1>4 DEF Easy, Smooth, Asking, Serving, Changing

\* While an answer is due from a console in its main loop, nothing times out for good.
LEMMA NotQuiet ==
    /\ Fresh /\ Expected => ~Quiet
    /\ Handed => ~Quiet
    /\ Sending => ~Quiet
<1>1. /\ toHost = << >> => ~\E a \in Coming : Fits(a)
      /\ toCon = << >> => /\ ~\E m \in Way : Due(m)
                          /\ ~\E m \in Way : m.id = "EXEC" /\ (host.at = "VERS" => m.sock < host.sock)
  BY NothingComes
<1>. QED BY <1>1 DEF Quiet, Fresh, Expected, Handed, Sending

LEMMA SmoothStart ==
    ASSUME InTouch, NEW job \in Jobs, Start(job), calm'
    PROVE  Smooth'
<1>. DEFINE t == spent.runs + 1
            h == [NoTool EXCEPT !.n = t, !.job = job]
<1>0. Shapes /\ spent \in Counts /\ t \in Nat
  BY DEF InTouch, Shapes, Counts
<1>1. /\ Shapes /\ spent \in Counts /\ t \in Nat /\ con' = con /\ Open(h)
      /\ con.at = "idle" /\ con.here
      /\ \A i \in DOMAIN toCon : toCon[i].id \notin {"EXEC", "REBT"}
  <2>1. Open(h) /\ con' = con
    BY DEF Start
  <2>2. /\ con.at = "idle" /\ con.here
        /\ \A i \in DOMAIN toCon : toCon[i].id \notin {"EXEC", "REBT"}
    BY Zenon DEF Start
  <2>. QED BY <1>0, <2>1, <2>2
<1>2. job \in AllJobs /\ 0 \in 0 .. MaxTries /\ 0 \in 0 .. MaxReopens
  BY Consts
<1>. HIDE DEF t
<1>3. /\ h \in Hosts /\ h.ver = "none" /\ h.told = "none" /\ h.img = "prog" /\ ~h.updated /\ ~h.again
  BY <1>1, <1>2 DEF NoTool, Hosts, Phases, Ports, Images
<1>. HIDE DEF h
<1>4. Fresh
  <2>1. toCon \in Seq(Datagrams)
    BY <1>1 DEF Shapes
  <2>2. DOMAIN toCon = 1 .. Len(toCon)
    BY <2>1
  <2>. QED BY <1>1, <2>2 DEF Fresh, Way
<1>. QED BY <1>1, <1>3, <1>4, OpensSmoothly

LEMMA SmoothReopen ==
    ASSUME Easy, Reopen
    PROVE  Smooth'
<1>. DEFINE k == host.left - 1
            h == [host EXCEPT !.left = k]
<1>1. /\ host.at = "settle" /\ host.left > 0 /\ host.ver = "none" /\ host.again
      /\ Updates(host.job) /\ ~host.updated /\ con' = con /\ toHost' = toHost
  BY EasyFacts DEF Reopen, HostOK, Easy, JobFits
<1>2. Open(h) /\ k \in 0 .. MaxReopens /\ k + 1 = host.left
  BY <1>1, EasyFacts DEF Reopen
<1>. HIDE DEF k
<1>3. /\ h \in Hosts /\ h.ver = "none" /\ h.job = host.job /\ h.img = host.img /\ h.again
      /\ ~h.updated /\ h.told = host.told /\ h.left = k
  BY <1>1, <1>2, EasyFacts DEF Hosts
<1>. HIDE DEF h
<1>4. PICK o \in Hosts : \E id \in {"FIND", "VERS"} :
              /\ Ask(o, id) /\ o.link /\ o.sock = spent.socks + 1 /\ o.job = h.job
              /\ o.img = h.img /\ o.again = h.again /\ o.updated = h.updated
              /\ o.told = h.told /\ o.left = h.left
              /\ h.job # "run_found" => id = "VERS"
  BY <1>2, <1>3, EasyFacts, OpensFields
<1>5. Ask(o, "VERS") /\ spent'.late = spent.late
  BY <1>1, <1>2, <1>3, <1>4, EasyFacts, OpensFields DEF Updates
<1>6. /\ host'.at = "VERS" /\ host'.tries = MaxTries /\ host'.sock = host.sock + 1
      /\ host'.img = host.img /\ host'.again /\ ~host'.updated /\ host'.told = host.told
      /\ host'.left = k /\ toCon' = Sent(o, "VERS")
  <2>1. Attempts("VERS") - 1 = MaxTries
    BY EasyFacts DEF Attempts
  <2>2. spent.socks = host.sock
    BY EasyFacts DEF HostOK
  <2>. QED BY <1>3, <1>4, <1>5, <2>1, <2>2, AskFields DEF Legs
<1>7. /\ Way \subseteq Way' /\ \A m \in Way' : m \in Way \/ m.id = "VERS"
  BY <1>6, EasyFacts, Reaches DEF Commands
<1>8. Unheard'
  <2>1. \A a \in Coming : a.to <= host.sock /\ a.to \in Nat
    BY EasyFacts, WayTypes DEF Easy, InTouch, AnswersOK
  <2>2. Coming' = Coming
    BY <1>1 DEF Coming
  <2>. QED BY <1>6, <2>1, <2>2, EasyFacts DEF Unheard
<1>9. ASSUME Sending PROVE Sending'
  <2>1. PICK m \in Way : m.id = "EXEC"
    BY <1>9 DEF Sending
  <2>2. m.sock < host'.sock
    <3>1. m.sock <= host.sock /\ m.sock \in Nat
      BY WayTypes DEF Easy, InTouch, WayOK
    <3>. QED BY <1>6, <3>1, EasyFacts
  <2>3. host'.left + 1 = MaxReopens /\ host'.tries + spent'.late >= MaxTries
    BY <1>1, <1>2, <1>5, <1>6, <1>9, EasyFacts DEF Sending
  <2>4. \E n \in Way' : n.id = "EXEC" /\ (host'.at = "VERS" => n.sock < host'.sock)
    BY <1>7, <2>1, <2>2
  <2>5. \A n \in Way' : n.id # "REBT" /\ (n.id = "EXEC" => n.img = "fw_kept")
    BY <1>7, <1>9 DEF Sending
  <2>. QED BY <1>1, <1>6, <1>8, <1>9, <2>3, <2>4, <2>5 DEF Sending
<1>10. ASSUME Starting PROVE Starting'
  BY <1>1, <1>6, <1>8, <1>10, EasyFacts DEF Starting
<1>11. ASSUME Replaced PROVE Replaced'
  BY <1>1, <1>6, <1>7, <1>8, <1>11, EasyFacts DEF Replaced, Fresh, Unheard
<1>12. Sending' \/ Starting' \/ Replaced'
  BY <1>1, <1>9, <1>10, <1>11, EasyFacts
<1>13. Kept' /\ Harmless'
  BY <1>1, <1>6, <1>7 DEF Easy, Smooth, Kept, Harmless
<1>. QED BY <1>6, <1>12, <1>13 DEF Smooth, Asking, Serving, Changing

\* The console that answers is the one that was asked.
LEMMA SmoothFound ==
    ASSUME Easy, Found
    PROVE  Smooth'
<1>1. /\ Open(host) /\ host.at = "FIND" /\ host.ver = "none" /\ ~host.again /\ ~host.updated
      /\ con' = con
  BY EasyFacts DEF Found, Consume, HostOK, Easy, JobFits
<1>2. Fresh
  BY <1>1, EasyFacts DEF Legs
<1>. QED BY <1>1, <1>2, EasyFacts, OpensSmoothly

LEMMA SmoothVersion ==
    ASSUME Easy, RecvVersion
    PROVE  Smooth'
<1>. DEFINE v == Head(toHost).ver
            h == [host EXCEPT !.ver = v, !.caps = FALSE]
<1>1. /\ host.at = "VERS" /\ toHost # << >> /\ toHost' = Tail(toHost) /\ con' = con
      /\ Takes(Head(toHost)) /\ host.link
      /\ (h.ver = "dcload" /\ Connected(h)) \/ Ask(h, "CAPS")
  BY DEF RecvVersion, Got, Consume, Takes
<1>2. Head(toHost) \in Coming /\ v \in AllLoaders \cup {"file"} /\ Head(toHost).to = host.sock
  BY <1>1, EasyFacts, ReadsFirst DEF Answers, Takes
<1>3. Fresh /\ (host.again => con.loader = "new" /\ v = "new")
  <2>1. CASE ~host.again
    BY <1>1, <2>1, EasyFacts DEF Legs
  <2>2. CASE host.again
    <3>1. ~Sending /\ ~Starting
      BY <1>1, <1>2 DEF Sending, Starting, Unheard
    <3>2. Replaced
      BY <1>1, <2>2, <3>1, EasyFacts
    <3>. QED BY <1>1, <1>2, <3>2 DEF Replaced
  <2>. QED BY <2>1, <2>2
<1>4. /\ h \in Hosts /\ h.img = host.img /\ h.job = host.job /\ h.again = host.again
      /\ h.updated = host.updated /\ h.told = host.told /\ h.link = host.link /\ h.ver = v
  <2>. HIDE DEF v
  <2>. QED BY <1>2, EasyFacts DEF Hosts
<1>. HIDE DEF v, h
<1>5. Going(h)
  BY <1>1, <1>3, <1>4, EasyFacts DEF Going
<1>6. CASE h.ver = "dcload" /\ Connected(h)
  BY <1>3, <1>4, <1>5, <1>6, EasyFacts, ConnectedSmooth
<1>7. CASE Ask(h, "CAPS")
  BY <1>3, <1>4, <1>5, <1>7, EasyFacts, AsksSmoothly DEF Legs
<1>. QED BY <1>1, <1>6, <1>7 DEF h

LEMMA SmoothCapabilities ==
    ASSUME Easy, RecvCapabilities
    PROVE  Smooth'
<1>. DEFINE h == [host EXCEPT !.caps = TRUE]
<1>1. host.at = "CAPS" /\ Connected(h) /\ con' = con /\ host.link
  BY DEF RecvCapabilities, Consume, Got, Takes
<1>2. /\ h \in Hosts /\ h.img = host.img /\ h.job = host.job /\ h.again = host.again
      /\ h.updated = host.updated /\ h.told = host.told /\ h.link = host.link /\ h.caps
  BY EasyFacts, Becomes
<1>3. Fresh /\ (host.again => con.loader = "new" /\ Updates(host.job))
  BY <1>1, EasyFacts DEF Legs, Replaced, Easy, JobFits
<1>. HIDE DEF h
<1>4. Going(h)
  BY <1>1, <1>2, <1>3, EasyFacts DEF Going
<1>. QED BY <1>1, <1>2, <1>3, <1>4, EasyFacts, ConnectedSmooth

LEMMA SmoothProbe ==
    ASSUME Easy, RecvProbe
    PROVE  Excused' \/ Smooth'
<1>. DEFINE i == IF Head(toHost).dhcp THEN "fw_dhcp" ELSE "fw_kept"
            h == [host EXCEPT !.img = i]
<1>1. host.at = "SBIN" /\ Ask(h, "LBIN") /\ con' = con /\ host.link /\ i \in {"fw_dhcp", "fw_kept"}
  BY DEF RecvProbe, Consume, Got, Takes
<1>. HIDE DEF i
<1>2. /\ h \in Hosts /\ h.img = i /\ h.job = host.job /\ h.again = host.again
      /\ h.updated = host.updated /\ h.told = host.told /\ h.link = host.link
  BY <1>1, EasyFacts DEF Hosts, Images
<1>. HIDE DEF h
<1>3. ~host.again /\ Fresh
  BY <1>1, EasyFacts DEF Legs, Easy, JobFits
<1>4. CASE i = "fw_dhcp"
  <2>1. host'.img = "fw_dhcp"
    BY <1>1, <1>2, <1>4, AskFields DEF Legs
  <2>. QED BY <2>1 DEF Excused
<1>5. CASE i = "fw_kept"
  <2>1. Going(h)
    BY <1>1, <1>2, <1>3, <1>5, EasyFacts DEF Going
  <2>. QED BY <1>1, <1>2, <1>3, <2>1, EasyFacts, AsksSmoothly DEF Legs
<1>. QED BY <1>1, <1>4, <1>5

LEMMA SmoothAck ==
    ASSUME Easy, RecvAck
    PROVE  Smooth'
<1>1. /\ host.at \in {"LBIN", "DBIN", "EXEC"} /\ con' = con /\ host.link /\ spent' = spent
      /\ ~host.again /\ toHost # << >> /\ toHost' = Tail(toHost)
  BY DEF RecvAck, Consume, Takes, Easy, JobFits
<1>2. host.at # "EXEC" => Fresh /\ Going(host)
  BY <1>1, EasyFacts DEF Legs, Going
<1>3. CASE host.at = "LBIN" /\ Ask(host, "DBIN")
  BY <1>1, <1>2, <1>3, EasyFacts, AsksSmoothly DEF Legs
<1>4. CASE host.at = "DBIN" /\ host.img # "prog" /\ SendTrampoline(host)
  <2>. DEFINE d == DropLink(host)
  <2>1. /\ d \in Hosts /\ d.img = host.img /\ d.updated = host.updated /\ d.told = host.told
    BY EasyFacts DEF DropLink, Hosts
  <2>2. /\ host' = [d EXCEPT !.at = "settle", !.again = TRUE, !.left = MaxReopens]
        /\ toCon' = Sent(host, "EXEC")
    BY <1>4, EasyFacts DEF SendTrampoline
  <2>. HIDE DEF d
  <2>3. /\ host'.at = "settle" /\ host'.again /\ host'.left = MaxReopens /\ host'.img = "fw_kept"
        /\ host'.updated = host.updated /\ host'.told = host.told
    BY <1>4, <2>1, <2>2, EasyFacts DEF Hosts
  <2>4. /\ \A m \in Way' : m \in Way \/ (m.id = "EXEC" /\ m.img = "fw_kept")
        /\ \E m \in Way' : m.id = "EXEC"
    BY <1>1, <1>2, <1>4, <2>2, EasyFacts, Reaches DEF Commands, Fresh
  <2>5. ~host.updated
    BY <1>4 DEF Easy, JobFits
  <2>6. Sending'
    BY <1>1, <1>2, <1>4, <2>3, <2>4 DEF Sending, Fresh
  <2>7. Kept' /\ Harmless'
    BY <1>1, <1>2, <1>4, <2>3, <2>4, <2>5, EasyFacts DEF Kept, Harmless, Fresh
  <2>. QED BY <2>3, <2>6, <2>7 DEF Smooth, Asking, Serving, Changing, Legs
<1>5. CASE host.at = "DBIN" /\ host.img = "prog" /\ Ask(host, "EXEC")
  BY <1>1, <1>2, <1>5, EasyFacts, AsksSmoothly DEF Legs
<1>6. CASE host.at = "DBIN" /\ Finish(host, "ok")
  BY <1>2, <1>6, FinishesSmoothly
<1>7. CASE host.at = "EXEC" /\ host' = [host EXCEPT !.at = "console"] /\ toCon' = toCon
  <2>1. /\ host'.at = "console" /\ host'.img = host.img /\ host'.updated = host.updated
        /\ host'.told = host.told /\ host'.again = host.again /\ Way' = Way
    BY <1>7, EasyFacts DEF Hosts, Way
  <2>2. Kept' /\ Harmless' /\ Serving'
    BY <1>1, <1>7, <2>1 DEF Easy, Smooth, Kept, Harmless, Serving
  <2>. QED BY <1>1, <2>1, <2>2 DEF Smooth, Asking, Changing, Legs
<1>. QED BY <1>1, <1>3, <1>4, <1>5, <1>6, <1>7 DEF RecvAck, Loaded

LEMMA SmoothServe ==
    ASSUME Easy, Serve
    PROVE  Smooth'
<1>1. /\ host.at = "console" /\ con' = con /\ spent' = spent /\ toHost' = Tail(toHost) /\ toHost # << >>
  BY DEF Serve, Consume, Got
<1>2. Coming' \subseteq Coming
  BY <1>1, EasyFacts, ReadsFirst
<1>3. CASE toCon' = Sent(host, "RETV") /\ host' = host
  <2>1. Way \subseteq Way' /\ \A m \in Way' : m \in Way \/ m.id = "RETV"
    BY <1>3, EasyFacts, Reaches DEF Commands
  <2>. QED BY <1>1, <1>2, <1>3, <2>1, StaysSmooth DEF Easy, Legs
<1>4. CASE Finish(host, "ok")
  <2>1. /\ host'.at = "done" /\ host'.told = "ok" /\ toCon' = toCon
        /\ host'.img = host.img /\ host'.updated = host.updated
    BY <1>4, EasyFacts, FinishFields
  <2>2. Way' = Way
    BY <2>1 DEF Way
  <2>. QED BY <1>1, <2>1, <2>2, EasyFacts, EndsSmoothly DEF Easy, Smooth
<1>. QED BY <1>3, <1>4 DEF Serve

LEMMA SmoothIgnore ==
    ASSUME Easy, Ignore
    PROVE  Smooth'
<1>1. /\ host' = host /\ toCon' = toCon /\ con' = con /\ spent' = spent
      /\ Coming' \subseteq Coming
      /\ host.at \in Legs => \A a \in Coming : Fits(a) => a \in Coming'
  BY Disregards DEF Easy
<1>2. Way' = Way
  BY <1>1 DEF Way
<1>. QED BY <1>1, <1>2, StaysSmooth DEF Easy

LEMMA SmoothResend ==
    ASSUME Easy, Resend
    PROVE  Smooth'
<1>. DEFINE n == host.tries - 1
<1>1. /\ host.at \in Legs /\ host.tries > 0 /\ con' = con /\ toHost' = toHost
      /\ host' = [host EXCEPT !.tries = n] /\ toCon' = Sent(host, host.at)
      /\ (host.again => con.at # "booting") /\ host.link
  BY EasyFacts DEF Resend, HostOK
<1>2. n \in Nat /\ n = host.tries - 1
  BY <1>1, EasyFacts
<1>. HIDE DEF n
<1>3. /\ host'.at = host.at /\ host'.sock = host.sock /\ host'.n = host.n /\ host'.img = host.img
      /\ host'.port = host.port /\ host'.again = host.again /\ host'.updated = host.updated
      /\ host'.told = host.told /\ host'.left = host.left /\ host'.tries = n
  BY <1>1, <1>2, EasyFacts DEF Hosts
<1>4. Coming' = Coming
  BY <1>1 DEF Coming
<1>5. /\ Way \subseteq Way'
      /\ \A m \in Way' : m \in Way \/ (m.id = Wanted /\ m.sock = host.sock /\ m.img = host.img)
      /\ con.at \notin {"booting", "dead"} => \E m \in Way' : Due(m)
  <2>1. host.at \in Commands \cup {"FIND"}
    BY <1>1 DEF Legs, Commands
  <2>2. Wanted = IF host.at = "FIND" THEN "VERS" ELSE host.at
    BY DEF Wanted
  <2>. QED BY <1>1, <2>1, <2>2, EasyFacts, Reaches DEF Due
<1>6. /\ Wanted # "REBT" /\ (Wanted = "EXEC" <=> host.at = "EXEC")
      /\ host.at = "EXEC" => host.img = "prog"
  BY <1>1, EasyFacts DEF Wanted, Legs, HostOK
<1>7. Sending => host'.tries + spent'.late >= MaxTries
  <2>. SUFFICES ASSUME Sending PROVE host'.tries + spent'.late >= MaxTries
    OBVIOUS
  <2>1. ~Quiet
    BY NotQuiet
  <2>2. spent'.late = spent.late + 1
    <3>. DEFINE t == spent.late + 1
    <3>1. spent' = [spent EXCEPT !.late = t]
      BY <2>1 DEF Resend
    <3>. HIDE DEF t
    <3>2. spent'.late = t
      BY <3>1, EasyFacts DEF Counts
    <3>. QED BY <3>2 DEF t
  <2>3. host.at = "VERS" => host.tries + spent.late >= MaxTries
    BY DEF Sending
  <2>4. host.at = "VERS"
    <3>1. con.at = "idle" /\ ~Fresh
      BY DEF Sending, Fresh
    <3>2. CASE host.again
      BY <1>1, <3>1, <3>2, EasyFacts DEF Easy, JobFits, Legs, Replaced
    <3>3. CASE ~host.again
      <4>1. host.at = "EXEC"
        BY <1>1, <3>1, <3>3, EasyFacts
      <4>2. \A m \in Way : m.id = "EXEC" => m.img = "prog"
        BY <4>1 DEF Easy, Smooth, Serving
      <4>. QED BY <4>2 DEF Sending
    <3>. QED BY <3>2, <3>3
  <2>. QED BY <1>2, <1>3, <2>2, <2>3, <2>4, EasyFacts
<1>8. host.again => con.at # "booting" /\ \E m \in Way' : Due(m)
  BY <1>1, <1>5, EasyFacts
<1>. QED BY <1>1, <1>3, <1>4, <1>5, <1>6, <1>7, <1>8, StaysSmooth DEF Easy

LEMMA SmoothGiveUp ==
    ASSUME Easy, GiveUp
    PROVE  Smooth'
<1>1. /\ host.at \in Legs /\ Quiet /\ Exhausted /\ con' = con /\ spent' = spent /\ toHost' = toHost
  BY DEF GiveUp
<1>2. ~(Fresh /\ Expected) /\ ~Handed /\ ~Sending
  BY <1>1, NotQuiet
<1>3. host.at = "VERS" /\ host.again /\ ~host.updated
  <2>1. host.at # "EXEC" /\ host.again
    BY <1>1, <1>2, EasyFacts
  <2>2. host.at # "CAPS"
    BY <1>2, EasyFacts, <2>1 DEF Replaced
  <2>. QED BY <1>1, <2>1, <2>2 DEF Easy, JobFits, Legs
<1>4. Starting \/ Replaced
  BY <1>2, <1>3, EasyFacts
<1>5. host.left = 0 => con.at = "booting"
  <2>1. CASE Starting
    BY <2>1 DEF Starting
  <2>2. CASE Replaced
    <3>1. con.at = "idle" /\ ~Expected
      BY <1>2, <2>2 DEF Replaced, Fresh
    <3>2. host.tries = 0
      BY <1>1, <3>1 DEF Exhausted
    <3>. QED BY <1>3, <2>2, <3>1, <3>2 DEF Replaced
  <2>. QED BY <1>4, <2>1, <2>2
<1>6. host' = [host EXCEPT !.at = "settle", !.link = FALSE] /\ toCon' = toCon
  BY <1>3, <1>5 DEF GiveUp
<1>7. /\ host'.at = "settle" /\ host'.again /\ host'.img = host.img /\ ~host'.updated
      /\ host'.told = host.told /\ Way' = Way
  BY <1>3, <1>6, EasyFacts DEF Hosts, Way
<1>8. Starting' \/ Replaced'
  BY <1>1, <1>4, <1>7 DEF Starting, Replaced, Fresh
<1>9. Kept' /\ Harmless'
  BY <1>1, <1>3, <1>7 DEF Easy, Smooth, Kept, Harmless
<1>. QED BY <1>7, <1>8, <1>9 DEF Smooth, Asking, Serving, Changing, Legs

LEMMA SmoothKill ==
    ASSUME Easy, Kill
    PROVE  Smooth'
<1>1. /\ host' = [host EXCEPT !.at = "done", !.link = FALSE, !.told = "killed"]
      /\ con' = con /\ toCon' = toCon
  BY DEF Kill
<1>2. /\ host'.at = "done" /\ host'.told = "killed" /\ host'.img = host.img
      /\ host'.updated = host.updated /\ Way' = Way
  BY <1>1, EasyFacts DEF Hosts, Way
<1>. QED BY <1>1, <1>2, EasyFacts, EndsSmoothly DEF Easy, Smooth

-----------------------------------------------------------------------------
(* The steps of the console in such an invocation.                         *)

\* A command that is answered in the main loop.
LEMMA ReadsSmoothly ==
    ASSUME Easy, NEW m, Reading(m), m.id \notin {"EXEC", "REBT"}, Way = Way' \cup {m},
           con'.loader = con.loader, con'.here = con.here,
           con'.at = con.at \/ (con.at = "waiting" /\ con'.at = "running"), spent' = spent,
           \/ Coming' = Coming /\ ~Due(m)
           \/ \E x : /\ Coming' = Coming \cup {x} /\ x.to = m.sock /\ x.ver = con.loader
                     /\ Due(m) => Fits(x)
    PROVE  Smooth'
<1>1. /\ host' = host /\ m \in Way /\ con.at \in {"idle", "waiting"}
      /\ \A k \in Way' : Beyond(k, m.sock, Rank(m.id))
  BY DEF Reading, Drained
<1>2. (\A a : Fits(a)' <=> Fits(a)) /\ (\A k : Due(k)' <=> Due(k)) /\ Wanted' = Wanted
  BY <1>1 DEF Fits, Due, Wanted
<1>3. Coming \subseteq Coming' /\ (Due(m) => \E a \in Coming' : Fits(a))
  OBVIOUS
<1>4. Expected => Expected'
  BY <1>2, <1>3 DEF Expected
<1>5. Handed => Handed'
  <2>1. ASSUME con.at = "idle", NEW k \in Way, Due(k)
        PROVE  (con'.at = "idle" /\ \E j \in Way' : Due(j)) \/ \E a \in Coming' : Fits(a)
    BY <1>3, <2>1
  <2>. QED BY <1>2, <1>3, <2>1 DEF Handed
<1>6. Fresh => Fresh'
  BY DEF Fresh
<1>7. Kept' /\ Harmless'
  BY <1>1 DEF Easy, Smooth, Kept, Harmless
<1>8. Asking'
  BY <1>1, <1>4, <1>6 DEF Easy, Smooth, Asking
<1>9. Serving'
  BY <1>1, <1>5 DEF Easy, Smooth, Serving
<1>10. Changing'
  <2>. SUFFICES ASSUME host.again, host.at # "done"
                PROVE  /\ host.at = "CAPS" => Replaced'
                       /\ Sending' \/ Starting' \/ Replaced'
    BY <1>1 DEF Changing
  <2>1. /\ host.at \in {"settle", "VERS", "CAPS"} /\ (host.at = "CAPS" => Replaced)
        /\ Sending \/ Replaced
    BY <1>1 DEF Easy, Smooth, Changing, JobFits, Starting
  <2>2. ASSUME Sending PROVE Sending'
    <3>1. PICK k \in Way : k.id = "EXEC" /\ (host.at = "VERS" => k.sock < host.sock)
      BY <2>2 DEF Sending
    <3>2. k \in Way'
      BY <3>1
    <3>3. host.at = "VERS" => m.sock # host.sock
      <4>1. m.sock <= k.sock /\ m.sock \in Nat /\ k.sock \in Nat
        <5>1. m.sock \in Nat /\ k.sock \in Nat
          BY <1>1, WayTypes DEF Easy, InTouch
        <5>. QED BY <1>1, <3>2, <5>1 DEF Beyond
      <4>. QED BY <3>1, <4>1, EasyFacts
    <3>4. host.at = "VERS" => Unheard'
      BY <1>1, <2>2, <3>3 DEF Sending, Unheard
    <3>. QED BY <1>1, <2>2, <3>1, <3>2, <3>4 DEF Sending
  <2>3. ASSUME Replaced PROVE Replaced'
    <3>1. Fresh' /\ con'.loader = "new"
      BY <1>6, <2>3 DEF Replaced
    <3>2. /\ host.at = "CAPS" => Expected'
          /\ host.at = "VERS" => Expected' \/ host'.left > 0 \/ host'.tries > 0
      BY <1>1, <1>4, <2>3 DEF Replaced
    <3>3. host.at = "VERS" => \A a \in Coming' : a.to = host'.sock => a.ver = "new"
      BY <1>1, <2>3 DEF Replaced
    <3>. QED BY <1>1, <3>1, <3>2, <3>3 DEF Replaced
  <2>. QED BY <2>1, <2>2, <2>3
<1>. QED BY <1>7, <1>8, <1>9, <1>10 DEF Smooth

\* A command that is due was sent by this tool, in its protocol.
LEMMA DueOurs ==
    ASSUME Easy, NEW m \in Way, Due(m), host.at \in Legs
    PROVE  /\ host.at # "FIND" => /\ m.port = host.port /\ m.v = Version(host) /\ m.n = host.n
                                  /\ host.port = PortOf(host.job)
           /\ host.at \in {"LBIN", "EXEC"} => m.img = host.img
           /\ host.at = "CAPS" => con.port = host.port
<1>1. host.link /\ host.port = PortOf(host.job)
  BY EasyFacts DEF HostOK
<1>2. Current(m)
  BY <1>1 DEF Easy, InTouch, WayOK, Due
<1>3. host.at \in {"LBIN", "EXEC"} => Rank(m.id) >= 4
  BY Ranks DEF Due, Wanted
<1>4. host.at = "CAPS" => Greeted
  <2>. SUFFICES ASSUME host.at = "CAPS" PROVE Greeted
    OBVIOUS
  <2>1. Standing(Level(host.at) - 1) /\ Level(host.at) = 2
    BY <1>1, Levels DEF Easy, InTouch, AnswersOK
  <2>2. Standing(1)
    BY <2>1
  <2>. QED BY <2>2 DEF Standing
<1>. QED BY <1>1, <1>2, <1>3, <1>4 DEF Current, Greeted

\* Its answer fits.
LEMMA Suits ==
    ASSUME Easy, NEW m \in Way, Due(m), NEW x, x.to = m.sock, x.id = m.id, x.n = m.n, x.img = m.img,
           m.id \in Replies,
           \/ x.from = m.port
           \/ m.id = "VERS" /\ x.from = IF m.v < 2 THEN "legacy" ELSE m.port
           \/ m.id = "CAPS" /\ x.from = con.port
    PROVE  Fits(x)
<1>1. host.at \in Legs
  <2>1. host.at \in Phases
    BY EasyFacts DEF Hosts
  <2>. QED BY <2>1 DEF Due, Wanted, Replies, Legs, Phases
<1>2. /\ host.at # "FIND" => /\ m.port = host.port /\ m.v = Version(host) /\ m.n = host.n
                             /\ host.port = PortOf(host.job)
      /\ host.at \in {"LBIN", "EXEC"} => m.img = host.img
      /\ host.at = "CAPS" => con.port = host.port
  BY <1>1, DueOurs
<1>3. m.v = Version(host) /\ m.v < 2 => PortOf(host.job) = "legacy"
  BY DEF Version, PortOf
<1>4. host.at # "FIND" => x.from = host.port
  BY <1>2, <1>3 DEF Due, Wanted
<1>. QED BY <1>2, <1>4 DEF Fits, Due, Wanted


\* EXECUTE: of the program by the tool that waits for it, of the new loader in an
\* update, or of what an invocation that was interrupted has left.
LEMMA SmoothExecute ==
    ASSUME Patient, Easy, NEW m, Reading(m), m.id = "EXEC", CmdExecute(m), spent' = spent,
           con'.at # "booting" => Way = Way' \cup {m},
           con'.at = "booting" => Way' = {}
    PROVE  Smooth'
<1>1. /\ host' = host /\ m \in Way /\ m \in Datagrams /\ con.at \in {"idle", "waiting"} /\ ~Fresh
      /\ \A k \in Way' : k \in Way
      /\ m.port \in Ports /\ m.sock \in Nat
  BY DEF Reading, Drained, Fresh, Datagrams
<1>2. (\A a : Fits(a)' <=> Fits(a)) /\ (\A k : Due(k)' <=> Due(k))
  BY <1>1 DEF Fits, Due, Wanted
<1>3. /\ m.img = "prog" \/ (m.img = "fw_kept" /\ ~host.updated)
      /\ host.at \in {"EXEC", "console"} => m.img = "prog"
      /\ host.at = "EXEC" => m.sock = host.sock /\ Due(m)
      /\ host.at \in Legs => host.at = "EXEC" \/ host.again
  BY <1>1, EasyFacts DEF Easy, Smooth, Harmless, Serving, Due, Wanted
<1>4. host.again /\ host.at # "done" =>
        Sending /\ host.at \in {"settle", "VERS"} /\ con.at = "idle" /\ m.img = "fw_kept"
  <2>. SUFFICES ASSUME host.again, host.at # "done"
                PROVE  Sending /\ host.at \in {"settle", "VERS"} /\ con.at = "idle" /\ m.img = "fw_kept"
    OBVIOUS
  <2>1. Sending /\ host.at # "CAPS"
    BY <1>1, EasyFacts DEF Starting, Replaced
  <2>. QED BY <1>1, <2>1 DEF Sending, Easy, JobFits
<1>5. CASE con.at # "idle" /\ UNCHANGED <<con, toHost>>
  <2>1. con' = con /\ Coming' = Coming /\ con'.at # "booting"
    BY <1>1, <1>5 DEF Coming
  <2>2. Kept' /\ Harmless'
    BY <1>1, <2>1 DEF Easy, Smooth, Kept, Harmless
  <2>3. Handed => Handed'
    BY <1>2, <1>5, <2>1 DEF Handed
  <2>4. Serving'
    BY <1>1, <2>1, <2>3 DEF Easy, Smooth, Serving
  <2>. QED BY <1>1, <1>3, <1>4, <1>5, <2>2, <2>4 DEF Smooth, Asking, Changing
<1>6. CASE /\ con.at = "idle" /\ m.img = "prog" /\ Reply(m, "EXEC", m.port)
           /\ con'.at = "running" /\ con'.here = con.here /\ con'.loader = con.loader
  <2>1. PICK x \in Answers : /\ Coming' = Coming \cup {x}
                             /\ x.to = m.sock /\ x.id = "EXEC" /\ x.from = m.port
                             /\ x.n = m.n /\ x.img = m.img /\ x.ver = con.loader
    BY <1>1, <1>6, EasyFacts, DeliversReply DEF Replies
  <2>2. Kept' /\ Harmless'
    BY <1>1, <1>6 DEF Easy, Smooth, Kept, Harmless
  <2>3. host.at = "EXEC" => Fits(x)
    BY <1>1, <1>3, <2>1, Suits DEF Replies
  <2>4. Serving'
    BY <1>1, <1>2, <1>6, <2>1, <2>3 DEF Easy, Smooth, Serving, Handed
  <2>. QED BY <1>1, <1>3, <1>4, <1>6, <2>2, <2>4 DEF Smooth, Asking, Changing
<1>7. CASE /\ con.at = "idle" /\ m.img # "prog" /\ Reply(m, "EXEC", m.port)
           /\ con'.at = "booting" /\ con'.here = con.here /\ con'.loader = con.loader
           /\ con'.mem = con.mem /\ con.mem.img = m.img
  <2>1. PICK x \in Answers : Coming' = Coming \cup {x} /\ x.to = m.sock
    BY <1>1, <1>7, EasyFacts, DeliversReply DEF Replies
  <2>2. Way' = {} /\ con'.mem.img = "fw_kept" /\ ~host.updated
        /\ host.at \notin {"EXEC", "console"}
    BY <1>3, <1>7
  <2>3. Kept' /\ Harmless' /\ Serving'
    BY <1>1, <1>7, <2>2, EasyFacts DEF Kept, Harmless, Serving
  <2>4. ASSUME host.again, host.at = "VERS"
        PROVE  Unheard' /\ (host.left > 0 \/ host.tries > 0)
    <3>1. Sending
      BY <1>4, <2>4
    <3>2. m.sock # host.sock
      <4>. SUFFICES ASSUME m.sock = host.sock PROVE FALSE
        OBVIOUS
      <4>1. host.link
        BY <2>4, EasyFacts DEF HostOK, Legs
      <4>2. Current(m) /\ Rank(m.id) = 6
        BY <1>1, <4>1, Ranks DEF Easy, InTouch, WayOK
      <4>. QED BY <2>4, <4>2, Levels DEF Current
    <3>3. Unheard'
      BY <1>1, <2>1, <2>4, <3>1, <3>2 DEF Sending, Unheard
    <3>4. host.left + 1 = MaxReopens /\ host.tries + spent.late >= MaxTries /\ spent.late <= MaxLate
      BY <2>4, <3>1 DEF Sending, Easy
    <3>5. host.left > 0 \/ host.tries > 0
      BY <3>4, EasyFacts DEF Patient
    <3>. QED BY <3>3, <3>5
  <2>5. Changing'
    <3>. SUFFICES ASSUME host.again, host.at # "done" PROVE Starting' /\ host.at # "CAPS"
      BY <1>1 DEF Changing
    <3>. QED BY <1>1, <1>4, <1>7, <2>2, <2>4 DEF Starting
  <2>. QED BY <1>1, <1>3, <1>7, <2>2, <2>3, <2>5 DEF Smooth, Asking
<1>. DEFINE good == con.mem = [n |-> m.n, img |-> m.img, whole |-> TRUE, used |-> FALSE]
<1>8. con.at = "idle" => good /\ con.mem.img = m.img
  BY Ready DEF Easy, Holding
<1>9. con \in Consoles /\ con.mem \in Memories
  BY EasyFacts DEF Consoles
<1>10. CASE /\ con.at = "idle" /\ m.img = "prog" /\ Reply(m, "EXEC", m.port)
            /\ con' = [con EXCEPT !.at = "running", !.run = m.n, !.good = good,
                                  !.tool = m.sock, !.calls = 0, !.mem.used = TRUE]
  <2>. HIDE DEF good
  <2>1. con'.at = "running" /\ con'.here = con.here /\ con'.loader = con.loader
    BY <1>9, <1>10 DEF Consoles
  <2>. QED BY <1>6, <1>10, <2>1
<1>11. CASE /\ con.at = "idle" /\ m.img # "prog" /\ Reply(m, "EXEC", m.port)
            /\ con' = [con EXCEPT !.at = IF good THEN "booting" ELSE "dead", !.tool = m.sock]
  <2>. HIDE DEF good
  <2>1. con' = [con EXCEPT !.at = "booting", !.tool = m.sock]
    BY <1>8, <1>11
  <2>2. /\ con'.at = "booting" /\ con'.here = con.here /\ con'.loader = con.loader
        /\ con'.mem = con.mem
    BY <1>9, <2>1 DEF Consoles
  <2>. QED BY <1>7, <1>8, <1>11, <2>2
<1>. QED BY <1>5, <1>10, <1>11 DEF CmdExecute


\* A reset, asked for by an invocation that has ended.
LEMMA SmoothReboot ==
    ASSUME Easy, NEW m, Reading(m), m.id = "REBT", CmdReboot(m), Way' = {}
    PROVE  Smooth'
<1>1. host' = host /\ m \in Way /\ con.at \in {"idle", "waiting"} /\ ~Fresh /\ ~host.updated
  BY DEF Reading, Drained, Fresh, Easy, Smooth, Harmless
<1>2. host.at = "done"
  <2>1. host.at \notin {"EXEC", "console"}
    BY <1>1 DEF Easy, Smooth, Serving
  <2>2. host.again => host.at = "done"
    BY <1>1, EasyFacts DEF Sending, Starting, Replaced
  <2>3. host.at \in Phases /\ host.at \notin {"off", "updated"} /\ (host.at = "settle" => host.again)
    BY EasyFacts DEF Hosts, Easy, JobFits
  <2>. QED BY <1>1, <2>1, <2>2, <2>3, EasyFacts DEF Phases
<1>3. con'.at = "booting" /\ con'.here = con.here /\ con'.mem.img = "prog"
  <2>. DEFINE l == con.disc[1]
              d == con.disc[2]
              e == Empty
  <2>1. con' = [con EXCEPT !.at = "booting", !.mem = e, !.loader = l, !.dhcp = d] /\ con \in Consoles
    BY EasyFacts DEF CmdReboot
  <2>2. e.img = "prog"
    BY DEF Empty
  <2>. HIDE DEF l, d, e
  <2>. QED BY <2>1, <2>2 DEF Consoles
<1>4. Kept' /\ Harmless'
  BY <1>1, <1>3, EasyFacts DEF Kept, Harmless
<1>. QED BY <1>1, <1>2, <1>4 DEF Smooth, Asking, Serving, Changing, Legs

LEMMA SmoothReceive ==
    ASSUME Patient, Easy, Receive
    PROVE  Smooth'
<1>. DEFINE m == Head(toCon)
<1>1. /\ Shapes /\ WayOK /\ toCon # << >> /\ con.at \in {"idle", "waiting"} /\ con \in Consoles
      /\ host' = host /\ spent' = spent /\ spent \in Counts
  BY EasyFacts DEF Easy, InTouch, Receive
<1>2. m \in Way /\ m \in Datagrams
  <2>1. toCon \in Seq(Datagrams) /\ Len(toCon) \in Nat
    BY <1>1 DEF Shapes
  <2>. DEFINE q == toCon
  <2>. HIDE DEF q
  <2>2. q \in Seq(Datagrams) /\ q # << >> => Len(q) # 0
    BY EmptySeq
  <2>3. q \in Seq(Datagrams) /\ q # << >> => Head(q) = q[1] /\ 1 \in 1 .. Len(q) /\ q[1] \in Datagrams
    BY <2>2
  <2>. QED BY <1>1, <2>1, <2>3 DEF Way, q
<1>3. /\ Reading(m)
      /\ con'.at \notin {"booting", "dead"} => Way = Way' \cup {m}
      /\ con'.at \in {"booting", "dead"} => Way' = {}
  <2>1. CASE toCon' = Tail(toCon) /\ con'.at \notin {"booting", "dead"}
    BY <1>1, <2>1, TakesFirst DEF Reading, Drained
  <2>2. CASE toCon' = << >> /\ con'.at \in {"booting", "dead"}
    <3>1. toCon' \in Seq(Datagrams) /\ Len(toCon') = 0
      BY <2>2
    <3>2. Sorted(toCon)' /\ Way' = {}
      BY <3>1 DEF Sorted, Way
    <3>. QED BY <1>1, <1>2, <2>2, <3>1, <3>2 DEF Reading, Drained
  <2>. QED BY <2>1, <2>2 DEF Receive
<1>4. m.id \in Commands /\ m.port \in Ports /\ m.v \in Nat /\ m.img \in Images /\ m.n \in Nat
  BY <1>2 DEF Datagrams
<1>. HIDE DEF m
<1>5. /\ m.id = "VERS" => CmdVersion(m)
      /\ m.id = "CAPS" => CmdCapabilities(m)
      /\ m.id = "SBIN" => CmdSendbin(m)
      /\ m.id = "LBIN" => CmdLoadbin(m)
      /\ m.id = "DBIN" => CmdDonebin(m)
      /\ m.id = "EXEC" => CmdExecute(m)
      /\ m.id = "REBT" => CmdReboot(m)
      /\ m.id = "RETV" => CmdRetval(m)
  BY <1>4 DEF Receive, Commands, m
<1>6. ASSUME m.id \in {"VERS", "CAPS", "SBIN", "LBIN", "DBIN"}, NEW from \in Ports, Reply(m, m.id, from),
             \/ from = m.port
             \/ m.id = "VERS" /\ from = IF m.v < 2 THEN "legacy" ELSE m.port
             \/ m.id = "CAPS" /\ from = con.port,
             con'.loader = con.loader, con'.here = con.here, con'.at = con.at
      PROVE  Smooth'
  <2>1. m.id \in Replies
    BY <1>6 DEF Replies
  <2>2. PICK x \in Answers : /\ Coming' = Coming \cup {x}
                             /\ x.to = m.sock /\ x.id = m.id /\ x.from = from
                             /\ x.n = m.n /\ x.img = m.img /\ x.ver = con.loader
    BY <1>1, <1>2, <1>6, <2>1, DeliversReply
  <2>3. Due(m) => Fits(x)
    BY <1>2, <1>6, <2>1, <2>2, Suits
  <2>4. \E y : /\ Coming' = Coming \cup {y} /\ y.to = m.sock /\ y.ver = con.loader
               /\ Due(m) => Fits(y)
    BY <2>2, <2>3
  <2>5. Way = Way' \cup {m}
    BY <1>1, <1>3, <1>6
  <2>. QED BY <1>1, <1>3, <1>6, <2>4, <2>5, ReadsSmoothly
<1>7. CASE m.id = "VERS"
  <2>. DEFINE p == IF m.v < 2 THEN "legacy" ELSE m.port
  <2>1. con' = [con EXCEPT !.v = m.v, !.port = p] /\ Reply(m, m.id, p) /\ p \in Ports
    BY <1>4, <1>5, <1>7 DEF CmdVersion, Ports
  <2>2. con'.loader = con.loader /\ con'.here = con.here /\ con'.at = con.at
    <3>. HIDE DEF p
    <3>. QED BY <1>1, <2>1 DEF Consoles
  <2>. QED BY <1>6, <1>7, <2>1, <2>2
<1>8. CASE m.id = "CAPS"
  <2>1. Reply(m, m.id, con.port) /\ con' = con /\ con.port \in Ports
    BY <1>1, <1>5, <1>8 DEF CmdCapabilities, Consoles
  <2>. QED BY <1>6, <1>8, <2>1
<1>9. CASE m.id = "SBIN"
  <2>1. Reply(m, m.id, m.port) /\ con' = con
    BY <1>5, <1>9 DEF CmdSendbin
  <2>. QED BY <1>4, <1>6, <1>9, <2>1
<1>10. CASE m.id = "LBIN"
  <2>. DEFINE e == [n |-> m.n, img |-> m.img, whole |-> FALSE, used |-> FALSE]
  <2>1. Reply(m, m.id, m.port) /\ con' = [con EXCEPT !.mem = e]
    BY <1>5, <1>10 DEF CmdLoadbin
  <2>. HIDE DEF e
  <2>2. con'.loader = con.loader /\ con'.here = con.here /\ con'.at = con.at
    BY <1>1, <2>1 DEF Consoles
  <2>. QED BY <1>4, <1>6, <1>10, <2>1, <2>2
<1>11. CASE m.id = "DBIN"
  <2>. DEFINE b == con.mem.n = m.n /\ con.mem.img = m.img
  <2>1. Reply(m, m.id, m.port) /\ con' = [con EXCEPT !.mem.whole = b]
    BY <1>5, <1>11 DEF CmdDonebin
  <2>. HIDE DEF b
  <2>2. con'.loader = con.loader /\ con'.here = con.here /\ con'.at = con.at
    BY <1>1, <2>1 DEF Consoles
  <2>. QED BY <1>4, <1>6, <1>11, <2>1, <2>2
<1>12. CASE m.id = "RETV"
  <2>1. /\ toHost' = toHost
        /\ con' = IF con.at = "waiting" /\ m.sock = con.tool THEN [con EXCEPT !.at = "running"] ELSE con
    BY <1>5, <1>12 DEF CmdRetval
  <2>2. /\ con'.loader = con.loader /\ con'.here = con.here
        /\ con'.at = con.at \/ (con.at = "waiting" /\ con'.at = "running")
    BY <1>1, <2>1 DEF Consoles
  <2>3. Coming' = Coming
    BY <2>1 DEF Coming
  <2>4. ~Due(m)
    <3>1. host.at \in Phases
      BY EasyFacts DEF Hosts
    <3>. QED BY <1>12, <3>1 DEF Due, Wanted, Phases, Legs
  <2>5. Way = Way' \cup {m}
    BY <1>1, <1>3, <2>2
  <2>. QED BY <1>1, <1>3, <1>12, <2>2, <2>3, <2>4, <2>5, ReadsSmoothly
<1>13. CASE m.id = "EXEC"
  <2>1. con'.at # "dead"
    <3>1. InTouch' => con'.at # "dead"
      BY DEF InTouch, RunOK, RunsWhole
    <3>2. con'.at \in {"booting", "dead"} => toCon' = << >>
      BY DEF Receive
    <3>. QED BY <1>3, <1>5, <1>13, <3>1, <3>2, StepExecute DEF Easy
  <2>. QED BY <1>1, <1>3, <1>5, <1>13, <2>1, SmoothExecute
<1>14. CASE m.id = "REBT"
  <2>. DEFINE l == con.disc[1]
              d == con.disc[2]
              e == Empty
  <2>1. con' = [con EXCEPT !.at = "booting", !.mem = e, !.loader = l, !.dhcp = d]
    BY <1>5, <1>14 DEF CmdReboot
  <2>. HIDE DEF l, d, e
  <2>2. con'.at = "booting"
    BY <1>1, <2>1 DEF Consoles
  <2>. QED BY <1>3, <1>5, <1>14, <2>2, SmoothReboot
<1>. QED BY <1>4, <1>7, <1>8, <1>9, <1>10, <1>11, <1>12, <1>13, <1>14 DEF Commands


\* The console that starts up answers where it did, as the new loader in an update.
LEMMA SmoothBoot ==
    ASSUME Easy, Boot
    PROVE  Smooth'
<1>1. /\ con.at = "booting" /\ host' = host /\ toCon' = toCon /\ toHost' = toHost /\ toCon = << >>
      /\ con \in Consoles /\ con.mem.img \in {"prog", "fw_kept"} /\ ~host.updated
  BY EasyFacts DEF Boot, Easy, InTouch, RunOK, Smooth, Kept
<1>2. Way' = {} /\ Way = {} /\ Coming' = Coming
  BY <1>1, NothingComes DEF Way, Coming
<1>3. con'.at = "idle" /\ con'.here /\ (con.mem.img = "fw_kept" => con'.loader = "new")
  <2>. DEFINE d == IF con.mem.img = "prog" THEN con.dhcp ELSE con.mem.img = "fw_dhcp"
              l == CASE con.mem.img = "prog" -> con.loader
                     [] con.mem.img = "fw_file" -> "file"
                     [] OTHER -> "new"
              e == Empty
  <2>1. \E here \in BOOLEAN :
           /\ con.mem.img \in {"prog", "fw_kept"} => here
           /\ con' = [con EXCEPT !.at = "idle", !.here = here, !.mem = e,
                                 !.port = "legacy", !.v = 0, !.tool = 0, !.run = 0,
                                 !.dhcp = d, !.loader = l]
    BY DEF Boot
  <2>2. con.mem.img = "fw_kept" => l = "new"
    OBVIOUS
  <2>. HIDE DEF d, l, e
  <2>3. con'.at = "idle" /\ con'.here /\ con'.loader = l
    BY <1>1, <2>1 DEF Consoles
  <2>. QED BY <2>2, <2>3
<1>4. Fresh'
  BY <1>2, <1>3 DEF Fresh
<1>5. /\ host.at \notin {"EXEC", "console"} /\ (host.at \in Legs => host.again)
      /\ host.again /\ host.at # "done" => Starting /\ host.at # "CAPS"
  BY <1>1, EasyFacts DEF Easy, Smooth, Serving, Fresh, Sending, Replaced
<1>6. host.again /\ host.at # "done" => Replaced' /\ host.at # "CAPS"
  <2>. SUFFICES ASSUME host.again, host.at # "done" PROVE Replaced' /\ host.at # "CAPS"
    OBVIOUS
  <2>1. Starting /\ host.at # "CAPS"
    BY <1>5
  <2>2. con'.loader = "new"
    BY <1>3, <2>1 DEF Starting
  <2>3. host.at = "VERS" => (\A a \in Coming' : a.to # host.sock) /\ (host.left > 0 \/ host.tries > 0)
    BY <1>2, <2>1 DEF Starting, Unheard
  <2>. QED BY <1>1, <1>4, <2>1, <2>2, <2>3 DEF Replaced
<1>7. Kept' /\ Harmless'
  BY <1>1, <1>2, <1>3, EasyFacts DEF Kept, Harmless
<1>. QED BY <1>1, <1>5, <1>6, <1>7 DEF Smooth, Asking, Serving, Changing

\* A program runs, and the answer to its EXECUTE is on its way or has come.
LEMMA RunsSmoothly ==
    ASSUME Easy, con.at = "running", host' = host, Way' \subseteq Way, Coming \subseteq Coming',
           con'.at \in {"idle", "waiting"}, con'.here = con.here, con'.loader = con.loader
    PROVE  Smooth'
<1>1. ~Fresh /\ (host.again => host.at = "done")
  BY EasyFacts DEF Fresh, Sending, Starting, Replaced
<1>5. host.at \in Legs => host.at = "EXEC"
  BY <1>1, EasyFacts DEF Legs
<1>2. Kept' /\ Harmless'
  BY DEF Easy, Smooth, Kept, Harmless
<1>3. Handed => Handed'
  BY DEF Handed, Fits, Wanted
<1>4. Serving'
  BY <1>3 DEF Easy, Smooth, Serving
<1>. QED BY <1>1, <1>2, <1>4, <1>5 DEF Smooth, Asking, Changing

LEMMA SmoothCall ==
    ASSUME Easy, Call
    PROVE  Smooth'
<1>1. /\ con.at = "running" /\ con \in Consoles /\ host' = host /\ toCon' = toCon
      /\ toHost' = Request("CALL")
  BY EasyFacts DEF Call
<1>2. Way' = Way /\ Coming \subseteq Coming'
  BY <1>1, EasyFacts, DeliversRequest DEF Way
<1>3. con'.at = "waiting" /\ con'.here = con.here /\ con'.loader = con.loader
  <2>. DEFINE c == con.calls + 1
  <2>1. con' = [con EXCEPT !.at = "waiting", !.calls = c, !.mem.used = TRUE]
    BY DEF Call
  <2>. HIDE DEF c
  <2>. QED BY <1>1, <2>1 DEF Consoles
<1>. QED BY <1>1, <1>2, <1>3, RunsSmoothly

LEMMA SmoothExit ==
    ASSUME Easy, Exit
    PROVE  Smooth'
<1>1. /\ con.at = "running" /\ con \in Consoles /\ host' = host /\ Shapes /\ WayOK
      /\ toHost' = Request("EXIT") /\ con' = [con EXCEPT !.at = "idle", !.mem.used = TRUE]
  BY EasyFacts DEF Exit, Easy, InTouch
<1>2. PICK n \in 0 .. Len(toCon) : toCon' = SubSeq(toCon, n + 1, Len(toCon))
  BY DEF Exit
<1>3. Way' \subseteq Way
  <2>. DEFINE q == toCon
              rest == SubSeq(q, n + 1, Len(q))
  <2>1. {rest[i] : i \in 1 .. Len(rest)} = {q[i] : i \in n + 1 .. Len(q)}
    <3>1. q \in Seq(Datagrams) /\ Sorted(q) /\ n \in 0 .. Len(q)
      BY <1>1 DEF Shapes, WayOK
    <3>. HIDE DEF q
    <3>. QED BY <3>1, Drops
  <2>2. Way' = {toCon[i] : i \in n + 1 .. Len(toCon)}
    BY <1>2, <2>1 DEF Way
  <2>3. \A i \in n + 1 .. Len(toCon) : i \in 1 .. Len(toCon)
    BY <1>1, WayTypes
  <2>. QED BY <2>2, <2>3 DEF Way
<1>4. Coming \subseteq Coming'
  BY <1>1, DeliversRequest
<1>5. con'.at = "idle" /\ con'.here = con.here /\ con'.loader = con.loader
  BY <1>1 DEF Consoles
<1>. QED BY <1>1, <1>3, <1>4, <1>5, RunsSmoothly


-----------------------------------------------------------------------------
(* The invariant, and what it is for.                                      *)

\* Late answers are bounded, and only Resend is hurt by one.
LEMMA FewLate ==
    ASSUME InTouch, spent.late <= MaxLate, [Next]_vars
    PROVE  spent'.late <= MaxLate
<1>1. spent \in Counts /\ spent.late \in Nat /\ MaxLate \in Nat
  BY SessionAssumption DEF InTouch, Shapes, Counts
<1>2. CASE spent' = spent
  BY <1>2
<1>3. ASSUME NEW h, Open(h) PROVE spent'.late <= MaxLate
  <2>. DEFINE t == spent.socks + 1
              n == h.n
  <2>1. spent' = [spent EXCEPT !.socks = t, !.runs = n]
    BY <1>3 DEF Open
  <2>. HIDE DEF t, n
  <2>. QED BY <1>1, <2>1 DEF Counts
<1>4. CASE spent.late < MaxLate /\ spent' = [spent EXCEPT !.late = @ + 1]
  BY <1>1, <1>4 DEF Counts
<1>5. CASE spent' = [spent EXCEPT !.kills = @ + 1]
  BY <1>1, <1>5 DEF Counts
<1>6. CASE spent' = [spent EXCEPT !.loss = @ + 1]
  BY <1>1, <1>6 DEF Counts
<1>7. CASE UNCHANGED vars
  BY <1>2, <1>7 DEF vars
<1>8. CASE \E job \in Jobs : Start(job)
  BY <1>3, <1>8 DEF Start
<1>9. CASE Tool
  BY <1>2, <1>3, <1>4, <1>9 DEF Tool, Reopen, GoOn, Found, RecvVersion, RecvCapabilities,
     RecvProbe, RecvAck, Serve, Ignore, Resend, GiveUp
<1>10. CASE Console
  BY <1>2, <1>10 DEF Console, Receive, Boot, Call, Exit
<1>. QED BY <1>5, <1>6, <1>7, <1>8, <1>9, <1>10 DEF Next, Kill, Lose

\* An invocation is in order when it begins.
LEMMA StartFits ==
    ASSUME InTouch, NEW job \in Jobs, Start(job)
    PROVE  JobFits(host')
<1>. DEFINE t == spent.runs + 1
            h == [NoTool EXCEPT !.n = t, !.job = job]
<1>1. Shapes /\ spent \in Counts /\ t \in Nat /\ Open(h)
  BY DEF InTouch, Shapes, Counts, Start
<1>2. job \in AllJobs /\ 0 \in 0 .. MaxTries /\ 0 \in 0 .. MaxReopens
  BY Consts
<1>. HIDE DEF t
<1>3. h \in Hosts /\ h.ver = "none" /\ h.img = "prog" /\ ~h.updated /\ ~h.again
  BY <1>1, <1>2 DEF NoTool, Hosts, Phases, Ports, Images
<1>. HIDE DEF h
<1>4. PICK o \in Hosts : \E id \in {"FIND", "VERS"} :
              /\ Ask(o, id) /\ o.link /\ o.sock = spent.socks + 1 /\ o.job = h.job
              /\ o.img = h.img /\ o.again = h.again /\ o.updated = h.updated
              /\ o.told = h.told /\ o.left = h.left
              /\ h.job # "run_found" => id = "VERS"
  BY <1>1, <1>3, OpensFields
<1>5. PICK id \in {"FIND", "VERS"} : Ask(o, id)
  BY <1>4
<1>6. host'.at = id /\ host'.img = "prog" /\ ~host'.again /\ ~host'.updated
  BY <1>3, <1>4, <1>5, AskFields DEF Legs
<1>. QED BY <1>6 DEF JobFits

LEMMA SmoothlyInit == Init => Smoothly
<1>1. Init => host = NoTool /\ spent.late = 0 /\ 0 <= MaxLate
  BY SessionAssumption DEF Init
<1>. QED BY <1>1 DEF Smoothly, JobFits, NoTool

LEMMA SmoothlyStep ==
    ASSUME Patient, InTouch, Smoothly, [Next]_vars
    PROVE  Smoothly'
<1>1. spent'.late <= MaxLate
  BY FewLate DEF Smoothly
<1>2. CASE \E job \in Jobs : Start(job)
  <2>1. JobFits(host') /\ (calm' => Smooth')
    BY <1>2, StartFits, SmoothStart
  <2>. QED BY <1>1, <2>1 DEF Smoothly
<1>3. CASE UNCHANGED vars
  <2>1. Way' = Way /\ Coming' = Coming /\ host' = host /\ con' = con /\ spent' = spent
    BY <1>3 DEF vars, Way, Coming
  <2>2. calm' => calm
    BY <1>3, Zenon DEF vars
  <2>3. Excused' <=> Excused
    BY <2>1 DEF Excused
  <2>4. Smooth' <=> Smooth
    BY <2>1 DEF Smooth, Kept, Harmless, Asking, Serving, Changing, Fresh, Expected, Handed, Sending,
       Starting, Replaced, Unheard, Due, Fits, Wanted
  <2>. QED BY <1>1, <2>1, <2>2, <2>3, <2>4 DEF Smoothly
<1>4. CASE Lose
  <2>1. host' = host /\ ~calm'
    BY <1>4, Zenon DEF Lose
  <2>. QED BY <1>1, <2>1 DEF Smoothly
<1>5. ASSUME JobKept, calm' => calm, host'.at # "off" => host.at # "off",
             Easy => Excused' \/ Smooth'
      PROVE  Smoothly'
  <2>1. JobFits(host') /\ (~Excused' => ~Excused)
    BY <1>5 DEF JobKept, Excused
  <2>2. calm' /\ host'.at # "off" /\ ~Excused' => Easy
    BY <1>5, <2>1 DEF Smoothly, Easy
  <2>. QED BY <1>1, <1>5, <2>1, <2>2 DEF Smoothly
<1>6. CASE Tool \/ Kill
  <2>1. JobKept
    BY <1>6, KeepsJob DEF Smoothly
  <2>2. calm' => calm
    BY <1>6, Zenon DEF Tool, Reopen, GoOn, Found, RecvVersion, RecvCapabilities, RecvProbe,
       RecvAck, Serve, Ignore, Resend, GiveUp, Kill, Consume
  <2>3. host.at = "off" => host' = host
    BY <1>6 DEF Tool, Reopen, GoOn, Found, RecvVersion, RecvCapabilities, RecvProbe,
       RecvAck, Serve, Ignore, Resend, GiveUp, Kill, Legs
  <2>4. Easy => ~GoOn
    BY DEF GoOn, Easy, JobFits, Excused
  <2>5. Easy => Excused' \/ Smooth'
    BY <1>6, <2>4, SmoothReopen, SmoothFound, SmoothVersion, SmoothCapabilities, SmoothProbe,
       SmoothAck, SmoothServe, SmoothIgnore, SmoothResend, SmoothGiveUp, SmoothKill DEF Tool
  <2>. QED BY <1>5, <2>1, <2>2, <2>3, <2>5
<1>7. CASE Console
  <2>1. host' = host
    BY <1>7 DEF Console, Receive, Boot, Call, Exit
  <2>2. calm' => calm
    BY <1>7, Zenon DEF Console, Receive, Boot, Call, Exit
  <2>3. JobKept
    BY <2>1 DEF JobKept, Smoothly
  <2>4. Easy => Smooth'
    BY <1>7, SmoothReceive, SmoothBoot, SmoothCall, SmoothExit DEF Console
  <2>. QED BY <1>5, <2>1, <2>2, <2>3, <2>4
<1>. QED BY <1>2, <1>3, <1>4, <1>6, <1>7 DEF Next

\* An invocation that finds the console idle and loses nothing does what it was asked
\* to, and the console stays where it was, if the tool has the patience for it
\* (perform_update, reconnect_after_update, prepare_comms): for every kind of
\* invocation and of loader, and for every number of earlier invocations, attempts,
\* late answers and interruptions.
THEOREM UndisturbedKept == ~Short /\ Patient => (Spec => []UndisturbedWorks)
<1>. SUFFICES ASSUME ~Short, Patient PROVE Spec => []UndisturbedWorks
  OBVIOUS
<1>1. Init => InTouch /\ Smoothly
  BY InTouchInit, SmoothlyInit
<1>2. (InTouch /\ Smoothly) /\ [Next]_vars => (InTouch /\ Smoothly)'
  BY InTouchStep, SmoothlyStep
<1>3. InTouch /\ Smoothly => UndisturbedWorks
  BY DEF Smoothly, Smooth, Kept, Excused, UndisturbedWorks
<1>. QED BY <1>1, <1>2, <1>3, PTL DEF Spec
=============================================================================
