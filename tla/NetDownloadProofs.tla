------------------------- MODULE NetDownloadProofs --------------------------
(***************************************************************************)
(* Proofs about NetDownload on any network, ordered or not: for all        *)
(* transfers, chunk sizes, limits of the re-request loop, losses and       *)
(* channel capacities.                                                     *)
(***************************************************************************)
EXTENDS NetDownload, SequenceTheorems, WellFoundedInduction, TLAPS

-----------------------------------------------------------------------------
(* The channel *)

\* What a send adds, or as much of it as there is room for.
LEMMA PutElements ==
    ASSUME NEW S, NEW ch \in Seq(S), NEW ms \in Seq(S)
    PROVE  /\ Put(ch, ms) \in Seq(S)
           /\ Len(Put(ch, ms)) <= Len(ch) + Len(ms)
           /\ \A j \in 1 .. Len(Put(ch, ms)) :
                  Put(ch, ms)[j] = IF j <= Len(ch) THEN ch[j] ELSE ms[j - Len(ch)]
<1>. DEFINE both == ch \o ms
<1>1. /\ both \in Seq(S) /\ Len(both) = Len(ch) + Len(ms)
      /\ \A j \in 1 .. Len(both) : both[j] = IF j <= Len(ch) THEN ch[j] ELSE ms[j - Len(ch)]
  BY ConcatProperties
<1>2. CASE Len(ch) + Len(ms) <= Cap
  BY <1>1, <1>2 DEF Put
<1>3. CASE ~(Len(ch) + Len(ms) <= Cap)
  <2>1. Cap \in Nat /\ Cap \in Int /\ 1 \in Int /\ Len(ch) \in Nat /\ Len(ms) \in Nat
    BY ChannelAssumption
  <2>. HIDE DEF both
  <2>2. \A j \in 1 .. Cap : both[j] \in S
    BY <1>1, <1>3, <2>1
  <2>3. /\ SubSeq(both, 1, Cap) \in Seq(S)
        /\ Len(SubSeq(both, 1, Cap)) = IF 1 <= Cap THEN Cap - 1 + 1 ELSE 0
        /\ \A j \in 1 .. Cap - 1 + 1 : SubSeq(both, 1, Cap)[j] = both[1 + j - 1]
    BY <2>1, <2>2, SubSeqProperties
  <2>4. Len(SubSeq(both, 1, Cap)) = Cap
    BY <2>1, <2>3
  <2>5. \A j \in 1 .. Cap : SubSeq(both, 1, Cap)[j] = both[j]
    <3>1. ASSUME NEW j \in 1 .. Cap PROVE SubSeq(both, 1, Cap)[j] = both[j]
      <4>1. j \in 1 .. Cap - 1 + 1 /\ 1 + j - 1 = j
        BY <2>1
      <4>. QED BY <2>3, <4>1
    <3>. QED BY <3>1
  <2>. QED BY <1>1, <1>3, <2>1, <2>3, <2>4, <2>5 DEF Put, both
<1>. QED BY <1>2, <1>3

\* What is in a channel after a send was there, or is what was sent.
LEMMA PutMembers ==
    ASSUME NEW S, NEW ch \in Seq(S), NEW ms \in Seq(S)
    PROVE  /\ Put(ch, ms) \in Seq(S)
           /\ \A j \in 1 .. Len(Put(ch, ms)) :
                  \/ \E k \in 1 .. Len(ch) : Put(ch, ms)[j] = ch[k]
                  \/ \E k \in 1 .. Len(ms) : Put(ch, ms)[j] = ms[k]
<1>. DEFINE put == Put(ch, ms)
<1>1. /\ put \in Seq(S) /\ Len(put) <= Len(ch) + Len(ms)
      /\ \A j \in 1 .. Len(put) : put[j] = IF j <= Len(ch) THEN ch[j] ELSE ms[j - Len(ch)]
  BY PutElements
<1>2. Len(put) \in Nat /\ Len(ch) \in Nat /\ Len(ms) \in Nat
  BY <1>1
<1>. HIDE DEF put
<1>3. ASSUME NEW j \in 1 .. Len(put)
      PROVE  \/ \E k \in 1 .. Len(ch) : put[j] = ch[k]
             \/ \E k \in 1 .. Len(ms) : put[j] = ms[k]
  <2>1. CASE j <= Len(ch)
    BY <1>1, <1>2, <2>1
  <2>2. CASE ~(j <= Len(ch))
    <3>1. j - Len(ch) \in 1 .. Len(ms)
      BY <1>1, <1>2, <2>2
    <3>. QED BY <1>1, <2>2, <3>1
  <2>. QED BY <2>1, <2>2
<1>. QED BY <1>1, <1>3 DEF put

\* The case of one datagram.
LEMMA PutOne ==
    ASSUME NEW S, NEW ch \in Seq(S), NEW m \in S
    PROVE  /\ Put(ch, <<m>>) \in Seq(S)
           /\ \A j \in 1 .. Len(Put(ch, <<m>>)) :
                  \/ \E k \in 1 .. Len(ch) : Put(ch, <<m>>)[j] = ch[k]
                  \/ Put(ch, <<m>>)[j] = m
<1>. DEFINE ms == <<m>>
<1>1. ms \in Seq(S) /\ \A k \in 1 .. Len(ms) : ms[k] = m
  OBVIOUS
<1>. HIDE DEF ms
<1>2. /\ Put(ch, ms) \in Seq(S)
      /\ \A j \in 1 .. Len(Put(ch, ms)) :
             \/ \E k \in 1 .. Len(ch) : Put(ch, ms)[j] = ch[k]
             \/ \E k \in 1 .. Len(ms) : Put(ch, ms)[j] = ms[k]
  BY <1>1, PutMembers
<1>3. \A j \in 1 .. Len(Put(ch, ms)) :
         (\E k \in 1 .. Len(ch) : Put(ch, ms)[j] = ch[k]) \/ Put(ch, ms)[j] = m
  BY <1>1, <1>2
<1>. QED BY <1>2, <1>3 DEF ms

\* A receiver leaves nothing in the channel that was not there.
LEMMA AfterMembers ==
    ASSUME NEW S, NEW ch \in Seq(S), NEW i \in 1 .. Len(ch)
    PROVE  /\ After(ch, i) \in Seq(S)
           /\ \A j \in 1 .. Len(After(ch, i)) :
                  \E k \in 1 .. Len(ch) : After(ch, i)[j] = ch[k]
<1>. DEFINE front == SubSeq(ch, 1, i - 1)
            rest == SubSeq(ch, i + 1, Len(ch))
<1>1. /\ Len(ch) \in Nat /\ i \in Nat /\ 1 \in Int /\ i - 1 \in Int /\ i + 1 \in Int
      /\ Len(ch) \in Int
      /\ \A j \in 1 .. i - 1 : ch[j] \in S
      /\ \A j \in i + 1 .. Len(ch) : ch[j] \in S
  OBVIOUS
<1>2. /\ front \in Seq(S)
      /\ Len(front) = IF 1 <= i - 1 THEN i - 1 - 1 + 1 ELSE 0
      /\ \A j \in 1 .. i - 1 - 1 + 1 : front[j] = ch[1 + j - 1]
  BY <1>1, SubSeqProperties
<1>3. /\ rest \in Seq(S)
      /\ Len(rest) = IF i + 1 <= Len(ch) THEN Len(ch) - (i + 1) + 1 ELSE 0
      /\ \A j \in 1 .. Len(ch) - (i + 1) + 1 : rest[j] = ch[i + 1 + j - 1]
  BY <1>1, SubSeqProperties
<1>. HIDE DEF front, rest
<1>4. \A j \in 1 .. Len(front) : \E k \in 1 .. Len(ch) : front[j] = ch[k]
  <2>1. ASSUME NEW j \in 1 .. Len(front) PROVE \E k \in 1 .. Len(ch) : front[j] = ch[k]
    <3>1. j \in 1 .. i - 1 - 1 + 1 /\ 1 + j - 1 = j /\ j \in 1 .. Len(ch)
      BY <1>1, <1>2
    <3>. QED BY <1>2, <3>1
  <2>. QED BY <2>1
<1>5. \A j \in 1 .. Len(rest) : \E k \in 1 .. Len(ch) : rest[j] = ch[k]
  <2>1. ASSUME NEW j \in 1 .. Len(rest) PROVE \E k \in 1 .. Len(ch) : rest[j] = ch[k]
    <3>1. j \in 1 .. Len(ch) - (i + 1) + 1 /\ i + 1 + j - 1 \in 1 .. Len(ch)
      BY <1>1, <1>3
    <3>. QED BY <1>3, <3>1
  <2>. QED BY <2>1
<1>6. /\ front \o rest \in Seq(S) /\ Len(front \o rest) = Len(front) + Len(rest)
      /\ \A j \in 1 .. Len(front) + Len(rest) :
             (front \o rest)[j] = IF j <= Len(front) THEN front[j] ELSE rest[j - Len(front)]
  BY <1>2, <1>3, ConcatProperties
<1>7. ASSUME NEW j \in 1 .. Len(front \o rest)
      PROVE  \E k \in 1 .. Len(ch) : (front \o rest)[j] = ch[k]
  <2>1. Len(front) \in Nat /\ Len(rest) \in Nat
    BY <1>2, <1>3
  <2>2. CASE j <= Len(front)
    <3>1. j \in 1 .. Len(front) /\ j \in 1 .. Len(front) + Len(rest)
      BY <1>6, <2>1, <2>2
    <3>. QED BY <1>4, <1>6, <2>2, <3>1
  <2>3. CASE ~(j <= Len(front))
    <3>1. j - Len(front) \in 1 .. Len(rest)
      BY <1>6, <2>1, <2>3
    <3>. QED BY <1>5, <1>6, <2>3, <3>1
  <2>. QED BY <2>2, <2>3
<1>8. After(ch, i) = IF Ordered THEN rest ELSE front \o rest
  BY DEF After, front, rest
<1>9. CASE Ordered
  BY <1>3, <1>5, <1>8, <1>9
<1>10. CASE ~Ordered
  <2>. DEFINE both == front \o rest
  <2>1. After(ch, i) = both /\ both \in Seq(S)
        /\ \A j \in 1 .. Len(both) : \E k \in 1 .. Len(ch) : both[j] = ch[k]
    BY <1>6, <1>7, <1>8, <1>10
  <2>. HIDE DEF both
  <2>. QED BY <2>1
<1>. QED BY <1>9, <1>10

-----------------------------------------------------------------------------
(* Numbers *)

\* Every nonempty set of indices has a least one, the one cmd_donebin names.
LEMMA FirstMissing ==
    ASSUME NEW T \in SUBSET Nat, T # {}
    PROVE  \E i \in T : \A j \in T : i <= j
<1>1. PICK i \in T : \A j \in T : ~(<<j, i>> \in OpToRel(<, Nat))
  BY NatLessThanWellFounded, WFMin
<1>2. \A j \in T : ~(j < i)
  BY <1>1 DEF OpToRel
<1>. QED BY <1>2

-----------------------------------------------------------------------------
(* Chunks *)

\* Quotients: what \div does, and that it undoes a multiplication.
LEMMA Quotient ==
    ASSUME NEW n \in Nat \ {0}, NEW x \in Nat
    PROVE  /\ x \div n \in Nat
           /\ (x \div n) * n <= x /\ x < (x \div n) * n + n
OBVIOUS

LEMMA QuotientUnique ==
    ASSUME NEW n \in Nat \ {0}, NEW q \in Nat, NEW r \in 0 .. n - 1
    PROVE  (q * n + r) \div n = q
OBVIOUS

LEMMA MultipleOrder ==
    ASSUME NEW n \in Nat \ {0}, NEW x \in Int, NEW y \in Int, x < y
    PROVE  x * n + n <= y * n
OBVIOUS

\* A size is covered by its chunks, the last of which is needed.
LEMMA ChunksOfType ==
    ASSUME NEW n \in Nat \ {0}
    PROVE  /\ ChunksOf(n) \in Nat \ {0}
           /\ n <= ChunksOf(n) * Chunk
           /\ (ChunksOf(n) - 1) * Chunk < n
<1>. DEFINE x == n + Chunk - 1
            q == x \div Chunk
<1>1. Chunk \in Nat \ {0} /\ x \in Nat
  BY NetDownloadAssumption
<1>2. q \in Nat /\ q * Chunk <= x /\ x < q * Chunk + Chunk
  BY <1>1, Quotient
<1>. HIDE DEF q
<1>3. q # 0
  BY <1>1, <1>2
<1>4. (q - 1) * Chunk = q * Chunk - Chunk /\ q * Chunk \in Nat
  BY <1>1, <1>2
<1>. QED BY <1>1, <1>2, <1>3, <1>4 DEF ChunksOf, q

\* A chunk of a size lies in it, is not empty and no longer than Chunk.
LEMMA ChunkLenType ==
    ASSUME NEW n \in Nat \ {0}, NEW c \in 0 .. ChunksOf(n) - 1
    PROVE  /\ c * Chunk \in Nat
           /\ ChunkLen(n, c) \in 1 .. Chunk
           /\ c * Chunk + ChunkLen(n, c) <= n
           /\ ChunkLen(n, c) = Chunk \/ c * Chunk + ChunkLen(n, c) = n
<1>1. Chunk \in Nat \ {0}
  BY NetDownloadAssumption
<1>2. ChunksOf(n) \in Nat \ {0} /\ (ChunksOf(n) - 1) * Chunk < n
  BY ChunksOfType
<1>3. c * Chunk \in Nat /\ c * Chunk < n
  <2>1. CASE c = ChunksOf(n) - 1
    BY <1>1, <1>2, <2>1
  <2>2. CASE c < ChunksOf(n) - 1
    <3>1. c * Chunk + Chunk <= (ChunksOf(n) - 1) * Chunk
      BY <1>1, <1>2, <2>2, MultipleOrder
    <3>2. c * Chunk \in Nat /\ (ChunksOf(n) - 1) * Chunk \in Int
      BY <1>1, <1>2
    <3>. QED BY <1>1, <1>2, <3>1, <3>2
  <2>. QED BY <1>2, <2>1, <2>2
<1>. QED BY <1>1, <1>3 DEF ChunkLen

\* Every unit belongs to the chunk that the division names.
LEMMA ChunkOfUnit ==
    ASSUME NEW n \in Nat \ {0}, NEW u \in 0 .. n - 1
    PROVE  /\ u \div Chunk \in 0 .. ChunksOf(n) - 1
           /\ u \in (u \div Chunk) * Chunk .. (u \div Chunk) * Chunk + ChunkLen(n, u \div Chunk) - 1
<1>. DEFINE c == u \div Chunk
            k == ChunksOf(n)
<1>1. Chunk \in Nat \ {0}
  BY NetDownloadAssumption
<1>2. c \in Nat /\ c * Chunk <= u /\ u < c * Chunk + Chunk
  BY <1>1, Quotient
<1>3. k \in Nat \ {0} /\ n <= k * Chunk
  BY ChunksOfType
<1>. HIDE DEF c, k
<1>4. c < k
  <2>. SUFFICES ASSUME ~(c < k) PROVE FALSE
    OBVIOUS
  <2>1. k * Chunk <= c * Chunk
    <3>1. CASE k = c
      BY <1>1, <1>2, <3>1
    <3>2. CASE k < c
      <4>1. k * Chunk + Chunk <= c * Chunk /\ k * Chunk \in Int /\ c * Chunk \in Int
        BY <1>1, <1>2, <1>3, <3>2, MultipleOrder
      <4>. QED BY <1>1, <4>1
    <3>. QED BY <1>2, <1>3, <3>1, <3>2
  <2>2. k * Chunk \in Int /\ c * Chunk \in Int
    BY <1>1, <1>2, <1>3
  <2>. QED BY <1>2, <1>3, <2>1, <2>2
<1>5. /\ c * Chunk \in Nat /\ ChunkLen(n, c) \in 1 .. Chunk
      /\ ChunkLen(n, c) = Chunk \/ c * Chunk + ChunkLen(n, c) = n
  <2>1. c \in 0 .. ChunksOf(n) - 1
    BY <1>2, <1>3, <1>4 DEF k
  <2>. QED BY <2>1, ChunkLenType
<1>6. u \in c * Chunk .. c * Chunk + ChunkLen(n, c) - 1
  BY <1>1, <1>2, <1>5
<1>. QED BY <1>2, <1>3, <1>4, <1>6 DEF c, k

\* A request for a chunk is answered with that chunk.
LEMMA OneChunk ==
    ASSUME NEW n \in 1 .. Chunk
    PROVE  ChunksOf(n) = 1 /\ ChunkLen(n, 0) = n
<1>. DEFINE k == ChunksOf(n)
<1>1. Chunk \in Nat \ {0} /\ n \in Nat \ {0}
  BY NetDownloadAssumption
<1>2. k \in Nat \ {0} /\ (k - 1) * Chunk < n
  BY <1>1, ChunksOfType
<1>. HIDE DEF k
<1>3. ~(0 < k - 1)
  <2>. SUFFICES ASSUME 0 < k - 1 PROVE FALSE
    OBVIOUS
  <2>1. 0 * Chunk + Chunk <= (k - 1) * Chunk
    BY <1>1, <1>2, MultipleOrder
  <2>2. 0 * Chunk = 0 /\ (k - 1) * Chunk \in Int
    BY <1>1, <1>2
  <2>. QED BY <1>1, <1>2, <2>1, <2>2
<1>4. k = 1
  BY <1>2, <1>3
<1>5. ChunkLen(n, 0) = n
  BY <1>1 DEF ChunkLen
<1>. QED BY <1>4, <1>5 DEF k

-----------------------------------------------------------------------------
(* The inductive invariant *)

\* What must hold of a map and a buffer that the host works on.
Filled(mp, d) == \A c \in mp : \A u \in c * Chunk .. c * Chunk + ChunkLen(Size[t], c) - 1 : d[u] # 0
Buffer(mp, d) ==
    /\ mp \subseteq 0 .. N - 1 /\ d \in [0 .. Size[t] - 1 -> 0 .. t]
    /\ Compatible => Filled(mp, d)
    /\ AllApart => \A u \in 0 .. Size[t] - 1 : d[u] \in {0, t}

\* Each property with the transfers it is about.
Inductive ==
    /\ TypeOK /\ DatagramsOK
    /\ Compatible => FilledOK
    /\ AllApart => FreshOK /\ WrittenIsFresh
    /\ Compatible /\ Checked => WrittenIsComplete

LEMMA TransferType ==
    ASSUME NEW k \in 1 .. Len(Addr)
    PROVE  Addr[k] \in Nat /\ Size[k] \in Nat \ {0} /\ ChunksOf(Size[k]) \in Nat \ {0}
<1>1. Addr[k] \in Nat /\ Size[k] \in Nat \ {0}
  BY NetDownloadAssumption
<1>. QED BY <1>1, ChunksOfType

LEMMA BufferNow == Inductive => Buffer(map, data)
BY DEF Inductive, TypeOK, FilledOK, FreshOK, Buffer, Filled

\* An acceptable SENDBIN is stored where it is marked; one of another transfer
\* is not acceptable, unless that transfer read the same memory.
LEMMA AcceptStep ==
    ASSUME Inductive, NEW i \in 1 .. Len(c2h), c2h[i].kind = "SBIN", Acceptable(c2h[i])
    PROVE  Buffer(Marked(c2h[i]), Stored(c2h[i]))
<1>. DEFINE m == c2h[i]
            at == m.addr - Addr[t]
            index == at \div Chunk
            stored == Stored(m)
<1>1. /\ m.kind = "SBIN" /\ Acceptable(m) /\ m \in Packets
      /\ \E k \in 1 .. t : /\ m.ver \in k .. t
                           /\ \E c \in 0 .. ChunksOf(Size[k]) - 1 : ChunkIn(m, k, c)
  BY DEF Inductive, DatagramsOK, TypeOK
<1>2. /\ t \in 1 .. Len(Addr) /\ map \subseteq 0 .. N - 1
      /\ data \in [0 .. Size[t] - 1 -> 0 .. t]
      /\ Addr[t] \in Nat /\ Size[t] \in Nat \ {0} /\ Len(Addr) \in Nat
      /\ Chunk \in Nat \ {0}
  <2>1. /\ t \in 1 .. Len(Addr) /\ map \subseteq 0 .. N - 1
        /\ data \in [0 .. Size[t] - 1 -> 0 .. t]
    BY DEF Inductive, TypeOK
  <2>2. Len(Addr) \in Nat /\ Chunk \in Nat \ {0}
    BY NetDownloadAssumption
  <2>. QED BY <2>1, <2>2, TransferType
<1>. HIDE DEF m
<1>3. PICK k \in 1 .. t : /\ m.ver \in k .. t
                          /\ \E c \in 0 .. ChunksOf(Size[k]) - 1 : ChunkIn(m, k, c)
  BY <1>1
<1>4. PICK c \in 0 .. ChunksOf(Size[k]) - 1 : ChunkIn(m, k, c)
  BY <1>3
<1>5. /\ k \in 1 .. Len(Addr) /\ Addr[k] \in Nat /\ Size[k] \in Nat \ {0}
      /\ m.addr \in Nat /\ m.size \in Nat /\ m.ver \in 1 .. t /\ m.ver \in Nat \ {0}
      /\ m.addr = Addr[k] + c * Chunk /\ m.size = ChunkLen(Size[k], c)
  <2>1. k \in 1 .. Len(Addr)
    BY <1>2
  <2>2. m.addr \in Nat /\ m.size \in Nat /\ m.addr = Addr[k] + c * Chunk
        /\ m.size = ChunkLen(Size[k], c)
    BY <1>1, <1>4 DEF Packets, ChunkIn
  <2>3. m.ver \in 1 .. t /\ m.ver \in Nat \ {0}
    BY <1>2, <1>3
  <2>. QED BY <2>1, <2>2, <2>3, TransferType
<1>6. /\ c * Chunk \in Nat /\ ChunkLen(Size[k], c) \in 1 .. Chunk
      /\ c * Chunk + ChunkLen(Size[k], c) <= Size[k]
  BY <1>5, ChunkLenType
<1>7. at \in 0 .. Size[t] - 1 /\ index \in 0 .. N - 1
  <2>1. at \in 0 .. Size[t] - 1
    <3>1. m.addr >= Addr[t] /\ m.addr < Addr[t] + Size[t]
      BY <1>1 DEF Acceptable
    <3>2. m.addr \in Nat /\ Addr[t] \in Nat /\ Size[t] \in Nat
      BY <1>2, <1>5
    <3>. QED BY <3>1, <3>2
  <2>. QED BY <1>2, <2>1, ChunkOfUnit DEF N
<1>8. ASSUME NEW u \in 0 .. Size[t] - 1
      PROVE  stored[u] = IF u >= at /\ u < at + m.size THEN m.ver ELSE data[u]
  BY DEF Stored
<1>9. stored \in [0 .. Size[t] - 1 -> 0 .. t]
  <2>1. \A u \in 0 .. Size[t] - 1 : data[u] \in 0 .. t
    BY <1>2
  <2>2. m.ver \in 0 .. t
    BY <1>2, <1>5
  <2>. QED BY <2>1, <2>2 DEF Stored
<1>10. Marked(m) = map \cup {index}
  BY DEF Marked
<1>11. ~Apart(k, t)
  <2>. DEFINE a == Addr[k]
              b == Addr[t]
              off == c * Chunk
              len == ChunkLen(Size[k], c)
  <2>1. a + off >= b /\ a + off < b + Size[t]
    BY <1>1, <1>5 DEF Acceptable
  <2>4. off \in Nat /\ len \in 1 .. Chunk /\ off + len <= Size[k]
    BY <1>6
  <2>5. a \in Nat /\ b \in Nat /\ Size[k] \in Nat /\ Size[t] \in Nat
    BY <1>2, <1>5
  <2>. HIDE DEF a, b, off, len
  <2>2. /\ off \in Nat /\ len \in Nat /\ len >= 1 /\ off + len <= Size[k]
        /\ a \in Nat /\ b \in Nat /\ Size[k] \in Nat /\ Size[t] \in Nat
    BY <2>4, <2>5
  <2>3. ~(a + Size[k] <= b \/ b + Size[t] <= a)
    BY <2>1, <2>2
  <2>. QED BY <2>3 DEF Apart, a, b
<1>. HIDE DEF stored, index
<1>12. ASSUME Compatible PROVE Filled(map \cup {index}, stored)
  <2>1. Addr[k] = Addr[t] /\ Size[k] = Size[t]
    BY <1>2, <1>5, <1>11, <1>12 DEF Compatible, Same
  <2>2. at = c * Chunk
    BY <1>2, <1>5, <1>6, <2>1
  <2>3. index = c
    <3>1. (c * Chunk + 0) \div Chunk = c
      BY <1>2, <1>4, QuotientUnique
    <3>2. c * Chunk + 0 = c * Chunk
      BY <1>6
    <3>. QED BY <2>2, <3>1, <3>2 DEF index
  <2>4. ASSUME NEW e \in map \cup {index},
               NEW u \in e * Chunk .. e * Chunk + ChunkLen(Size[t], e) - 1
        PROVE  stored[u] # 0
    <3>1. e \in 0 .. ChunksOf(Size[t]) - 1
      BY <1>2, <1>7 DEF N
    <3>2. u \in 0 .. Size[t] - 1
      <4>1. /\ e * Chunk \in Nat /\ ChunkLen(Size[t], e) \in 1 .. Chunk
            /\ e * Chunk + ChunkLen(Size[t], e) <= Size[t]
        BY <1>2, <3>1, ChunkLenType
      <4>. DEFINE lo == e * Chunk
                  len == ChunkLen(Size[t], e)
      <4>2. lo \in Nat /\ len \in Nat /\ lo + len <= Size[t] /\ u \in lo .. lo + len - 1
        BY <2>4, <4>1
      <4>. HIDE DEF lo, len
      <4>. QED BY <1>2, <4>2
    <3>3. CASE e \in map
      <4>1. data[u] # 0
        BY <1>12, <3>3 DEF Inductive, FilledOK
      <4>. QED BY <1>5, <1>8, <3>2, <4>1
    <3>4. CASE e = index
      <4>1. u >= at /\ u < at + m.size
        BY <1>5, <1>6, <2>1, <2>2, <2>3, <2>4, <3>4
      <4>. QED BY <1>5, <1>8, <3>2, <4>1
    <3>. QED BY <3>3, <3>4
  <2>. QED BY <2>4 DEF Filled
<1>13. ASSUME AllApart, NEW u \in 0 .. Size[t] - 1 PROVE stored[u] \in {0, t}
  <2>1. k = t
    BY <1>2, <1>5, <1>11, <1>13 DEF AllApart
  <2>2. m.ver = t
    BY <1>2, <1>3, <2>1
  <2>3. data[u] \in {0, t}
    BY <1>13 DEF Inductive, FreshOK
  <2>. QED BY <1>8, <1>13, <2>2, <2>3
<1>14. map \cup {index} \subseteq 0 .. N - 1
  BY <1>2, <1>7 DEF index
<1>. QED BY <1>9, <1>10, <1>12, <1>13, <1>14 DEF Buffer, stored, m

-----------------------------------------------------------------------------
(* The host's steps *)

\* What may still be under way after a step of the host.
Received ==
    /\ c2h' \in Seq(Packets) /\ lost' \in 0 .. MaxLoss
    /\ \A j \in 1 .. Len(c2h') : \E k \in 1 .. Len(c2h) : c2h'[j] = c2h[k]

LEMMA ReceivedWhenTaken ==
    ASSUME TypeOK, NEW i \in 1 .. Len(c2h), HostTakes(i)
    PROVE  Received
<1>1. c2h \in Seq(Packets) /\ c2h' = After(c2h, i)
  BY DEF TypeOK, HostTakes
<1>2. lost' \in 0 .. MaxLoss
  BY NetDownloadAssumption DEF HostTakes, Overtaken, TypeOK
<1>. QED BY <1>1, <1>2, AfterMembers DEF Received

\* The answers under way stay in order when the transfer does, or the next
\* one starts.
LEMMA AnswersKept ==
    ASSUME DatagramsOK, Received, TypeOK, t' = t \/ t' = t + 1
    PROVE  \A i \in 1 .. Len(c2h') : c2h'[i].kind = "SBIN" =>
               \E k \in 1 .. t' : /\ c2h'[i].ver \in k .. t'
                                  /\ \E c \in 0 .. ChunksOf(Size[k]) - 1 : ChunkIn(c2h'[i], k, c)
<1>. SUFFICES ASSUME NEW i \in 1 .. Len(c2h'), c2h'[i].kind = "SBIN"
              PROVE  \E k \in 1 .. t' :
                         /\ c2h'[i].ver \in k .. t'
                         /\ \E c \in 0 .. ChunksOf(Size[k]) - 1 : ChunkIn(c2h'[i], k, c)
  OBVIOUS
<1>1. PICK j \in 1 .. Len(c2h) : c2h'[i] = c2h[j]
  BY DEF Received
<1>2. PICK k \in 1 .. t : /\ c2h[j].ver \in k .. t
                          /\ \E c \in 0 .. ChunksOf(Size[k]) - 1 : ChunkIn(c2h[j], k, c)
  BY <1>1 DEF DatagramsOK
<1>3. t \in Nat
  BY NetDownloadAssumption DEF TypeOK
<1>4. k \in 1 .. t' /\ c2h'[i].ver \in k .. t'
  BY <1>1, <1>2, <1>3
<1>. QED BY <1>1, <1>2, <1>4

\* A request is sent for the transfer or for one of its chunks.
LEMMA RequestsKept ==
    ASSUME DatagramsOK, TypeOK, t' = t \/ t' = t + 1, NEW m \in Packets,
           h2c' = Put(h2c, <<m>>), NEW k \in 1 .. t',
           \/ m.addr = Addr[k] /\ m.size = Size[k]
           \/ \E c \in 0 .. ChunksOf(Size[k]) - 1 : ChunkIn(m, k, c)
    PROVE  /\ h2c' \in Seq(Packets)
           /\ \A i \in 1 .. Len(h2c') : \E l \in 1 .. t' :
                  \/ h2c'[i].addr = Addr[l] /\ h2c'[i].size = Size[l]
                  \/ \E c \in 0 .. ChunksOf(Size[l]) - 1 : ChunkIn(h2c'[i], l, c)
<1>1. /\ h2c' \in Seq(Packets)
      /\ \A j \in 1 .. Len(h2c') :
             \/ \E i \in 1 .. Len(h2c) : h2c'[j] = h2c[i]
             \/ h2c'[j] = m
  <2>1. h2c \in Seq(Packets)
    BY DEF TypeOK
  <2>. QED BY <2>1, PutOne
<1>2. ASSUME NEW i \in 1 .. Len(h2c')
      PROVE  \E l \in 1 .. t' :
                  \/ h2c'[i].addr = Addr[l] /\ h2c'[i].size = Size[l]
                  \/ \E c \in 0 .. ChunksOf(Size[l]) - 1 : ChunkIn(h2c'[i], l, c)
  <2>1. ASSUME NEW j \in 1 .. Len(h2c), h2c'[i] = h2c[j]
        PROVE  \E l \in 1 .. t' :
                    \/ h2c[j].addr = Addr[l] /\ h2c[j].size = Size[l]
                    \/ \E c \in 0 .. ChunksOf(Size[l]) - 1 : ChunkIn(h2c[j], l, c)
    <3>1. PICK l \in 1 .. t : \/ h2c[j].addr = Addr[l] /\ h2c[j].size = Size[l]
                              \/ \E c \in 0 .. ChunksOf(Size[l]) - 1 : ChunkIn(h2c[j], l, c)
      BY <2>1 DEF DatagramsOK
    <3>2. t \in Nat
      BY NetDownloadAssumption DEF TypeOK
    <3>3. l \in 1 .. t'
      BY <3>1, <3>2
    <3>. QED BY <3>1, <3>3
  <2>2. CASE h2c'[i] = m
    BY <2>2
  <2>. QED BY <1>1, <2>1, <2>2
<1>. QED BY <1>1, <1>2

\* network_recv_data returns.
LEMMA ReturnStep ==
    ASSUME Inductive, hpc # "over", Received, NEW mp, NEW d, Buffer(mp, d),
           NEW ok \in BOOLEAN, ok => \A c \in 0 .. N - 1 : c \in mp,
           Return(ok, d)
    PROVE  Inductive'
<1>. DEFINE x == IF ok \/ ~Checked THEN d ELSE <<>>
<1>1. /\ out' = Append(out, x)
      /\ map' = {} /\ packets' = 0 /\ passes' = 0 /\ stalled' = 0 /\ target' = 0
      /\ t = Len(Addr) => hpc' = "over" /\ data' = d /\ UNCHANGED <<t, h2c>>
      /\ t # Len(Addr) =>
             /\ hpc' = "stream" /\ t' = t + 1
             /\ data' = Empty(Size[t + 1])
             /\ h2c' = Put(h2c, <<Sendbinq(Addr[t + 1], Size[t + 1])>>)
  BY DEF Return
<1>2. /\ TypeOK /\ DatagramsOK /\ t \in 1 .. Len(Addr) /\ Len(Addr) \in Nat
      /\ Len(Addr) = Len(Size)
      /\ Size[t] \in Nat \ {0} /\ d \in [0 .. Size[t] - 1 -> 0 .. t]
      /\ out \in Seq(Written) /\ Len(out) = t - 1
  <2>1. /\ TypeOK /\ DatagramsOK /\ t \in 1 .. Len(Addr)
        /\ out \in Seq(Written) /\ Len(out) = t - 1
    BY DEF Inductive, TypeOK
  <2>. QED BY <2>1, TransferType, NetDownloadAssumption DEF Buffer
<1>3. x \in Written
  <2>1. d \in [0 .. Size[t] - 1 -> 0 .. Len(Addr)]
    BY <1>2
  <2>. QED BY <1>2, <2>1 DEF Written
<1>. HIDE DEF x
<1>4. /\ out' \in Seq(Written) /\ Len(out') = t
      /\ \A k \in 1 .. t - 1 : out'[k] = out[k]
      /\ out'[t] = x
  BY <1>1, <1>2, <1>3
<1>5. t' = t \/ t' = t + 1
  BY <1>1
<1>6. DatagramsOK' /\ h2c' \in Seq(Packets)
  <2>1. CASE t = Len(Addr)
    BY <1>1, <1>2, <1>5, <2>1, AnswersKept DEF DatagramsOK, TypeOK
  <2>2. CASE t # Len(Addr)
    <3>. DEFINE m == Sendbinq(Addr[t + 1], Size[t + 1])
    <3>1. t + 1 \in 1 .. Len(Addr)
      BY <1>2, <2>2
    <3>2. m \in Packets /\ m.addr = Addr[t + 1] /\ m.size = Size[t + 1]
      BY <3>1, TransferType DEF Sendbinq, Packets
    <3>3. h2c' = Put(h2c, <<m>>) /\ t + 1 \in 1 .. t'
      BY <1>1, <1>2, <2>2
    <3>. HIDE DEF m
    <3>4. /\ h2c' \in Seq(Packets)
          /\ \A i \in 1 .. Len(h2c') : \E l \in 1 .. t' :
                 \/ h2c'[i].addr = Addr[l] /\ h2c'[i].size = Size[l]
                 \/ \E c \in 0 .. ChunksOf(Size[l]) - 1 : ChunkIn(h2c'[i], l, c)
      BY <1>2, <1>5, <3>2, <3>3, RequestsKept
    <3>. QED BY <1>2, <1>5, <3>4, AnswersKept DEF DatagramsOK
  <2>. QED BY <2>1, <2>2
<1>7. t' \in 1 .. Len(Addr) /\ data' \in [0 .. Size[t'] - 1 -> 0 .. t']
  <2>1. CASE t = Len(Addr)
    BY <1>1, <1>2, <2>1
  <2>2. CASE t # Len(Addr)
    BY <1>1, <1>2, <2>2 DEF Empty
  <2>. QED BY <2>1, <2>2
<1>8. TypeOK'
  <2>1. N' \in Nat \ {0}
    BY <1>7, TransferType DEF N
  <2>2. /\ passes' \in 0 .. N' + MaxRerequests - 1 /\ stalled' \in 0 .. MaxRerequests - 1
        /\ packets' \in 0 .. N' /\ target' \in 0 .. N' - 1
    <3>1. \A n, r \in Nat \ {0} : /\ 0 \in 0 .. n + r - 1 /\ 0 \in 0 .. r - 1
                                  /\ 0 \in 0 .. n /\ 0 \in 0 .. n - 1
      OBVIOUS
    <3>2. MaxRerequests \in Nat \ {0}
      BY NetDownloadAssumption
    <3>. QED BY <1>1, <2>1, <3>1, <3>2
  <2>3. hpc' \in {"stream", "pass", "over"} /\ Len(out') = IF hpc' = "over" THEN t' ELSE t' - 1
    BY <1>1, <1>2, <1>4
  <2>. QED BY <1>1, <1>4, <1>6, <1>7, <2>2, <2>3 DEF TypeOK, Received
<1>9. FilledOK'
  BY <1>1 DEF FilledOK
<1>10. ASSUME AllApart PROVE FreshOK' /\ WrittenIsFresh'
  <2>1. \A u \in 0 .. Size[t] - 1 : d[u] \in {0, t}
    BY <1>10 DEF Buffer
  <2>2. FreshOK'
    <3>1. CASE t = Len(Addr)
      BY <1>1, <2>1, <3>1 DEF FreshOK
    <3>2. CASE t # Len(Addr)
      <4>1. t' = t + 1 /\ data' = Empty(Size[t'])
        BY <1>1, <3>2
      <4>. QED BY <4>1 DEF FreshOK, Empty
    <3>. QED BY <3>1, <3>2
  <2>3. \A u \in DOMAIN x : x[u] \in {0, t}
    <3>1. CASE x = d
      BY <1>2, <2>1, <3>1
    <3>2. CASE x = <<>>
      BY <3>2
    <3>. QED BY <3>1, <3>2 DEF x
  <2>4. ASSUME NEW k \in 1 .. Len(out'), NEW u \in DOMAIN out'[k] PROVE out'[k][u] \in {0, k}
    <3>1. CASE k \in 1 .. t - 1
      BY <1>2, <1>4, <1>10, <2>4, <3>1 DEF Inductive, WrittenIsFresh
    <3>2. CASE k = t
      BY <1>4, <2>3, <2>4, <3>2
    <3>. QED BY <1>2, <1>4, <3>1, <3>2
  <2>. QED BY <2>2, <2>4 DEF WrittenIsFresh
<1>11. ASSUME Compatible, Checked PROVE WrittenIsComplete'
  <2>1. \A u \in DOMAIN x : x[u] # 0
    <3>1. CASE ok
      <4>1. ASSUME NEW u \in 0 .. Size[t] - 1 PROVE d[u] # 0
        <5>. DEFINE c == u \div Chunk
        <5>1. /\ c \in 0 .. N - 1
              /\ u \in c * Chunk .. c * Chunk + ChunkLen(Size[t], c) - 1
          BY <1>2, ChunkOfUnit DEF N
        <5>. HIDE DEF c
        <5>2. c \in mp /\ Filled(mp, d)
          BY <1>11, <3>1, <5>1 DEF Buffer
        <5>. QED BY <5>1, <5>2 DEF Filled
      <4>2. x = d
        BY <3>1 DEF x
      <4>. QED BY <1>2, <4>1, <4>2
    <3>2. CASE ~ok
      <4>1. x = <<>>
        BY <1>11, <3>2 DEF x
      <4>. QED BY <4>1
    <3>. QED BY <3>1, <3>2
  <2>2. ASSUME NEW k \in 1 .. Len(out'), NEW u \in DOMAIN out'[k] PROVE out'[k][u] # 0
    <3>1. CASE k \in 1 .. t - 1
      BY <1>2, <1>4, <1>11, <2>2, <3>1 DEF Inductive, WrittenIsComplete
    <3>2. CASE k = t
      BY <1>4, <2>1, <2>2, <3>2
    <3>. QED BY <1>2, <1>4, <3>1, <3>2
  <2>. QED BY <2>2 DEF WrittenIsComplete
<1>. QED BY <1>6, <1>8, <1>9, <1>10, <1>11 DEF Inductive, Compatible, AllApart, Apart, Same

\* The scan for a missing chunk.
LEMMA ScanStep ==
    ASSUME Inductive, hpc # "over", Received, NEW mp, NEW d, Buffer(mp, d),
           NEW ps \in 0 .. N + MaxRerequests - 1, NEW st \in 0 .. MaxRerequests - 1,
           Scan(mp, d, ps, st)
    PROVE  Inductive'
<1>. DEFINE missing == {c \in 0 .. N - 1 : c \notin mp}
            first == CHOOSE c \in missing : \A x \in missing : c <= x
            m == Sendbinq(Addr[t] + first * Chunk, ChunkLen(Size[t], first))
<1>1. CASE missing = {}
  <2>1. Return(TRUE, d)
    BY <1>1 DEF Scan
  <2>2. \A c \in 0 .. N - 1 : c \in mp
    BY <1>1
  <2>. QED BY <2>1, <2>2, ReturnStep
<1>2. CASE missing # {}
  <2>1. /\ hpc' = "pass" /\ target' = first /\ passes' = ps /\ stalled' = st
        /\ map' = mp /\ data' = d /\ h2c' = Put(h2c, <<m>>)
        /\ UNCHANGED <<t, packets, out>>
    BY <1>2 DEF Scan
  <2>2. /\ TypeOK /\ DatagramsOK /\ t \in 1 .. Len(Addr)
        /\ Addr[t] \in Nat /\ Size[t] \in Nat \ {0} /\ N \in Nat \ {0}
    <3>1. TypeOK /\ DatagramsOK /\ t \in 1 .. Len(Addr)
      BY DEF Inductive, TypeOK
    <3>. QED BY <3>1, TransferType DEF N
  <2>3. first \in 0 .. N - 1
    <3>1. missing \in SUBSET Nat
      BY <2>2
    <3>2. first \in missing
      BY <1>2, <3>1, FirstMissing
    <3>. QED BY <3>2
  <2>. HIDE DEF first
  <2>4. /\ m \in Packets
        /\ m.addr = Addr[t] + first * Chunk /\ m.size = ChunkLen(Size[t], first)
    <3>1. first * Chunk \in Nat /\ ChunkLen(Size[t], first) \in 1 .. Chunk
      BY <2>2, <2>3, ChunkLenType DEF N
    <3>2. Addr[t] + first * Chunk \in Nat /\ ChunkLen(Size[t], first) \in Nat
      BY <2>2, <3>1, NetDownloadAssumption
    <3>. QED BY <3>2 DEF Sendbinq, Packets
  <2>. HIDE DEF m
  <2>5. ChunkIn(m, t, first) /\ first \in 0 .. ChunksOf(Size[t]) - 1 /\ t \in 1 .. t'
    BY <2>1, <2>2, <2>3, <2>4 DEF ChunkIn, N
  <2>6. /\ h2c' \in Seq(Packets)
        /\ \A i \in 1 .. Len(h2c') : \E l \in 1 .. t' :
               \/ h2c'[i].addr = Addr[l] /\ h2c'[i].size = Size[l]
               \/ \E c \in 0 .. ChunksOf(Size[l]) - 1 : ChunkIn(h2c'[i], l, c)
    BY <2>1, <2>2, <2>4, <2>5, RequestsKept
  <2>7. DatagramsOK'
    BY <2>1, <2>2, <2>6, AnswersKept DEF DatagramsOK
  <2>8. N' = N
    BY <2>1 DEF N
  <2>9. TypeOK'
    BY <2>1, <2>2, <2>3, <2>6, <2>8 DEF TypeOK, Received, Buffer
  <2>10. (Compatible => FilledOK') /\ (AllApart => FreshOK')
    BY <2>1 DEF Buffer, Filled, FilledOK, FreshOK
  <2>11. UNCHANGED out
    BY <2>1
  <2>. QED BY <2>7, <2>9, <2>10, <2>11 DEF Inductive, WrittenIsFresh, WrittenIsComplete
<1>. QED BY <1>1, <1>2

\* The end of a re-request pass.
LEMMA EndPassStep ==
    ASSUME Inductive, hpc = "pass", Received, NEW mp, NEW d, Buffer(mp, d), EndPass(mp, d)
    PROVE  Inductive'
<1>. DEFINE st == IF target \in mp THEN 0 ELSE stalled + 1
<1>1. /\ stalled \in Nat /\ passes \in Nat /\ MaxRerequests \in Nat \ {0} /\ N \in Nat \ {0}
  BY TransferType, NetDownloadAssumption DEF Inductive, TypeOK, N
<1>2. CASE st >= MaxRerequests \/ passes + 1 >= N + MaxRerequests
  <2>1. Return(FALSE, d)
    BY <1>2 DEF EndPass
  <2>. QED BY <2>1, ReturnStep
<1>3. CASE ~(st >= MaxRerequests \/ passes + 1 >= N + MaxRerequests)
  <2>1. Scan(mp, d, passes + 1, st)
    BY <1>3 DEF EndPass
  <2>2. passes + 1 \in 0 .. N + MaxRerequests - 1 /\ st \in 0 .. MaxRerequests - 1
    BY <1>1, <1>3
  <2>. HIDE DEF st
  <2>. QED BY <2>1, <2>2, ScanStep
<1>. QED BY <1>2, <1>3

\* A step of the host that stays in its loop.
LEMMA LoopStep ==
    ASSUME Inductive, Received, NEW mp, NEW d, Buffer(mp, d), map' = mp, data' = d,
           packets' \in 0 .. N,
           UNCHANGED <<hpc, t, target, passes, stalled, out, h2c>>
    PROVE  Inductive'
<1>1. TypeOK /\ DatagramsOK
  BY DEF Inductive
<1>2. N' = N
  BY DEF N
<1>3. TypeOK'
  BY <1>1, <1>2 DEF TypeOK, Received, Buffer
<1>4. DatagramsOK'
  BY <1>1, AnswersKept DEF DatagramsOK
<1>5. (Compatible => FilledOK') /\ (AllApart => FreshOK')
  BY DEF Buffer, Filled, FilledOK, FreshOK
<1>6. UNCHANGED out
  OBVIOUS
<1>. QED BY <1>3, <1>4, <1>5, <1>6 DEF Inductive, WrittenIsFresh, WrittenIsComplete

LEMMA HostStep ==
    ASSUME Inductive, HostRecv \/ HostTimesOut
    PROVE  Inductive'
<1>1. TypeOK /\ N \in Nat \ {0} /\ MaxRerequests \in Nat \ {0} /\ packets \in 0 .. N
  BY TransferType, NetDownloadAssumption DEF Inductive, TypeOK, N
<1>2. 0 \in 0 .. N + MaxRerequests - 1 /\ 0 \in 0 .. MaxRerequests - 1
  BY <1>1
<1>3. Buffer(map, data)
  BY BufferNow
<1>4. ASSUME NEW i \in 1 .. Len(c2h), StreamRecv(i) PROVE Inductive'
  <2>. DEFINE m  == c2h[i]
              ok == m.kind = "SBIN" /\ Acceptable(m)
              mp == IF ok THEN Marked(m) ELSE map
              d  == IF ok THEN Stored(m) ELSE data
              k  == IF ok \/ m.kind = "DBIN" THEN packets + 1 ELSE packets
  <2>1. /\ hpc = "stream" /\ HostTakes(i)
        /\ k = N + 1 => Scan(mp, d, 0, 0)
        /\ k # N + 1 => /\ map' = mp /\ data' = d /\ packets' = k
                        /\ UNCHANGED <<hpc, t, target, passes, stalled, out, h2c>>
    BY <1>4 DEF StreamRecv
  <2>2. Received
    BY <1>1, <2>1, ReceivedWhenTaken
  <2>3. Buffer(mp, d)
    BY <1>3, AcceptStep
  <2>4. k # N + 1 => k \in 0 .. N
    BY <1>1
  <2>. HIDE DEF mp, d, k
  <2>5. CASE k = N + 1
    BY <1>2, <2>1, <2>2, <2>3, <2>5, ScanStep
  <2>6. CASE k # N + 1
    BY <2>1, <2>2, <2>3, <2>4, <2>6, LoopStep
  <2>. QED BY <2>5, <2>6
<1>5. ASSUME NEW i \in 1 .. Len(c2h), PassRecv(i) PROVE Inductive'
  <2>. DEFINE m  == c2h[i]
              ok == m.kind = "SBIN" /\ Acceptable(m)
              mp == IF ok THEN Marked(m) ELSE map
              d  == IF ok THEN Stored(m) ELSE data
  <2>1. /\ hpc = "pass" /\ HostTakes(i)
        /\ \/ EndPass(mp, d)
           \/ /\ map' = mp /\ data' = d
              /\ UNCHANGED <<hpc, t, packets, target, passes, stalled, out, h2c>>
    BY <1>5 DEF PassRecv
  <2>2. Received
    BY <1>1, <2>1, ReceivedWhenTaken
  <2>3. Buffer(mp, d)
    BY <1>3, AcceptStep
  <2>. HIDE DEF mp, d
  <2>4. CASE EndPass(mp, d)
    BY <2>1, <2>2, <2>3, <2>4, EndPassStep
  <2>5. CASE /\ map' = mp /\ data' = d
             /\ UNCHANGED <<hpc, t, packets, target, passes, stalled, out, h2c>>
    BY <1>1, <2>2, <2>3, <2>5, LoopStep
  <2>. QED BY <2>1, <2>4, <2>5
<1>6. ASSUME UNCHANGED <<c2h, lost>> PROVE Received
  BY <1>1, <1>6 DEF Received, TypeOK
<1>7. CASE StreamTimesOut
  BY <1>2, <1>3, <1>6, <1>7, ScanStep DEF StreamTimesOut
<1>8. CASE PassTimesOut
  BY <1>3, <1>6, <1>8, EndPassStep DEF PassTimesOut
<1>. QED BY <1>4, <1>5, <1>7, <1>8 DEF HostRecv, HostTimesOut

-----------------------------------------------------------------------------
(* The client's step *)

\* cmd_sendbinq answers a request with the chunks it asks for.
LEMMA BurstChunks ==
    ASSUME TypeOK, NEW m, NEW k \in 1 .. t,
           \/ m.addr = Addr[k] /\ m.size = Size[k]
           \/ \E c \in 0 .. ChunksOf(Size[k]) - 1 : ChunkIn(m, k, c)
    PROVE  /\ Burst(m) \in Seq(Packets)
           /\ \A j \in 1 .. Len(Burst(m)) : Burst(m)[j].kind = "SBIN" =>
                  /\ Burst(m)[j].ver = t
                  /\ \E c \in 0 .. ChunksOf(Size[k]) - 1 : ChunkIn(Burst(m)[j], k, c)
<1>. DEFINE count == ChunksOf(m.size)
            packet(j) == IF j > count THEN Donebin
                         ELSE Sendbin(m.addr + (j - 1) * Chunk, ChunkLen(m.size, j - 1), t)
<1>1. /\ t \in 1 .. Len(Addr) /\ k \in 1 .. Len(Addr) /\ t \in 0 .. Len(Addr)
      /\ Addr[k] \in Nat /\ Size[k] \in Nat \ {0} /\ Chunk \in Nat \ {0}
  <2>1. t \in 1 .. Len(Addr) /\ Len(Addr) \in Nat /\ Chunk \in Nat \ {0}
    BY NetDownloadAssumption DEF TypeOK
  <2>2. t \in 0 .. Len(Addr) /\ k \in 1 .. Len(Addr)
    BY <2>1
  <2>. QED BY <2>1, <2>2, TransferType
<1>2. /\ count \in Nat \ {0} /\ m.addr \in Nat /\ m.size \in Nat \ {0}
      /\ \A j \in 1 .. count :
             \E c \in 0 .. ChunksOf(Size[k]) - 1 :
                 /\ m.addr + (j - 1) * Chunk = Addr[k] + c * Chunk
                 /\ ChunkLen(m.size, j - 1) = ChunkLen(Size[k], c)
  <2>1. CASE m.addr = Addr[k] /\ m.size = Size[k]
    <3>1. count \in Nat \ {0}
      BY <1>1, <2>1, TransferType
    <3>2. ASSUME NEW j \in 1 .. count
          PROVE  \E c \in 0 .. ChunksOf(Size[k]) - 1 :
                     /\ m.addr + (j - 1) * Chunk = Addr[k] + c * Chunk
                     /\ ChunkLen(m.size, j - 1) = ChunkLen(Size[k], c)
      <4>1. j - 1 \in 0 .. ChunksOf(Size[k]) - 1
        BY <2>1, <3>1
      <4>. QED BY <2>1, <4>1
    <3>. QED BY <1>1, <2>1, <3>1, <3>2
  <2>2. ASSUME NEW c \in 0 .. ChunksOf(Size[k]) - 1, ChunkIn(m, k, c)
        PROVE  /\ count = 1 /\ m.addr \in Nat /\ m.size \in Nat \ {0}
               /\ m.addr + 0 * Chunk = Addr[k] + c * Chunk
               /\ ChunkLen(m.size, 0) = ChunkLen(Size[k], c)
    <3>1. m.addr = Addr[k] + c * Chunk /\ m.size = ChunkLen(Size[k], c)
      BY <2>2 DEF ChunkIn
    <3>2. c * Chunk \in Nat /\ ChunkLen(Size[k], c) \in 1 .. Chunk
      BY <1>1, ChunkLenType
    <3>3. count = 1 /\ ChunkLen(m.size, 0) = m.size
      BY <3>1, <3>2, OneChunk
    <3>4. m.addr + 0 * Chunk = m.addr /\ m.addr \in Nat /\ m.size \in Nat \ {0}
      BY <1>1, <3>1, <3>2
    <3>. QED BY <3>1, <3>3, <3>4
  <2>3. CASE \E c \in 0 .. ChunksOf(Size[k]) - 1 : ChunkIn(m, k, c)
    <3>1. PICK c \in 0 .. ChunksOf(Size[k]) - 1 : ChunkIn(m, k, c)
      BY <2>3
    <3>2. /\ count = 1 /\ m.addr \in Nat /\ m.size \in Nat \ {0}
          /\ m.addr + 0 * Chunk = Addr[k] + c * Chunk
          /\ ChunkLen(m.size, 0) = ChunkLen(Size[k], c)
      BY <2>2, <3>1
    <3>. HIDE DEF count
    <3>3. ASSUME NEW j \in 1 .. count PROVE j - 1 = 0
      BY <3>2
    <3>. QED BY <3>2, <3>3
  <2>. QED BY <2>1, <2>3
<1>. HIDE DEF count
<1>3. ASSUME NEW j \in 1 .. count + 1
      PROVE  /\ packet(j) \in Packets
             /\ packet(j).kind = "SBIN" =>
                    /\ packet(j).ver = t
                    /\ \E c \in 0 .. ChunksOf(Size[k]) - 1 : ChunkIn(packet(j), k, c)
  <2>1. CASE j > count
    BY <1>1, <2>1 DEF Donebin, Packets
  <2>2. CASE ~(j > count)
    <3>1. j \in 1 .. count
      BY <1>2, <2>2
    <3>2. PICK c \in 0 .. ChunksOf(Size[k]) - 1 :
              /\ m.addr + (j - 1) * Chunk = Addr[k] + c * Chunk
              /\ ChunkLen(m.size, j - 1) = ChunkLen(Size[k], c)
      BY <1>2, <3>1
    <3>3. c * Chunk \in Nat /\ ChunkLen(Size[k], c) \in 1 .. Chunk
      BY <1>1, ChunkLenType
    <3>4. packet(j) = Sendbin(Addr[k] + c * Chunk, ChunkLen(Size[k], c), t)
      BY <2>2, <3>2
    <3>5. Addr[k] + c * Chunk \in Nat /\ ChunkLen(Size[k], c) \in Nat
      BY <1>1, <3>3
    <3>. HIDE DEF packet
    <3>. QED BY <1>1, <3>4, <3>5 DEF Sendbin, Packets, ChunkIn
  <2>. QED BY <2>1, <2>2
<1>4. Burst(m) = [j \in 1 .. count + 1 |-> packet(j)]
  BY DEF Burst, count
<1>. HIDE DEF packet
<1>5. Burst(m) \in Seq(Packets) /\ Len(Burst(m)) = count + 1
  BY <1>2, <1>3, <1>4
<1>. QED BY <1>3, <1>4, <1>5

LEMMA ClientStep ==
    ASSUME Inductive, ClientRecv
    PROVE  Inductive'
<1>1. PICK i \in 1 .. Len(h2c) : RecvSendbinq(i)
  BY DEF ClientRecv
<1>. DEFINE m == h2c[i]
<1>2. /\ lost' = lost + Overtaken(i) /\ lost + Overtaken(i) <= MaxLoss
      /\ h2c' = After(h2c, i) /\ c2h' = Put(c2h, Burst(m))
      /\ UNCHANGED <<hpc, t, map, data, packets, target, passes, stalled, out>>
  BY <1>1 DEF RecvSendbinq
<1>3. TypeOK /\ DatagramsOK /\ h2c \in Seq(Packets) /\ c2h \in Seq(Packets) /\ t \in Nat
  BY NetDownloadAssumption DEF Inductive, TypeOK
<1>4. PICK k \in 1 .. t : \/ m.addr = Addr[k] /\ m.size = Size[k]
                          \/ \E c \in 0 .. ChunksOf(Size[k]) - 1 : ChunkIn(m, k, c)
  BY <1>3 DEF DatagramsOK
<1>. HIDE DEF m
<1>. DEFINE burst == Burst(m)
<1>5. /\ burst \in Seq(Packets)
      /\ \A j \in 1 .. Len(burst) : burst[j].kind = "SBIN" =>
             /\ burst[j].ver = t
             /\ \E c \in 0 .. ChunksOf(Size[k]) - 1 : ChunkIn(burst[j], k, c)
  BY <1>3, <1>4, BurstChunks
<1>. HIDE DEF burst
<1>6. /\ h2c' \in Seq(Packets)
      /\ \A j \in 1 .. Len(h2c') : \E l \in 1 .. Len(h2c) : h2c'[j] = h2c[l]
  <2>1. /\ After(h2c, i) \in Seq(Packets)
        /\ \A j \in 1 .. Len(After(h2c, i)) : \E l \in 1 .. Len(h2c) : After(h2c, i)[j] = h2c[l]
    BY <1>3, AfterMembers
  <2>. QED BY <1>2, <2>1
<1>7. /\ c2h' \in Seq(Packets)
      /\ \A j \in 1 .. Len(c2h') : \/ \E l \in 1 .. Len(c2h) : c2h'[j] = c2h[l]
                                   \/ \E l \in 1 .. Len(burst) : c2h'[j] = burst[l]
  BY <1>2, <1>3, <1>5, PutMembers DEF burst
<1>8. lost' \in 0 .. MaxLoss
  BY <1>2, <1>3, NetDownloadAssumption DEF Overtaken, TypeOK
<1>9. N' = N
  BY <1>2 DEF N
<1>10. TypeOK'
  BY <1>2, <1>3, <1>6, <1>7, <1>8, <1>9 DEF TypeOK
<1>11. ASSUME NEW j \in 1 .. Len(h2c')
       PROVE  \E l \in 1 .. t' :
                  \/ h2c'[j].addr = Addr[l] /\ h2c'[j].size = Size[l]
                  \/ \E c \in 0 .. ChunksOf(Size[l]) - 1 : ChunkIn(h2c'[j], l, c)
  <2>1. PICK n \in 1 .. Len(h2c) : h2c'[j] = h2c[n]
    BY <1>6
  <2>. QED BY <1>2, <1>3, <2>1 DEF DatagramsOK
<1>12. ASSUME NEW j \in 1 .. Len(c2h'), c2h'[j].kind = "SBIN"
       PROVE  \E l \in 1 .. t' :
                  /\ c2h'[j].ver \in l .. t'
                  /\ \E c \in 0 .. ChunksOf(Size[l]) - 1 : ChunkIn(c2h'[j], l, c)
  <2>1. CASE \E n \in 1 .. Len(c2h) : c2h'[j] = c2h[n]
    <3>1. PICK n \in 1 .. Len(c2h) : c2h'[j] = c2h[n]
      BY <2>1
    <3>. QED BY <1>2, <1>3, <1>12, <3>1 DEF DatagramsOK
  <2>2. CASE \E n \in 1 .. Len(burst) : c2h'[j] = burst[n]
    <3>1. PICK n \in 1 .. Len(burst) : c2h'[j] = burst[n]
      BY <2>2
    <3>2. c2h'[j].ver = t /\ \E c \in 0 .. ChunksOf(Size[k]) - 1 : ChunkIn(c2h'[j], k, c)
      BY <1>5, <1>12, <3>1
    <3>3. t \in k .. t
      BY <1>3
    <3>. QED BY <1>2, <3>2, <3>3
  <2>. QED BY <1>7, <2>1, <2>2
<1>13. DatagramsOK'
  BY <1>11, <1>12 DEF DatagramsOK
<1>14. /\ Compatible => FilledOK'
       /\ AllApart => FreshOK' /\ WrittenIsFresh'
       /\ Compatible /\ Checked => WrittenIsComplete'
  BY <1>2 DEF Inductive, FilledOK, FreshOK, WrittenIsFresh, WrittenIsComplete
<1>. QED BY <1>10, <1>13, <1>14 DEF Inductive

-----------------------------------------------------------------------------
(* The theorems *)

LEMMA DownloadInit == Init => Inductive
<1>. SUFFICES ASSUME Init PROVE Inductive
  OBVIOUS
<1>. DEFINE m == Sendbinq(Addr[1], Size[1])
            none == <<>>
<1>1. /\ hpc = "stream" /\ t = 1 /\ map = {} /\ data = Empty(Size[1])
      /\ packets = 0 /\ target = 0 /\ passes = 0 /\ stalled = 0 /\ out = none
      /\ h2c = Put(none, <<m>>) /\ c2h = none /\ lost = 0
  BY DEF Init
<1>2. /\ 1 \in 1 .. Len(Addr) /\ Len(Addr) \in Nat
      /\ Addr[1] \in Nat /\ Size[1] \in Nat \ {0} /\ ChunksOf(Size[1]) \in Nat \ {0}
  <2>1. 1 \in 1 .. Len(Addr) /\ Len(Addr) \in Nat
    BY NetDownloadAssumption
  <2>. QED BY <2>1, TransferType
<1>3. m \in Packets /\ m.addr = Addr[1] /\ m.size = Size[1]
  BY <1>2 DEF Sendbinq, Packets
<1>4. /\ none \in Seq(Packets) /\ none \in Seq(Written) /\ Len(none) = 0
  OBVIOUS
<1>. HIDE DEF m, none
<1>5. h2c \in Seq(Packets) /\ \A j \in 1 .. Len(h2c) : h2c[j] = m
  <2>1. /\ h2c \in Seq(Packets)
        /\ \A j \in 1 .. Len(h2c) : \/ \E k \in 1 .. Len(none) : h2c[j] = none[k]
                                    \/ h2c[j] = m
    <3>1. m \in Packets /\ none \in Seq(Packets) /\ h2c = Put(none, <<m>>)
      BY <1>1, <1>3, <1>4
    <3>. QED BY <3>1, PutOne
  <2>. QED BY <1>4, <2>1
<1>6. TypeOK
  <2>1. N \in Nat \ {0} /\ MaxRerequests \in Nat \ {0} /\ MaxLoss \in Nat
    BY <1>1, <1>2, NetDownloadAssumption DEF N
  <2>2. /\ passes \in 0 .. N + MaxRerequests - 1 /\ stalled \in 0 .. MaxRerequests - 1
        /\ packets \in 0 .. N /\ target \in 0 .. N - 1 /\ lost \in 0 .. MaxLoss
    BY <1>1, <2>1
  <2>3. data \in [0 .. Size[t] - 1 -> 0 .. t]
    BY <1>1, <1>2 DEF Empty
  <2>4. map \subseteq 0 .. N - 1
    BY <1>1
  <2>. QED BY <1>1, <1>2, <1>4, <1>5, <2>2, <2>3, <2>4 DEF TypeOK
<1>7. DatagramsOK
  BY <1>1, <1>3, <1>4, <1>5 DEF DatagramsOK
<1>8. FilledOK /\ WrittenIsFresh /\ WrittenIsComplete
  BY <1>1, <1>4 DEF FilledOK, WrittenIsFresh, WrittenIsComplete
<1>9. FreshOK
  BY <1>1 DEF FreshOK, Empty
<1>. QED BY <1>6, <1>7, <1>8, <1>9 DEF Inductive

LEMMA DownloadStep == Inductive /\ [Next]_vars => Inductive'
<1>1. ASSUME Inductive, UNCHANGED vars PROVE Inductive'
  <2>1. N' = N
    BY <1>1 DEF vars, N
  <2>2. TypeOK' /\ DatagramsOK'
    BY <1>1, <2>1 DEF vars, Inductive, TypeOK, DatagramsOK
  <2>3. /\ Compatible => FilledOK'
        /\ AllApart => FreshOK' /\ WrittenIsFresh'
        /\ Compatible /\ Checked => WrittenIsComplete'
    BY <1>1 DEF vars, Inductive, FilledOK, FreshOK, WrittenIsFresh, WrittenIsComplete
  <2>. QED BY <2>2, <2>3 DEF Inductive
<1>. QED BY <1>1, HostStep, ClientStep DEF Next

LEMMA InductiveHolds == Spec => []Inductive
BY DownloadInit, DownloadStep, PTL DEF Spec

\* download(), whose transfers read memory that is apart or the very same:
\* the counters of network_recv_data stay in their ranges, what is marked in
\* the map is in the buffer, and nothing incomplete is written out.
THEOREM DownloadCorrect == Compatible /\ Checked => (Spec => []DownloadInv)
<1>. SUFFICES ASSUME Compatible, Checked PROVE Spec => []DownloadInv
  OBVIOUS
<1>1. Inductive => DownloadInv
  BY DEF Inductive, DownloadInv
<1>. QED BY <1>1, InductiveHolds, PTL

\* Transfers of memory that is apart: what download() or a guest's write()
\* hands over was read during its own transfer, although SENDBINs of earlier
\* ones arrive late (the filter of network_recv_data).
THEOREM DownloadIsFresh == AllApart => (Spec => []WrittenIsFresh)
<1>. SUFFICES ASSUME AllApart PROVE Spec => []WrittenIsFresh
  OBVIOUS
<1>1. Inductive => WrittenIsFresh
  BY DEF Inductive
<1>. QED BY <1>1, InductiveHolds, PTL

\* Whatever the transfers overlap, the counters and indices of
\* network_recv_data stay in their ranges.
THEOREM DownloadTypes == Spec => []TypeOK
<1>1. Inductive => TypeOK
  BY DEF Inductive
<1>. QED BY <1>1, InductiveHolds, PTL
=============================================================================
