-------------------------- MODULE NetUploadProofs ---------------------------
(***************************************************************************)
(* Proofs about NetUpload on a network that keeps datagrams in order: for  *)
(* all sections, window sizes, RAM sizes, numbers of attempts, losses and  *)
(* channel capacities.                                                     *)
(***************************************************************************)
EXTENDS NetUpload, SequenceTheorems, WellFoundedInduction, TLAPS

-----------------------------------------------------------------------------
(* The channel *)

\* What is in a channel after a send was there, or is what was sent.
LEMMA PutElements ==
    ASSUME NEW S, NEW ch \in Seq(S), NEW ms \in Seq(S)
    PROVE  /\ Put(ch, ms) \in Seq(S)
           /\ Len(Put(ch, ms)) <= Len(ch) + Len(ms)
           /\ \A j \in 1 .. Len(Put(ch, ms)) :
                  Put(ch, ms)[j] = IF j <= Len(ch) THEN ch[j] ELSE ms[j - Len(ch)]
<1>. DEFINE both == ch \o ms
<1>1. /\ both \in Seq(S) /\ Len(both) = Len(ch) + Len(ms)
      /\ \A j \in 1 .. Len(both) : both[j] = IF j <= Len(ch) THEN ch[j] ELSE ms[j - Len(ch)]
  BY ConcatProperties
<1>2. CASE Len(ch) + Len(ms) <= Cap
  BY <1>1, <1>2 DEF Put
<1>3. CASE ~(Len(ch) + Len(ms) <= Cap)
  <2>1. Cap \in Nat /\ Cap \in Int /\ 1 \in Int /\ Len(ch) \in Nat /\ Len(ms) \in Nat
    BY ChannelAssumption
  <2>. HIDE DEF both
  <2>2. \A j \in 1 .. Cap : both[j] \in S
    BY <1>1, <1>3, <2>1
  <2>3. /\ SubSeq(both, 1, Cap) \in Seq(S)
        /\ Len(SubSeq(both, 1, Cap)) = IF 1 <= Cap THEN Cap - 1 + 1 ELSE 0
        /\ \A j \in 1 .. Cap - 1 + 1 : SubSeq(both, 1, Cap)[j] = both[1 + j - 1]
    BY <2>1, <2>2, SubSeqProperties
  <2>4. Len(SubSeq(both, 1, Cap)) = Cap
    BY <2>1, <2>3
  <2>5. \A j \in 1 .. Cap : SubSeq(both, 1, Cap)[j] = both[j]
    <3>1. ASSUME NEW j \in 1 .. Cap PROVE SubSeq(both, 1, Cap)[j] = both[j]
      <4>1. j \in 1 .. Cap - 1 + 1 /\ 1 + j - 1 = j
        BY <2>1
      <4>. QED BY <2>3, <4>1
    <3>. QED BY <3>1
  <2>. QED BY <1>1, <1>3, <2>1, <2>3, <2>4, <2>5 DEF Put, both
<1>. QED BY <1>2, <1>3

\* The case of one datagram.
LEMMA PutOne ==
    ASSUME NEW S, NEW ch \in Seq(S), NEW m \in S
    PROVE  /\ Put(ch, <<m>>) \in Seq(S)
           /\ \A j \in 1 .. Len(Put(ch, <<m>>)) :
                  \/ j \in 1 .. Len(ch) /\ Put(ch, <<m>>)[j] = ch[j]
                  \/ j = Len(ch) + 1 /\ Put(ch, <<m>>)[j] = m
<1>1. <<m>> \in Seq(S) /\ Len(<<m>>) = 1 /\ <<m>>[1] = m /\ Len(ch) \in Nat
  OBVIOUS
<1>. DEFINE ms == <<m>>
            put == Put(ch, ms)
<1>. HIDE DEF ms
<1>2. /\ put \in Seq(S) /\ Len(put) <= Len(ch) + Len(ms)
      /\ \A j \in 1 .. Len(put) : put[j] = IF j <= Len(ch) THEN ch[j] ELSE ms[j - Len(ch)]
  BY <1>1, PutElements DEF ms
<1>. HIDE DEF put
<1>3. ASSUME NEW j \in 1 .. Len(put)
      PROVE  \/ j \in 1 .. Len(ch) /\ put[j] = ch[j]
             \/ j = Len(ch) + 1 /\ put[j] = m
  <2>1. CASE j <= Len(ch)
    BY <1>1, <1>2, <2>1
  <2>2. CASE ~(j <= Len(ch))
    <3>1. j = Len(ch) + 1 /\ j - Len(ch) = 1
      BY <1>1, <1>2, <2>2 DEF ms
    <3>. QED BY <1>1, <1>2, <2>2, <3>1 DEF ms
  <2>. QED BY <2>1, <2>2
<1>. QED BY <1>2, <1>3 DEF put, ms

\* On an ordered network a receiver keeps what came after its datagram.
LEMMA AfterElements ==
    ASSUME Ordered, NEW S, NEW ch \in Seq(S), NEW i \in 1 .. Len(ch)
    PROVE  /\ After(ch, i) \in Seq(S)
           /\ \A j \in 1 .. Len(After(ch, i)) :
                  i + j \in 1 .. Len(ch) /\ After(ch, i)[j] = ch[i + j]
<1>1. Len(ch) \in Nat /\ i + 1 \in Int /\ \A j \in i + 1 .. Len(ch) : ch[j] \in S
  OBVIOUS
<1>. DEFINE rest == SubSeq(ch, i + 1, Len(ch))
<1>2. /\ rest \in Seq(S)
      /\ Len(rest) = IF i + 1 <= Len(ch) THEN Len(ch) - (i + 1) + 1 ELSE 0
      /\ \A j \in 1 .. Len(ch) - (i + 1) + 1 : rest[j] = ch[i + 1 + j - 1]
  BY <1>1, SubSeqProperties
<1>. HIDE DEF rest
<1>3. ASSUME NEW j \in 1 .. Len(rest)
      PROVE  i + j \in 1 .. Len(ch) /\ rest[j] = ch[i + j]
  <2>1. j \in 1 .. Len(ch) - (i + 1) + 1 /\ i + 1 + j - 1 = i + j /\ i + j \in 1 .. Len(ch)
    BY <1>1, <1>2
  <2>. QED BY <1>2, <2>1
<1>. QED BY <1>2, <1>3 DEF After, rest

-----------------------------------------------------------------------------
(* Numbers *)

\* What % does to a number less than one modulus out of range.
LEMMA Modulo ==
    ASSUME NEW n \in Nat \ {0}
    PROVE  /\ \A x \in 0 .. n - 1 : x % n = x
           /\ \A x \in 1 - n .. -1 : x % n = x + n
<1>1. ASSUME NEW x \in 0 .. n - 1 PROVE x % n = x
  OBVIOUS
<1>2. ASSUME NEW x \in 1 - n .. -1 PROVE x % n = x + n
  OBVIOUS
<1>. QED BY <1>1, <1>2

\* Every nonempty set of indices has a least one, the one cmd_donebin names.
LEMMA FirstMissing ==
    ASSUME NEW T \in SUBSET Nat, T # {}
    PROVE  \E i \in T : \A j \in T : i <= j
<1>1. PICK i \in T : \A j \in T : ~(<<j, i>> \in OpToRel(<, Nat))
  BY NatLessThanWellFounded, WFMin
<1>2. \A j \in T : ~(j < i)
  BY <1>1 DEF OpToRel
<1>. QED BY <1>2

-----------------------------------------------------------------------------
(* Addresses, sections and windows *)

\* The uint32_t difference of two addresses, back in the range of the larger.
LEMMA Difference ==
    ASSUME NEW a \in 0 .. AddrMod - 1, NEW b \in 0 .. AddrMod - 1
    PROVE  (a - b) % AddrMod = IF b <= a THEN a - b ELSE a - b + AddrMod
<1>1. AddrMod \in Nat \ {0}
  BY NetUploadAssumption
<1>2. CASE b <= a
  <2>1. a - b \in 0 .. AddrMod - 1
    BY <1>1, <1>2
  <2>. QED BY <1>1, <1>2, <2>1, Modulo
<1>3. CASE ~(b <= a)
  <2>1. a - b \in 1 - AddrMod .. -1
    BY <1>1, <1>3
  <2>. QED BY <1>1, <1>3, <2>1, Modulo
<1>. QED BY <1>2, <1>3

\* The index a chunk is marked at is one of the C array's, or beyond it.
LEMMA DifferenceType ==
    ASSUME NEW a \in 0 .. AddrMod - 1, NEW b \in 0 .. AddrMod - 1
    PROVE  (a - b) % AddrMod \in 0 .. AddrMod - 1
<1>1. AddrMod \in Nat \ {0}
  BY NetUploadAssumption
<1>. QED BY <1>1, Difference

\* A window lies in its section, the section below the end of the addresses.
LEMMA WindowType ==
    ASSUME NEW k \in 1 .. Len(Base), NEW off \in Nat, off < Size[k]
    PROVE  /\ Base[k] \in Nat /\ Size[k] \in Nat
           /\ Base[k] + Size[k] <= AddrMod
           /\ Start(k, off) = Base[k] + off
           /\ Count(k, off) \in Nat \ {0} /\ Count(k, off) <= Size[k] - off
           /\ LoadbinFor(k, off) \in Packets
<1>1. Base[k] \in Nat /\ Size[k] \in Nat \ {0} /\ Base[k] + Size[k] <= AddrMod
  BY NetUploadAssumption
<1>2. Count(k, off) \in Nat \ {0} /\ Count(k, off) <= Size[k] - off
  <2>. DEFINE left == Size[k] - off
  <2>1. left \in Nat \ {0} /\ Win \in Nat \ {0}
    BY <1>1, NetUploadAssumption
  <2>2. Count(k, off) = IF left < Win THEN left ELSE Win
    BY DEF Count
  <2>. HIDE DEF left
  <2>3. Count(k, off) \in Nat \ {0} /\ Count(k, off) <= left
    BY <2>1, <2>2
  <2>. QED BY <2>3 DEF left
<1>3. Base[k] + off \in 0 .. AddrMod - 1 /\ Count(k, off) \in 0 .. AddrMod
  <2>1. AddrMod \in Nat
    BY NetUploadAssumption
  <2>. QED BY <1>1, <1>2, <2>1
<1>. QED BY <1>1, <1>2, <1>3 DEF Start, LoadbinFor, Loadbin, Packets

LEMMA DataType ==
    /\ Data \subseteq 0 .. AddrMod - 1
    /\ \A k \in 1 .. Len(Base) : Section(k) \subseteq Data
    /\ \A a \in Data : \E k \in 1 .. Len(Base) : a \in Section(k)
<1>1. \A k \in 1 .. Len(Base) : Base[k] \in Nat /\ Size[k] \in Nat /\ Base[k] + Size[k] <= AddrMod
  BY NetUploadAssumption
<1>2. \A a \in Data : \E k \in 1 .. Len(Base) : a \in Section(k)
  BY DEF Data, Section
<1>3. \A k \in 1 .. Len(Base) : Section(k) \subseteq Data
  BY DEF Data, Section
<1>4. \A k \in 1 .. Len(Base) : Section(k) \subseteq 0 .. AddrMod - 1
  BY <1>1, NetUploadAssumption DEF Section
<1>. QED BY <1>2, <1>3, <1>4

\* An address belongs to one section.
LEMMA Disjoint ==
    ASSUME NEW k \in 1 .. Len(Base), NEW l \in 1 .. Len(Base), NEW a \in Section(k),
           a \in Section(l)
    PROVE  k = l
<1>1. /\ Base[k] \in Nat /\ Size[k] \in Nat /\ Base[l] \in Nat /\ Size[l] \in Nat
      /\ k # l => Base[k] + Size[k] <= Base[l] \/ Base[l] + Size[l] <= Base[k]
  BY NetUploadAssumption
<1>2. /\ a \in Base[k] .. Base[k] + Size[k] - 1
      /\ a \in Base[l] .. Base[l] + Size[l] - 1
  BY DEF Section
<1>3. ASSUME NEW b \in Nat, NEW s \in Nat, NEW c \in Nat, NEW t \in Nat,
             a \in b .. b + s - 1, a \in c .. c + t - 1
      PROVE  ~(b + s <= c \/ c + t <= b)
  BY <1>3
<1>. QED BY <1>1, <1>2, <1>3

-----------------------------------------------------------------------------
(* The window being sent *)

\* Until the upload has ended well there is a window, in one section and not
\* among those that are past.
LEMMA HereType ==
    ASSUME TypeOK, hpc # "ok"
    PROVE  /\ sec \in 1 .. Len(Base) /\ offset \in Nat
           /\ Here \in 0 .. AddrMod - 1 /\ Chunks \in Nat \ {0} /\ Here + Chunks <= AddrMod
           /\ Cur \in Packets
           /\ Cur.kind = "LBIN" /\ Cur.addr = Here /\ Cur.size = Chunks
           /\ Window \subseteq Section(sec) /\ Window \subseteq Data
           /\ Here \in Window /\ Here \notin Past
<1>1. sec \in 1 .. Len(Base) /\ offset \in Nat /\ offset < Size[sec]
  <2>1. Len(Base) \in Nat
    BY NetUploadAssumption
  <2>. QED BY <2>1 DEF TypeOK
<1>2. /\ Base[sec] \in Nat /\ Size[sec] \in Nat
      /\ Base[sec] + Size[sec] <= AddrMod
      /\ Here = Base[sec] + offset
      /\ Chunks \in Nat \ {0} /\ Chunks <= Size[sec] - offset
      /\ Cur \in Packets
  BY <1>1, WindowType DEF Here, Chunks, Cur
<1>3. Cur.kind = "LBIN" /\ Cur.addr = Here /\ Cur.size = Chunks
  BY DEF Cur, LoadbinFor, Loadbin, Here, Chunks
<1>4. Here \in Window /\ Window \subseteq Section(sec)
  <2>. DEFINE here == Here
             chunks == Chunks
  <2>1. \A a \in here .. here + chunks - 1 : a \in Base[sec] .. Base[sec] + Size[sec] - 1
    BY <1>1, <1>2
  <2>2. here \in here .. here + chunks - 1
    BY <1>1, <1>2
  <2>. QED BY <2>1, <2>2 DEF Window, Section
<1>5. Window \subseteq Data
  BY <1>1, <1>4, DataType
<1>6. Here \notin Past
  <2>1. ASSUME NEW k \in 1 .. Len(Base), Here \in Section(k), k < sec PROVE FALSE
    BY <1>1, <1>4, <2>1, Disjoint
  <2>. QED BY <1>1, <1>2, <2>1 DEF Past
<1>7. Here \in 0 .. AddrMod - 1 /\ Here + Chunks <= AddrMod
  <2>. DEFINE here == Here
             chunks == Chunks
  <2>1. AddrMod \in Nat /\ here = Base[sec] + offset
    BY <1>2, NetUploadAssumption
  <2>. HIDE DEF here, chunks
  <2>2. here \in 0 .. AddrMod - 1 /\ here + chunks <= AddrMod
    BY <1>1, <1>2, <2>1 DEF chunks
  <2>. QED BY <2>2 DEF here, chunks
<1>. QED BY <1>1, <1>2, <1>3, <1>4, <1>5, <1>6, <1>7

\* The stream of a window stores file data and loads nothing.
LEMMA StreamType ==
    ASSUME TypeOK, hpc # "ok"
    PROVE  /\ Stream \in Seq(Packets)
           /\ \A j \in 1 .. Len(Stream) :
                  /\ Stream[j].kind # "LBIN"
                  /\ Stream[j].kind = "PBIN" => Stream[j].addr \in Data /\ Stream[j].size = 1
<1>1. Here \in 0 .. AddrMod - 1 /\ Chunks \in Nat \ {0} /\ Window \subseteq Data
  BY HereType
<1>. DEFINE packet(j) == IF j <= Chunks THEN Partbin(Here + j - 1, TRUE) ELSE Donebin
<1>2. ASSUME NEW j \in 1 .. Chunks + 1
      PROVE  /\ packet(j) \in Packets
             /\ packet(j).kind # "LBIN"
             /\ packet(j).kind = "PBIN" => packet(j).addr \in Data /\ packet(j).size = 1
  <2>1. CASE j <= Chunks
    <3>1. Here + j - 1 \in Window
      BY <1>1, <2>1 DEF Window
    <3>2. Here + j - 1 \in Data /\ Here + j - 1 \in 0 .. AddrMod - 1
      BY <1>1, <3>1, DataType
    <3>. QED BY <2>1, <3>2, NetUploadAssumption DEF Partbin, Packets
  <2>2. CASE ~(j <= Chunks)
    BY <2>2, NetUploadAssumption DEF Donebin, Packets
  <2>. QED BY <2>1, <2>2
<1>3. Stream = [j \in 1 .. Chunks + 1 |-> packet(j)]
  BY DEF Stream
<1>. HIDE DEF packet
<1>4. Stream \in Seq(Packets) /\ Len(Stream) = Chunks + 1
  BY <1>1, <1>2, <1>3
<1>. QED BY <1>2, <1>3, <1>4

\* A step that stays in the window leaves all that is said of it unchanged.
LEMMA SameWindow ==
    ASSUME sec' = sec, offset' = offset
    PROVE  /\ Here' = Here /\ Chunks' = Chunks /\ Cur' = Cur
           /\ Past' = Past /\ Window' = Window
BY DEF Here, Chunks, Cur, Past, Window, Start, Count, LoadbinFor

\* An upload that has ended well is in memory, but for the windows that were left.
LEMMA Complete ==
    ASSUME TypeOK', MapOK', PastOK'
    PROVE  AckedIsComplete'
<1>. SUFFICES ASSUME hpc' = "ok" PROVE Data \ skipped' \subseteq mem' /\ mem' \subseteq Data
  BY DataType DEF AckedIsComplete
<1>1. sec' = Len(Base) + 1 /\ Past' \ skipped' \subseteq mem' /\ mem' \subseteq Data
  BY DEF TypeOK, PastOK, MapOK
<1>2. Data \subseteq Past'
  BY <1>1, DataType, NetUploadAssumption DEF Past
<1>. QED BY <1>1, <1>2

-----------------------------------------------------------------------------
(* The client's steps *)

\* What a step of the client leaves alone, and what it has to establish.
LEMMA ClientFrame ==
    ASSUME Ordered, UploadInv, NEW i \in 1 .. Len(h2c), ClientTakes(i)
    PROVE  /\ h2c[i] \in Packets
           /\ lost' \in 0 .. MaxLoss
           /\ h2c' \in Seq(Packets)
           /\ \A j \in 1 .. Len(h2c') : i + j \in 1 .. Len(h2c) /\ h2c'[j] = h2c[i + j]
           /\ UNCHANGED <<hpc, sec, offset, tries, skipped, ram>>
           /\ Here' = Here /\ Chunks' = Chunks /\ Cur' = Cur
           /\ Past' = Past /\ Window' = Window
<1>1. h2c \in Seq(Packets) /\ h2c[i] \in Packets
  BY DEF UploadInv, TypeOK
<1>2. h2c' = After(h2c, i) /\ UNCHANGED <<hpc, sec, offset, tries, skipped, ram>>
  BY DEF ClientTakes, hostVars
<1>3. /\ h2c' \in Seq(Packets)
      /\ \A j \in 1 .. Len(h2c') : i + j \in 1 .. Len(h2c) /\ h2c'[j] = h2c[i + j]
  BY <1>1, <1>2, AfterElements
<1>4. lost' \in 0 .. MaxLoss
  BY NetUploadAssumption DEF ClientTakes, Overtaken, UploadInv, TypeOK
<1>. QED BY <1>1, <1>2, <1>3, <1>4, SameWindow

\* cmd_loadbin: the map is cleared for the window that is announced.
LEMMA LoadbinStep ==
    ASSUME Ordered, UploadInv, NEW i \in 1 .. Len(h2c), RecvLoadbin(i)
    PROVE  UploadInv'
<1>. DEFINE m == h2c[i]
<1>1. /\ m.kind = "LBIN" /\ ClientTakes(i)
      /\ la' = m.addr /\ ls' = m.size /\ mem' = mem
      /\ m.size > ram => map' = map /\ c2h' = c2h
      /\ ~(m.size > ram) => map' = {} /\ c2h' = Put(c2h, <<m>>)
  BY DEF RecvLoadbin
<1>2. /\ m \in Packets /\ m.addr \in 0 .. AddrMod - 1 /\ m.size \in 0 .. AddrMod
      /\ lost' \in 0 .. MaxLoss
      /\ h2c' \in Seq(Packets)
      /\ \A j \in 1 .. Len(h2c') : i + j \in 1 .. Len(h2c) /\ h2c'[j] = h2c[i + j]
      /\ UNCHANGED <<hpc, sec, offset, tries, skipped, ram>>
      /\ Here' = Here /\ Chunks' = Chunks /\ Cur' = Cur
      /\ Past' = Past /\ Window' = Window
  BY <1>1, ClientFrame DEF Packets
<1>. HIDE DEF m
<1>3. /\ c2h' \in Seq(Packets)
      /\ \A j \in 1 .. Len(c2h') :
             \/ j \in 1 .. Len(c2h) /\ c2h'[j] = c2h[j]
             \/ j = Len(c2h) + 1 /\ c2h'[j] = m /\ ~(m.size > ram)
  <2>1. c2h \in Seq(Packets)
    BY DEF UploadInv, TypeOK
  <2>2. CASE m.size > ram
    BY <1>1, <2>1, <2>2
  <2>3. CASE ~(m.size > ram)
    <3>1. c2h' = Put(c2h, <<m>>) /\ m \in Packets
      BY <1>1, <1>2, <2>3
    <3>. QED BY <2>1, <2>3, <3>1, PutOne
  <2>. QED BY <2>2, <2>3
<1>4. /\ m.addr + m.size <= AddrMod
      /\ m.addr \in Past \/ (hpc # "ok" /\ m = Cur)
      /\ ram \in Nat
  BY <1>1, NetUploadAssumption DEF UploadInv, LoadbinsOK, TypeOK, m
<1>5. hpc # "ok" => Here \notin Past /\ Cur.addr = Here /\ Cur.size = Chunks /\ Chunks \in Nat
  BY HereType DEF UploadInv
<1>6. TypeOK'
  BY <1>1, <1>2, <1>3 DEF UploadInv, TypeOK
<1>7. MapOK'
  <2>1. ls' <= ram' => \A k \in map' : k < ls' => la' + k \in mem'
    BY <1>1, <1>2, <1>4
  <2>. QED BY <1>1, <1>2, <1>4, <2>1 DEF UploadInv, MapOK
<1>8. PastOK'
  BY <1>1, <1>2 DEF UploadInv, PastOK
<1>9. LoadbinsOK'
  BY <1>1, <1>2, <1>3, <1>4, <1>5 DEF UploadInv, LoadbinsOK
<1>10. LoadOK'
  <2>. SUFFICES ASSUME hpc = "load" PROVE LoadOK'
    BY <1>2 DEF LoadOK
  <2>1. /\ \A j, k \in 1 .. Len(h2c) : j < k /\ h2c[j] = Cur => h2c[k] = Cur
        /\ \A j, k \in 1 .. Len(c2h) : j < k /\ c2h[j] = Cur => c2h[k] = Cur
        /\ Loaded => \A j \in 1 .. Len(h2c) : h2c[j] = Cur
        /\ \A j \in 1 .. Len(c2h) : c2h[j] = Cur => Loaded
    BY DEF UploadInv, LoadOK
  <2>a. Len(h2c) \in Nat /\ Len(c2h) \in Nat /\ Len(h2c') \in Nat /\ Len(c2h') \in Nat
    BY <1>2, <1>3 DEF UploadInv, TypeOK
  <2>2. \A j \in 1 .. Len(c2h) : c2h[j] = Cur => m = Cur /\ Chunks <= ram
    BY <2>1 DEF Loaded, m
  <2>3. Loaded' <=> m = Cur /\ Chunks <= ram
    BY <1>1, <1>2, <1>4, <1>5 DEF Loaded
  <2>4. ASSUME NEW j \in 1 .. Len(h2c'), NEW k \in 1 .. Len(h2c'), j < k, h2c'[j] = Cur
        PROVE  h2c'[k] = Cur
    <3>1. i + j < i + k
      BY <2>a, <2>4
    <3>2. /\ i + j \in 1 .. Len(h2c) /\ i + k \in 1 .. Len(h2c)
          /\ h2c'[j] = h2c[i + j] /\ h2c'[k] = h2c[i + k]
      BY <1>2
    <3>3. h2c[i + k] = Cur
      BY <2>1, <2>4, <3>1, <3>2
    <3>. QED BY <3>2, <3>3
  <2>5. m = Cur => \A j \in 1 .. Len(h2c') : h2c'[j] = Cur
    <3>1. \A j \in 1 .. Len(h2c') : i < i + j
      BY <2>a
    <3>. QED BY <1>2, <2>1, <3>1 DEF m
  <2>6. ASSUME NEW j \in 1 .. Len(c2h'), NEW k \in 1 .. Len(c2h'), j < k, c2h'[j] = Cur
        PROVE  c2h'[k] = Cur
    BY <1>3, <2>1, <2>2, <2>6
  <2>7. ASSUME NEW j \in 1 .. Len(c2h'), c2h'[j] = Cur PROVE Loaded'
    <3>1. CASE j \in 1 .. Len(c2h) /\ c2h'[j] = c2h[j]
      BY <2>2, <2>3, <2>7, <3>1
    <3>2. CASE c2h'[j] = m /\ ~(m.size > ram)
      <4>1. m = Cur /\ Cur.size = Chunks /\ Chunks \in Nat /\ ram \in Nat
        BY <1>4, <1>5, <2>7, <3>2
      <4>. QED BY <2>3, <3>2, <4>1
    <3>. QED BY <1>3, <3>1, <3>2
  <2>. QED BY <1>2, <2>3, <2>4, <2>5, <2>6, <2>7 DEF LoadOK
<1>11. SentOK'
  <2>. SUFFICES ASSUME Sent PROVE SentOK'
    BY <1>2 DEF SentOK, Sent
  <2>1. m = Cur /\ hpc # "ok" /\ Loaded
    BY <1>1 DEF UploadInv, SentOK, Sent, m
  <2>2. Loaded'
    BY <1>1, <1>2, <1>5, <2>1 DEF Loaded
  <2>3. \A j \in 1 .. Len(h2c') : h2c'[j].kind = "LBIN" => h2c'[j] = Cur
    BY <1>2 DEF UploadInv, SentOK
  <2>4. ASSUME NEW j \in 1 .. Len(c2h'), c2h'[j].kind = "DBIN"
        PROVE  IF c2h'[j].size = 0 THEN Window \subseteq mem
               ELSE c2h'[j].size = 1 /\ c2h'[j].addr \in Window
    BY <1>1, <1>3, <2>4 DEF UploadInv, SentOK
  <2>. QED BY <1>1, <1>2, <2>2, <2>3, <2>4 DEF SentOK
<1>. QED BY <1>6, <1>7, <1>8, <1>9, <1>10, <1>11, Complete DEF UploadInv

\* cmd_partbin: what is marked has been stored, and is file data.
LEMMA PartbinStep ==
    ASSUME Ordered, UploadInv, NEW i \in 1 .. Len(h2c), RecvPartbin(i)
    PROVE  UploadInv'
<1>. DEFINE a == h2c[i].addr
            index == (a - la) % AddrMod
<1>1. /\ h2c[i].kind = "PBIN" /\ ClientTakes(i)
      /\ UNCHANGED <<la, ls, c2h>>
      /\ map' = IF index < ram THEN map \cup {index} ELSE map
      /\ mem' = IF h2c[i].size = 1 THEN mem \cup {a} ELSE mem \ {a}
  BY DEF RecvPartbin
<1>2. /\ lost' \in 0 .. MaxLoss
      /\ h2c' \in Seq(Packets)
      /\ \A j \in 1 .. Len(h2c') : i + j \in 1 .. Len(h2c) /\ h2c'[j] = h2c[i + j]
      /\ UNCHANGED <<hpc, sec, offset, tries, skipped, ram>>
      /\ Here' = Here /\ Chunks' = Chunks /\ Cur' = Cur
      /\ Past' = Past /\ Window' = Window
  BY <1>1, ClientFrame
<1>3. a \in Data /\ a \in 0 .. AddrMod - 1 /\ mem' = mem \cup {a}
  BY <1>1, DataType DEF UploadInv, MapOK
<1>4. la \in 0 .. AddrMod - 1 /\ ls \in Nat /\ la + ls <= AddrMod /\ AddrMod \in Nat \ {0}
  BY NetUploadAssumption DEF UploadInv, TypeOK, MapOK
<1>5. index \in 0 .. AddrMod - 1 /\ index = IF la <= a THEN a - la ELSE a - la + AddrMod
  BY <1>3, <1>4, Difference, DifferenceType
<1>. HIDE DEF a, index
<1>6. TypeOK'
  <2>1. map' \subseteq 0 .. ram - 1
    <3>1. ram \in Nat /\ map \subseteq 0 .. ram - 1
      BY NetUploadAssumption DEF UploadInv, TypeOK
    <3>2. index < ram => index \in 0 .. ram - 1
      BY <1>4, <1>5, <3>1
    <3>. QED BY <1>1, <3>1, <3>2
  <2>2. mem' \subseteq 0 .. AddrMod - 1
    BY <1>3 DEF UploadInv, TypeOK
  <2>. QED BY <1>1, <1>2, <2>1, <2>2 DEF UploadInv, TypeOK
<1>7. MapOK'
  <2>1. ASSUME ls <= ram, NEW k \in map', k < ls PROVE la + k \in mem'
    <3>1. CASE k \in map
      BY <1>3, <2>1, <3>1 DEF UploadInv, MapOK
    <3>2. CASE k = index
      <4>1. la + index = a
        BY <1>3, <1>4, <1>5, <2>1, <3>2
      <4>. QED BY <1>3, <3>2, <4>1
    <3>. QED BY <1>1, <2>1, <3>1, <3>2
  <2>2. mem' \subseteq Data
    BY <1>3 DEF UploadInv, MapOK
  <2>3. \A j \in 1 .. Len(h2c') : h2c'[j].kind = "PBIN" => h2c'[j].addr \in Data /\ h2c'[j].size = 1
    BY <1>2 DEF UploadInv, MapOK
  <2>. QED BY <1>1, <1>2, <1>4, <2>1, <2>2, <2>3 DEF MapOK
<1>8. PastOK'
  BY <1>2, <1>3 DEF UploadInv, PastOK
<1>9. LoadbinsOK'
  BY <1>1, <1>2 DEF UploadInv, LoadbinsOK
<1>10. LoadOK'
  <2>. SUFFICES ASSUME hpc = "load" PROVE LoadOK'
    BY <1>2 DEF LoadOK
  <2>1. /\ \A j, k \in 1 .. Len(h2c) : j < k /\ h2c[j] = Cur => h2c[k] = Cur
        /\ \A j, k \in 1 .. Len(c2h) : j < k /\ c2h[j] = Cur => c2h[k] = Cur
        /\ Loaded => \A j \in 1 .. Len(h2c) : h2c[j] = Cur
        /\ \A j \in 1 .. Len(c2h) : c2h[j] = Cur => Loaded
    BY DEF UploadInv, LoadOK
  <2>2. Loaded' <=> Loaded
    BY <1>1, <1>2 DEF Loaded
  <2>3. Len(h2c) \in Nat /\ Len(h2c') \in Nat
    BY <1>2 DEF UploadInv, TypeOK
  <2>4. ASSUME NEW j \in 1 .. Len(h2c'), NEW k \in 1 .. Len(h2c'), j < k, h2c'[j] = Cur
        PROVE  h2c'[k] = Cur
    <3>1. /\ i + j \in 1 .. Len(h2c) /\ i + k \in 1 .. Len(h2c)
          /\ h2c'[j] = h2c[i + j] /\ h2c'[k] = h2c[i + k] /\ i + j < i + k
      BY <1>2, <2>3, <2>4
    <3>2. h2c[i + k] = Cur
      BY <2>1, <2>4, <3>1
    <3>. QED BY <3>1, <3>2
  <2>5. Loaded => \A j \in 1 .. Len(h2c') : h2c'[j] = Cur
    BY <1>2, <2>1
  <2>. QED BY <1>1, <1>2, <2>1, <2>2, <2>4, <2>5 DEF LoadOK
<1>11. SentOK'
  <2>1. Loaded' <=> Loaded
    BY <1>1, <1>2 DEF Loaded
  <2>2. mem \subseteq mem'
    BY <1>3
  <2>3. Sent => \A j \in 1 .. Len(h2c') : h2c'[j].kind = "LBIN" => h2c'[j] = Cur
    BY <1>2 DEF UploadInv, SentOK
  <2>. QED BY <1>1, <1>2, <2>1, <2>2, <2>3 DEF UploadInv, SentOK, Sent
<1>. QED BY <1>6, <1>7, <1>8, <1>9, <1>10, <1>11, Complete DEF UploadInv

\* cmd_donebin: the answer is "complete" only if the whole range is marked,
\* otherwise it names a chunk of the range.
LEMMA DonebinAckType ==
    ASSUME UploadInv
    PROVE  /\ DonebinAck \in Packets /\ DonebinAck.kind = "DBIN"
           /\ DonebinAck.size = 0 => \A k \in 0 .. ls - 1 : k \in map
           /\ DonebinAck.size # 0 =>
                  /\ DonebinAck.size = 1
                  /\ DonebinAck.addr \in la .. la + ls - 1
<1>1. la \in 0 .. AddrMod - 1 /\ ls \in Nat /\ la + ls <= AddrMod /\ AddrMod \in Nat \ {0}
  BY NetUploadAssumption DEF UploadInv, TypeOK, MapOK
<1>2. CASE Missing = {}
  BY <1>1, <1>2 DEF DonebinAck, Donebin, Missing, Packets
<1>3. CASE Missing # {}
  <2>. DEFINE first == CHOOSE k \in Missing : \A j \in Missing : k <= j
  <2>1. Missing \in SUBSET Nat
    BY <1>1 DEF Missing
  <2>2. first \in Missing
    BY <1>3, <2>1, FirstMissing
  <2>3. first \in 0 .. ls - 1
    BY <2>2 DEF Missing
  <2>4. DonebinAck = [kind |-> "DBIN", addr |-> la + first, size |-> 1]
    BY <1>3 DEF DonebinAck
  <2>. HIDE DEF first
  <2>5. la + first \in 0 .. AddrMod - 1 /\ la + first \in la .. la + ls - 1
    BY <1>1, <2>3
  <2>. QED BY <1>1, <2>4, <2>5 DEF Packets
<1>. QED BY <1>2, <1>3

LEMMA DonebinStep ==
    ASSUME Ordered, UploadInv, NEW i \in 1 .. Len(h2c), RecvDonebin(i)
    PROVE  UploadInv'
<1>. DEFINE ack == DonebinAck
<1>1. /\ h2c[i].kind = "DBIN" /\ ClientTakes(i)
      /\ UNCHANGED <<la, ls, map, mem>>
      /\ c2h' = Put(c2h, <<ack>>)
  BY DEF RecvDonebin
<1>2. /\ lost' \in 0 .. MaxLoss
      /\ h2c' \in Seq(Packets)
      /\ \A j \in 1 .. Len(h2c') : i + j \in 1 .. Len(h2c) /\ h2c'[j] = h2c[i + j]
      /\ UNCHANGED <<hpc, sec, offset, tries, skipped, ram>>
      /\ Here' = Here /\ Chunks' = Chunks /\ Cur' = Cur
      /\ Past' = Past /\ Window' = Window
  BY <1>1, ClientFrame
<1>3. /\ ack \in Packets /\ ack.kind = "DBIN"
      /\ ack.size = 0 => \A k \in 0 .. ls - 1 : k \in map
      /\ ack.size # 0 => ack.size = 1 /\ ack.addr \in la .. la + ls - 1
  BY DonebinAckType
<1>. HIDE DEF ack
<1>4. /\ c2h' \in Seq(Packets)
      /\ \A j \in 1 .. Len(c2h') :
             \/ j \in 1 .. Len(c2h) /\ c2h'[j] = c2h[j]
             \/ j = Len(c2h) + 1 /\ c2h'[j] = ack
  <2>1. c2h \in Seq(Packets)
    BY DEF UploadInv, TypeOK
  <2>. QED BY <1>1, <1>3, <2>1, PutOne
<1>5. Cur.kind = "LBIN"
  BY DEF Cur, LoadbinFor, Loadbin
<1>6. TypeOK'
  BY <1>1, <1>2, <1>4 DEF UploadInv, TypeOK
<1>7. MapOK'
  BY <1>1, <1>2 DEF UploadInv, MapOK
<1>8. PastOK'
  BY <1>1, <1>2 DEF UploadInv, PastOK
<1>9. LoadbinsOK'
  BY <1>1, <1>2, <1>3, <1>4 DEF UploadInv, LoadbinsOK
<1>10. LoadOK'
  <2>. SUFFICES ASSUME hpc = "load" PROVE LoadOK'
    BY <1>2 DEF LoadOK
  <2>1. /\ Loaded => \A j \in 1 .. Len(h2c) : h2c[j] = Cur
        /\ \A j \in 1 .. Len(c2h) : c2h[j] = Cur => Loaded
    BY DEF UploadInv, LoadOK
  <2>2. ~Loaded /\ ~Loaded'
    BY <1>1, <1>2, <1>5, <2>1 DEF Loaded
  <2>3. \A j \in 1 .. Len(c2h') : c2h'[j] # Cur
    BY <1>3, <1>4, <1>5, <2>1, <2>2
  <2>4. Len(h2c) \in Nat /\ Len(h2c') \in Nat
    BY <1>2 DEF UploadInv, TypeOK
  <2>5. ASSUME NEW j \in 1 .. Len(h2c'), NEW k \in 1 .. Len(h2c'), j < k, h2c'[j] = Cur
        PROVE  h2c'[k] = Cur
    <3>1. /\ i + j \in 1 .. Len(h2c) /\ i + k \in 1 .. Len(h2c)
          /\ h2c'[j] = h2c[i + j] /\ h2c'[k] = h2c[i + k] /\ i + j < i + k
      BY <1>2, <2>4, <2>5
    <3>2. h2c[i + k] = Cur
      BY <2>5, <3>1 DEF UploadInv, LoadOK
    <3>. QED BY <3>1, <3>2
  <2>. QED BY <1>2, <2>2, <2>3, <2>5 DEF LoadOK
<1>11. SentOK'
  <2>. SUFFICES ASSUME Sent PROVE SentOK'
    BY <1>2 DEF SentOK, Sent
  <2>1. Loaded /\ Loaded'
    BY <1>1, <1>2 DEF UploadInv, SentOK, Loaded
  <2>2. \A j \in 1 .. Len(h2c') : h2c'[j].kind = "LBIN" => h2c'[j] = Cur
    BY <1>2 DEF UploadInv, SentOK
  <2>3. ack.size = 0 => Window \subseteq mem
    <3>2. la = Here /\ ls = Chunks /\ ls <= ram /\ la \in Nat /\ ls \in Nat
      BY <2>1 DEF UploadInv, TypeOK, Loaded
    <3>1. \A k \in 0 .. ls - 1 : k \in map => la + k \in mem
      BY <3>2 DEF UploadInv, MapOK
    <3>. DEFINE top == la + ls - 1
    <3>3. ack.size = 0 => \A b \in la .. top : b \in mem
      <4>1. SUFFICES ASSUME ack.size = 0, NEW b \in la .. top PROVE b \in mem
        OBVIOUS
      <4>2. b - la \in 0 .. ls - 1 /\ la + (b - la) = b
        BY <3>2
      <4>. QED BY <1>3, <3>1, <4>1, <4>2
    <3>. QED BY <3>2, <3>3 DEF Window
  <2>4. ack.size # 0 => ack.size = 1 /\ ack.addr \in Window
    BY <1>3, <2>1 DEF Loaded, Window
  <2>5. ASSUME NEW j \in 1 .. Len(c2h'), c2h'[j].kind = "DBIN"
        PROVE  IF c2h'[j].size = 0 THEN Window \subseteq mem
               ELSE c2h'[j].size = 1 /\ c2h'[j].addr \in Window
    BY <1>4, <2>3, <2>4, <2>5 DEF UploadInv, SentOK
  <2>. QED BY <1>1, <1>2, <2>1, <2>2, <2>5 DEF SentOK
<1>. QED BY <1>6, <1>7, <1>8, <1>9, <1>10, <1>11, Complete DEF UploadInv

-----------------------------------------------------------------------------
(* The host's steps *)

\* The host takes an answer: what the client keeps is not touched.
LEMMA HostFrame ==
    ASSUME Ordered, UploadInv, NEW i \in 1 .. Len(c2h), HostTakes(i)
    PROVE  /\ c2h[i] \in Packets
           /\ lost' \in 0 .. MaxLoss
           /\ c2h' \in Seq(Packets)
           /\ \A j \in 1 .. Len(c2h') : i + j \in 1 .. Len(c2h) /\ c2h'[j] = c2h[i + j]
           /\ UNCHANGED <<ram, la, ls, map, mem>>
<1>1. c2h \in Seq(Packets) /\ c2h[i] \in Packets
  BY DEF UploadInv, TypeOK
<1>2. c2h' = After(c2h, i) /\ UNCHANGED <<ram, la, ls, map, mem>>
  BY DEF HostTakes, clientVars
<1>3. /\ c2h' \in Seq(Packets)
      /\ \A j \in 1 .. Len(c2h') : i + j \in 1 .. Len(c2h) /\ c2h'[j] = c2h[i + j]
  BY <1>1, <1>2, AfterElements
<1>4. lost' \in 0 .. MaxLoss
  BY NetUploadAssumption DEF HostTakes, Overtaken, UploadInv, TypeOK
<1>. QED BY <1>1, <1>2, <1>3, <1>4

\* A packet that is not the answer awaited is dropped.
LEMMA DropStep ==
    ASSUME Ordered, UploadInv, NEW i \in 1 .. Len(c2h), DropAck(i)
    PROVE  UploadInv'
<1>1. HostTakes(i) /\ UNCHANGED <<hpc, sec, offset, tries, skipped, h2c>>
  BY DEF DropAck, hostVars
<1>2. /\ lost' \in 0 .. MaxLoss
      /\ c2h' \in Seq(Packets)
      /\ \A j \in 1 .. Len(c2h') : i + j \in 1 .. Len(c2h) /\ c2h'[j] = c2h[i + j]
      /\ UNCHANGED <<ram, la, ls, map, mem>>
  BY <1>1, HostFrame
<1>3. /\ Here' = Here /\ Chunks' = Chunks /\ Cur' = Cur
      /\ Past' = Past /\ Window' = Window
  BY <1>1, SameWindow
<1>4. TypeOK' /\ MapOK' /\ PastOK'
  BY <1>1, <1>2, <1>3 DEF UploadInv, TypeOK, MapOK, PastOK
<1>5. LoadbinsOK'
  BY <1>1, <1>2, <1>3 DEF UploadInv, LoadbinsOK
<1>6. LoadOK'
  <2>1. Loaded' <=> Loaded
    BY <1>2, <1>3 DEF Loaded
  <2>2. Len(c2h) \in Nat /\ Len(c2h') \in Nat
    BY <1>2 DEF UploadInv, TypeOK
  <2>3. ASSUME hpc = "load", NEW j \in 1 .. Len(c2h'), NEW k \in 1 .. Len(c2h'), j < k,
               c2h'[j] = Cur
        PROVE  c2h'[k] = Cur
    <3>1. /\ i + j \in 1 .. Len(c2h) /\ i + k \in 1 .. Len(c2h)
          /\ c2h'[j] = c2h[i + j] /\ c2h'[k] = c2h[i + k] /\ i + j < i + k
      BY <1>2, <2>2, <2>3
    <3>2. c2h[i + k] = Cur
      BY <2>3, <3>1 DEF UploadInv, LoadOK
    <3>. QED BY <3>1, <3>2
  <2>. QED BY <1>1, <1>2, <1>3, <2>1, <2>3 DEF UploadInv, LoadOK
<1>7. SentOK'
  BY <1>1, <1>2, <1>3 DEF UploadInv, SentOK, Sent, Loaded
<1>. QED BY <1>4, <1>5, <1>6, <1>7, Complete DEF UploadInv

\* What the invariant says of a window whose LOADBIN was answered holds again
\* after sending more of it: file data, DONEBINs and its own LOADBIN.
LEMMA AwaitStep ==
    ASSUME Ordered, UploadInv, NEW phase, NEW ms \in Seq(Packets),
           phase \in {"done", "load2", "done2", "recover", "reload"},
           hpc # "ok", Await(phase, ms),
           c2h' \in Seq(Packets), lost' \in 0 .. MaxLoss,
           UNCHANGED <<ram, la, ls, map, mem>>,
           Loaded,
           \A j \in 1 .. Len(h2c) : h2c[j].kind = "LBIN" => h2c[j] = Cur,
           \A j \in 1 .. Len(ms) :
               /\ ms[j].kind = "LBIN" => ms[j] = Cur
               /\ ms[j].kind = "PBIN" => ms[j].addr \in Data /\ ms[j].size = 1,
           \A j \in 1 .. Len(c2h') : \E k \in 1 .. Len(c2h) : c2h'[j] = c2h[k],
           \A j \in 1 .. Len(c2h') : c2h'[j].kind = "DBIN" =>
               IF c2h'[j].size = 0 THEN Window \subseteq mem
               ELSE c2h'[j].size = 1 /\ c2h'[j].addr \in Window
    PROVE  UploadInv'
<1>1. /\ hpc' = phase /\ tries' = 1 /\ h2c' = Put(h2c, ms)
      /\ UNCHANGED <<sec, offset, skipped>>
  BY DEF Await
<1>2. /\ Here' = Here /\ Chunks' = Chunks /\ Cur' = Cur
      /\ Past' = Past /\ Window' = Window
  BY <1>1, SameWindow
<1>3. /\ h2c' \in Seq(Packets)
      /\ \A j \in 1 .. Len(h2c') :
             \/ \E k \in 1 .. Len(h2c) : h2c'[j] = h2c[k]
             \/ \E k \in 1 .. Len(ms) : h2c'[j] = ms[k]
  <2>1. h2c \in Seq(Packets) /\ Len(h2c) \in Nat /\ Len(ms) \in Nat
    BY DEF UploadInv, TypeOK
  <2>2. /\ h2c' \in Seq(Packets) /\ Len(h2c') <= Len(h2c) + Len(ms) /\ Len(h2c') \in Nat
        /\ \A j \in 1 .. Len(h2c') : h2c'[j] = IF j <= Len(h2c) THEN h2c[j] ELSE ms[j - Len(h2c)]
    <3>1. /\ h2c' \in Seq(Packets) /\ Len(h2c') <= Len(h2c) + Len(ms)
          /\ \A j \in 1 .. Len(h2c') : h2c'[j] = IF j <= Len(h2c) THEN h2c[j] ELSE ms[j - Len(h2c)]
      BY <1>1, <2>1, PutElements
    <3>. QED BY <3>1
  <2>3. ASSUME NEW j \in 1 .. Len(h2c')
        PROVE  \/ j \in 1 .. Len(h2c) /\ h2c'[j] = h2c[j]
               \/ j - Len(h2c) \in 1 .. Len(ms) /\ h2c'[j] = ms[j - Len(h2c)]
    <3>1. CASE j <= Len(h2c)
      BY <2>1, <2>2, <3>1
    <3>2. CASE ~(j <= Len(h2c))
      <4>1. j - Len(h2c) \in 1 .. Len(ms)
        BY <2>1, <2>2, <3>2
      <4>. QED BY <2>2, <3>2, <4>1
    <3>. QED BY <3>1, <3>2
  <2>. QED BY <2>2, <2>3
<1>4. Cur \in Packets /\ Cur.kind = "LBIN" /\ Cur.addr + Cur.size <= AddrMod
  BY HereType DEF UploadInv
<1>5. /\ \A j \in 1 .. Len(h2c') : h2c'[j].kind = "LBIN" => h2c'[j] = Cur
      /\ \A j \in 1 .. Len(h2c') : h2c'[j].kind = "PBIN" =>
             h2c'[j].addr \in Data /\ h2c'[j].size = 1
  <2>1. ASSUME NEW j \in 1 .. Len(h2c')
        PROVE  /\ h2c'[j].kind = "LBIN" => h2c'[j] = Cur
               /\ h2c'[j].kind = "PBIN" => h2c'[j].addr \in Data /\ h2c'[j].size = 1
    BY <1>3 DEF UploadInv, MapOK
  <2>. QED BY <2>1
<1>6. TypeOK'
  <2>1. /\ tries' \in 1 .. MaxTries /\ hpc' # "ok"
        /\ hpc' \in {"load", "done", "load2", "done2", "recover", "reload", "ok", "fail"}
    BY <1>1, NetUploadAssumption
  <2>. QED BY <1>1, <1>3, <2>1 DEF UploadInv, TypeOK
<1>7. MapOK' /\ PastOK'
  BY <1>1, <1>2, <1>5 DEF UploadInv, MapOK, PastOK
<1>8. LoadbinsOK'
  <2>1. \A j \in 1 .. Len(c2h') : c2h'[j].kind = "LBIN" => c2h'[j].addr \in Past \/ c2h'[j] = Cur
    BY DEF UploadInv, LoadbinsOK
  <2>2. hpc' # "ok"
    BY <1>1
  <2>. QED BY <1>2, <1>4, <1>5, <2>1, <2>2 DEF LoadbinsOK, Loaded
<1>9. LoadOK'
  BY <1>1 DEF LoadOK
<1>10. SentOK'
  <2>1. Loaded'
    BY <1>2 DEF Loaded
  <2>. QED BY <1>2, <1>5, <2>1 DEF SentOK
<1>. QED BY <1>6, <1>7, <1>8, <1>9, <1>10, Complete DEF UploadInv

\* The end of a window moves it to the past, and nothing else.
LEMMA Advance ==
    ASSUME TypeOK, hpc # "ok", sec' = NextSec, offset' = NextOff
    PROVE  /\ sec' \in 1 .. Len(Base) + 1 /\ offset' \in Nat
           /\ sec' # Len(Base) + 1 => offset' < Size[sec']
           /\ Past \subseteq Past' /\ Window \subseteq Past'
           /\ Past' \subseteq Past \cup Window
<1>. DEFINE here == Here
            chunks == Chunks
<1>1. /\ sec \in 1 .. Len(Base) /\ offset \in Nat /\ Len(Base) \in Nat
      /\ Window \subseteq Section(sec) /\ Window \subseteq Data
  BY HereType, NetUploadAssumption
<1>2. /\ Base[sec] \in Nat /\ Size[sec] \in Nat
      /\ here = Base[sec] + offset
      /\ chunks \in Nat \ {0} /\ chunks <= Size[sec] - offset
  BY <1>1, WindowType DEF Here, Chunks, TypeOK
<1>3. Window = here .. here + chunks - 1
  BY DEF Window
<1>4. \A k \in 1 .. Len(Base) : Size[k] \in Nat \ {0} /\ Base[k] \in Nat
  BY NetUploadAssumption
<1>5. CASE More
  <2>1. sec' = sec /\ offset' = offset + chunks /\ offset + chunks < Size[sec]
    BY <1>5 DEF NextSec, NextOff, More
  <2>. HIDE DEF here, chunks
  <2>2. sec' \in 1 .. Len(Base) + 1 /\ offset' \in Nat /\ offset' < Size[sec']
    BY <1>1, <1>2, <2>1
  <2>3. ASSUME NEW a \in Past PROVE a \in Past'
    <3>1. PICK k \in 1 .. Len(Base) : /\ a \in Section(k)
                                      /\ k < sec \/ (k = sec /\ a < Base[k] + offset)
      BY <2>3 DEF Past
    <3>2. k < sec' \/ (k = sec' /\ a < Base[k] + offset')
      <4>1. a \in Int
        BY <1>4, <3>1 DEF Section
      <4>. QED BY <1>1, <1>2, <2>1, <3>1, <4>1
    <3>. QED BY <2>3, <3>1, <3>2 DEF Past
  <2>4. ASSUME NEW a \in Window PROVE a \in Past'
    <3>1. a \in Section(sec) /\ a \in Data /\ a < Base[sec] + (offset + chunks)
      BY <1>1, <1>2, <1>3, <2>4
    <3>. QED BY <1>1, <2>1, <3>1 DEF Past
  <2>5. ASSUME NEW a \in Past' PROVE a \in Past \cup Window
    <3>1. PICK k \in 1 .. Len(Base) :
              /\ a \in Section(k)
              /\ k < sec \/ (k = sec /\ a < Base[k] + (offset + chunks))
      BY <2>1, <2>5 DEF Past
    <3>2. a \in Data /\ a \in Int
      BY <1>4, <3>1, DataType DEF Section
    <3>3. CASE k < sec
      BY <3>1, <3>2, <3>3 DEF Past
    <3>4. CASE k = sec /\ a < Base[k] + offset
      BY <3>1, <3>2, <3>4 DEF Past
    <3>5. CASE k = sec /\ ~(a < Base[k] + offset)
      <4>1. a < Base[sec] + (offset + chunks)
        BY <1>1, <3>1, <3>5
      <4>2. a \in here .. here + chunks - 1
        BY <1>1, <1>2, <3>2, <3>5, <4>1
      <4>. QED BY <1>3, <4>2
    <3>. QED BY <1>1, <3>1, <3>3, <3>4, <3>5
  <2>. QED BY <2>2, <2>3, <2>4, <2>5
<1>6. CASE ~More
  <2>1. sec' = sec + 1 /\ offset' = 0 /\ ~(offset + chunks < Size[sec])
    BY <1>6 DEF NextSec, NextOff, More
  <2>. HIDE DEF here, chunks
  <2>2. /\ sec' \in 1 .. Len(Base) + 1 /\ offset' \in Nat
        /\ sec' # Len(Base) + 1 => offset' < Size[sec']
    <3>1. sec' # Len(Base) + 1 => sec' \in 1 .. Len(Base)
      BY <1>1, <2>1
    <3>. QED BY <1>1, <1>4, <2>1, <3>1
  <2>3. ASSUME NEW a \in Past PROVE a \in Past'
    <3>1. PICK k \in 1 .. Len(Base) : /\ a \in Section(k)
                                      /\ k < sec \/ k = sec
      BY <2>3 DEF Past
    <3>2. k < sec'
      BY <1>1, <2>1, <3>1
    <3>. QED BY <2>3, <3>1, <3>2 DEF Past
  <2>4. ASSUME NEW a \in Window PROVE a \in Past'
    <3>1. a \in Section(sec) /\ a \in Data /\ sec < sec'
      BY <1>1, <2>1, <2>4
    <3>. QED BY <1>1, <3>1 DEF Past
  <2>5. ASSUME NEW a \in Past' PROVE a \in Past \cup Window
    <3>1. PICK k \in 1 .. Len(Base) :
              /\ a \in Section(k)
              /\ k < sec + 1 \/ (k = sec + 1 /\ a < Base[k] + 0)
      BY <2>1, <2>5 DEF Past
    <3>2. a \in Data /\ a \in Base[k] .. Base[k] + Size[k] - 1 /\ Base[k] \in Nat /\ Size[k] \in Nat
      BY <1>4, <3>1, DataType DEF Section
    <3>3. CASE k < sec
      BY <3>1, <3>2, <3>3 DEF Past
    <3>4. CASE k = sec /\ a < Base[k] + offset
      BY <3>1, <3>2, <3>4 DEF Past
    <3>5. CASE k = sec /\ ~(a < Base[k] + offset)
      <4>1. a \in here .. here + chunks - 1
        BY <1>1, <1>2, <2>1, <3>2, <3>5
      <4>. QED BY <1>3, <4>1
    <3>6. k < sec \/ k = sec
      BY <1>1, <3>1, <3>2
    <3>. QED BY <3>3, <3>4, <3>5, <3>6
  <2>. QED BY <2>2, <2>3, <2>4, <2>5
<1>. QED BY <1>5, <1>6

\* The window ends: what the channels still hold is about the past, except
\* the next window's LOADBIN.
LEMMA WindowDoneStep ==
    ASSUME Ordered, UploadInv, Sent, NEW complete \in BOOLEAN, WindowDone(complete),
           complete => Window \subseteq mem,
           c2h' \in Seq(Packets), lost' \in 0 .. MaxLoss,
           \A j \in 1 .. Len(c2h') : \E k \in 1 .. Len(c2h) : c2h'[j] = c2h[k],
           UNCHANGED <<ram, la, ls, map, mem>>
    PROVE  UploadInv'
<1>1. /\ skipped' = IF complete THEN skipped ELSE skipped \cup Window
      /\ sec' = NextSec /\ offset' = NextOff
      /\ NextSec <= Len(Base) => /\ hpc' = "load" /\ tries' = 1
                                 /\ h2c' = Put(h2c, <<LoadbinFor(NextSec, NextOff)>>)
      /\ ~(NextSec <= Len(Base)) => hpc' = "ok" /\ UNCHANGED <<tries, h2c>>
  BY DEF WindowDone
<1>2. hpc # "ok" /\ hpc # "fail"
  BY DEF Sent
<1>3. /\ sec' \in 1 .. Len(Base) + 1 /\ offset' \in Nat
      /\ sec' # Len(Base) + 1 => offset' < Size[sec']
      /\ Past \subseteq Past' /\ Window \subseteq Past'
      /\ Past' \subseteq Past \cup Window
      /\ Len(Base) \in Nat
  BY <1>1, <1>2, Advance, NetUploadAssumption DEF UploadInv
<1>4. Here \in Past' /\ Cur.addr \in Past'
  BY <1>2, <1>3, HereType DEF UploadInv
<1>5. \A j \in 1 .. Len(h2c) : h2c[j].kind = "LBIN" =>
          h2c[j].addr \in Past' /\ h2c[j].addr + h2c[j].size <= AddrMod
  BY <1>3, <1>4 DEF UploadInv, LoadbinsOK
<1>6. \A j \in 1 .. Len(c2h') : c2h'[j].kind = "LBIN" => c2h'[j].addr \in Past'
  BY <1>3, <1>4 DEF UploadInv, LoadbinsOK
<1>7. Loaded /\ la' = Here
  BY DEF UploadInv, SentOK, Loaded
<1>8. /\ skipped' \subseteq Data
      /\ Past' \ skipped' \subseteq mem'
  <2>1. Window \subseteq Data /\ skipped \subseteq Data /\ Past \ skipped \subseteq mem
    BY <1>3 DEF UploadInv, TypeOK, PastOK, Past
  <2>. QED BY <1>1, <1>3, <2>1
<1>9. CASE NextSec <= Len(Base)
  <2>1. hpc' = "load" /\ tries' = 1 /\ sec' \in 1 .. Len(Base) /\ sec' # Len(Base) + 1
    BY <1>1, <1>3, <1>9
  <2>2. /\ LoadbinFor(sec', offset') \in Packets
        /\ Start(sec', offset') + Count(sec', offset') <= AddrMod
        /\ Count(sec', offset') \in Nat \ {0}
        /\ Start(sec', offset') = Base[sec'] + offset'
        /\ Base[sec'] \in Nat /\ Size[sec'] \in Nat /\ Base[sec'] + Size[sec'] <= AddrMod
        /\ Count(sec', offset') <= Size[sec'] - offset'
    <3>1. /\ Base[sec'] \in Nat /\ Size[sec'] \in Nat /\ Base[sec'] + Size[sec'] <= AddrMod
          /\ Start(sec', offset') = Base[sec'] + offset'
          /\ Count(sec', offset') \in Nat \ {0}
          /\ Count(sec', offset') <= Size[sec'] - offset'
          /\ LoadbinFor(sec', offset') \in Packets
      BY <1>3, <2>1, WindowType
    <3>2. \A b, o, c, s \in Nat : b + s <= AddrMod /\ c <= s - o => b + o + c <= AddrMod
      BY NetUploadAssumption
    <3>3. Base[sec'] + offset' + Count(sec', offset') <= AddrMod
      BY <1>3, <3>1, <3>2
    <3>. QED BY <3>1, <3>3
  <2>3. Cur' = LoadbinFor(sec', offset') /\ Here' = Start(sec', offset')
    BY DEF Cur, Here
  <2>4. /\ Cur' \in Packets /\ Cur'.kind = "LBIN"
        /\ Cur'.addr = Here' /\ Cur'.addr + Cur'.size <= AddrMod
    BY <2>2, <2>3 DEF LoadbinFor, Loadbin
  <2>5. Here' \notin Past'
    <3>1. Here' \in Section(sec')
      <4>1. \A b, s, o, c \in Nat : c # 0 /\ c <= s - o => b + o \in b .. b + s - 1
        OBVIOUS
      <4>2. Base[sec'] + offset' \in Base[sec'] .. Base[sec'] + Size[sec'] - 1
        BY <1>3, <2>2, <4>1
      <4>3. Here' = Base[sec'] + offset'
        BY <2>2, <2>3
      <4>. QED BY <4>2, <4>3 DEF Section
    <3>2. ASSUME NEW k \in 1 .. Len(Base), Here' \in Section(k), k < sec' PROVE FALSE
      BY <2>1, <3>1, <3>2, Disjoint
    <3>3. ~(Here' < Base[sec'] + offset')
      BY <1>3, <2>2, <2>3
    <3>. QED BY <3>2, <3>3 DEF Past
  <2>6. /\ h2c' \in Seq(Packets)
        /\ \A j \in 1 .. Len(h2c') :
               \/ j \in 1 .. Len(h2c) /\ h2c'[j] = h2c[j]
               \/ j = Len(h2c) + 1 /\ h2c'[j] = Cur'
    <3>1. h2c \in Seq(Packets) /\ h2c' = Put(h2c, <<Cur'>>)
      BY <1>1, <1>9, <2>3 DEF UploadInv, TypeOK
    <3>. QED BY <2>4, <3>1, PutOne
  <2>7. TypeOK'
    <3>1. 1 \in 1 .. MaxTries
      BY NetUploadAssumption
    <3>. QED BY <1>3, <1>8, <2>1, <2>6, <3>1 DEF UploadInv, TypeOK
  <2>8. MapOK' /\ PastOK'
    <3>1. \A j \in 1 .. Len(h2c') : h2c'[j].kind = "PBIN" =>
              h2c'[j].addr \in Data /\ h2c'[j].size = 1
      BY <2>4, <2>6 DEF UploadInv, MapOK
    <3>. QED BY <1>8, <3>1 DEF UploadInv, MapOK, PastOK
  <2>9. LoadbinsOK'
    <3>1. \A j \in 1 .. Len(h2c') : h2c'[j].kind = "LBIN" =>
              /\ h2c'[j].addr + h2c'[j].size <= AddrMod
              /\ h2c'[j].addr \in Past' \/ h2c'[j] = Cur'
      BY <1>5, <2>4, <2>6
    <3>2. hpc' # "ok"
      BY <2>1
    <3>. QED BY <1>4, <1>6, <1>7, <3>1, <3>2 DEF LoadbinsOK
  <2>10. LoadOK'
    <3>1. ~Loaded'
      BY <1>4, <1>7, <2>5 DEF Loaded
    <3>2. \A j \in 1 .. Len(c2h') : c2h'[j] # Cur'
      BY <1>6, <2>4, <2>5
    <3>3. \A j \in 1 .. Len(h2c') : h2c'[j] = Cur' => j = Len(h2c) + 1
      BY <1>5, <2>4, <2>5, <2>6
    <3>4. Len(h2c) \in Nat /\ \A j \in 1 .. Len(h2c') : j <= Len(h2c) + 1
      <4>1. Len(h2c) \in Nat
        BY DEF UploadInv, TypeOK
      <4>. QED BY <2>6, <4>1
    <3>5. ASSUME NEW j \in 1 .. Len(h2c'), NEW k \in 1 .. Len(h2c'), j < k, h2c'[j] = Cur'
          PROVE  h2c'[k] = Cur'
      BY <3>3, <3>4, <3>5
    <3>. QED BY <3>1, <3>2, <3>5 DEF LoadOK
  <2>11. SentOK'
    BY <2>1 DEF SentOK, Sent
  <2>. QED BY <2>7, <2>8, <2>9, <2>10, <2>11, Complete DEF UploadInv
<1>10. CASE ~(NextSec <= Len(Base))
  <2>1. hpc' = "ok" /\ UNCHANGED <<tries, h2c>> /\ sec' = Len(Base) + 1
    BY <1>1, <1>3, <1>10
  <2>2. TypeOK'
    BY <1>3, <1>8, <2>1 DEF UploadInv, TypeOK
  <2>3. MapOK' /\ PastOK'
    BY <1>8, <2>1 DEF UploadInv, MapOK, PastOK
  <2>4. LoadbinsOK'
    BY <1>4, <1>5, <1>6, <1>7, <2>1 DEF LoadbinsOK
  <2>5. LoadOK' /\ SentOK'
    BY <2>1 DEF LoadOK, SentOK, Sent
  <2>. QED BY <2>2, <2>3, <2>4, <2>5, Complete DEF UploadInv
<1>. QED BY <1>9, <1>10

\* The answer awaited: to a LOADBIN, the window follows or is left; to a
\* DONEBIN, the window is complete, or a chunk of it is sent again.
LEMMA AckStep ==
    ASSUME Ordered, UploadInv, NEW i \in 1 .. Len(c2h), RecvAck(i)
    PROVE  UploadInv'
<1>. DEFINE m == c2h[i]
<1>1. /\ AckMatches(m) /\ HostTakes(i)
      /\ CASE hpc = "load"   -> Await("done", Stream)
           [] hpc = "load2"  -> Await("done2", Stream)
           [] hpc = "reload" -> WindowDone(FALSE)
           [] OTHER -> HandleDonebin(m)
  BY DEF RecvAck
<1>2. /\ m \in Packets
      /\ lost' \in 0 .. MaxLoss
      /\ c2h' \in Seq(Packets)
      /\ \A j \in 1 .. Len(c2h') : i + j \in 1 .. Len(c2h) /\ c2h'[j] = c2h[i + j]
      /\ UNCHANGED <<ram, la, ls, map, mem>>
  BY <1>1, HostFrame
<1>3. \A j \in 1 .. Len(c2h') : \E k \in 1 .. Len(c2h) : c2h'[j] = c2h[k]
  BY <1>2
<1>4. m.kind = Awaited /\ (m.kind = "LBIN" => m.addr = Here /\ m.size = Chunks)
  BY <1>1 DEF AckMatches
<1>5. Cur = [kind |-> "LBIN", addr |-> Here, size |-> Chunks]
  BY DEF Cur, LoadbinFor, Loadbin, Here, Chunks
<1>. HIDE DEF m
<1>6. hpc # "ok" /\ hpc # "fail"
  BY <1>2, <1>4 DEF Awaited, Packets
<1>7. /\ Stream \in Seq(Packets)
      /\ \A j \in 1 .. Len(Stream) :
             /\ Stream[j].kind # "LBIN"
             /\ Stream[j].kind = "PBIN" => Stream[j].addr \in Data /\ Stream[j].size = 1
  BY <1>6, StreamType DEF UploadInv
<1>8. CASE hpc = "load"
  <2>1. m = Cur
    BY <1>2, <1>4, <1>5, <1>8 DEF Awaited, Packets
  <2>2. /\ \A j, k \in 1 .. Len(c2h) : j < k /\ c2h[j] = Cur => c2h[k] = Cur
        /\ Loaded /\ \A j \in 1 .. Len(h2c) : h2c[j] = Cur
    BY <1>8, <2>1 DEF UploadInv, LoadOK, m
  <2>3. \A j \in 1 .. Len(c2h') : c2h'[j] = Cur
    <3>1. Len(c2h) \in Nat /\ Len(c2h') \in Nat
      BY <1>2 DEF UploadInv, TypeOK
    <3>2. ASSUME NEW j \in 1 .. Len(c2h') PROVE c2h'[j] = Cur
      <4>1. i < i + j /\ i + j \in 1 .. Len(c2h) /\ c2h'[j] = c2h[i + j]
        BY <1>2, <3>1
      <4>2. c2h[i] = Cur
        BY <2>1 DEF m
      <4>. QED BY <2>2, <4>1, <4>2
    <3>. QED BY <3>2
  <2>4. \A j \in 1 .. Len(c2h') : c2h'[j].kind # "DBIN"
    BY <1>5, <2>3
  <2>. QED BY <1>1, <1>2, <1>3, <1>6, <1>7, <1>8, <2>2, <2>4, AwaitStep
<1>9. CASE Sent
  <2>1. /\ Loaded
        /\ \A j \in 1 .. Len(h2c) : h2c[j].kind = "LBIN" => h2c[j] = Cur
        /\ \A j \in 1 .. Len(c2h) : c2h[j].kind = "DBIN" =>
               IF c2h[j].size = 0 THEN Window \subseteq mem
               ELSE c2h[j].size = 1 /\ c2h[j].addr \in Window
    BY <1>9 DEF UploadInv, SentOK
  <2>2. \A j \in 1 .. Len(c2h') : c2h'[j].kind = "DBIN" =>
            IF c2h'[j].size = 0 THEN Window \subseteq mem
            ELSE c2h'[j].size = 1 /\ c2h'[j].addr \in Window
    BY <1>2, <2>1
  <2>3. CASE hpc = "load2"
    BY <1>1, <1>2, <1>3, <1>6, <1>7, <2>1, <2>2, <2>3, AwaitStep
  <2>4. CASE hpc = "reload"
    BY <1>1, <1>2, <1>3, <1>9, <2>4, WindowDoneStep
  <2>5. CASE hpc \in {"done", "done2", "recover"}
    <3>1. HandleDonebin(m) /\ m.kind = "DBIN"
      BY <1>1, <1>4, <2>5 DEF Awaited
    <3>2. IF m.size = 0 THEN Window \subseteq mem ELSE m.size = 1 /\ m.addr \in Window
      BY <2>1, <3>1 DEF m
    <3>3. CASE m.size = 0 /\ WindowDone(TRUE)
      BY <1>2, <1>3, <1>9, <3>2, <3>3, WindowDoneStep
    <3>4. CASE m.size # 0 /\ ~ValidMiss(m) /\ WindowDone(FALSE)
      BY <1>2, <1>3, <1>9, <3>4, WindowDoneStep
    <3>5. CASE m.size # 0 /\ Await("recover", <<Partbin(m.addr, MissOff(m.addr) < Chunks), Donebin>>)
      <4>1. m.addr \in Window /\ m.addr \in Data /\ m.addr \in 0 .. AddrMod - 1
        BY <1>6, <3>2, <3>5, HereType, DataType DEF UploadInv
      <4>2. MissOff(m.addr) < Chunks
        <5>1. Here \in 0 .. AddrMod - 1 /\ Chunks \in Nat /\ m.addr \in Here .. Here + Chunks - 1
          BY <1>6, <4>1, HereType DEF UploadInv, Window
        <5>2. MissOff(m.addr) = m.addr - Here
          BY <4>1, <5>1, Difference DEF MissOff
        <5>. QED BY <5>1, <5>2
      <4>. DEFINE chunk == Partbin(m.addr, TRUE)
                  ms == <<chunk, Donebin>>
      <4>3. /\ chunk \in Packets /\ Donebin \in Packets
            /\ chunk.kind = "PBIN" /\ chunk.addr = m.addr /\ chunk.size = 1
            /\ Donebin.kind = "DBIN"
        BY <4>1, NetUploadAssumption DEF Partbin, Donebin, Packets
      <4>4. Await("recover", ms)
        BY <3>5, <4>2
      <4>. HIDE DEF chunk
      <4>5. /\ ms \in Seq(Packets)
            /\ \A j \in 1 .. Len(ms) :
                   /\ ms[j].kind = "LBIN" => ms[j] = Cur
                   /\ ms[j].kind = "PBIN" => ms[j].addr \in Data /\ ms[j].size = 1
        BY <4>1, <4>3
      <4>. HIDE DEF ms
      <4>. QED BY <1>2, <1>3, <1>6, <2>1, <2>2, <4>4, <4>5, AwaitStep
    <3>. QED BY <3>1, <3>3, <3>4, <3>5 DEF HandleDonebin
  <2>. QED BY <1>9, <2>3, <2>4, <2>5 DEF Sent
<1>. QED BY <1>6, <1>8, <1>9 DEF Sent, UploadInv, TypeOK

\* A command is sent again.
LEMMA ResendStep ==
    ASSUME UploadInv, Resend
    PROVE  UploadInv'
<1>. DEFINE m == IF Awaited = "LBIN" THEN LoadbinFor(sec, offset) ELSE Donebin
<1>1. /\ Awaited # "none" /\ tries < MaxTries
      /\ tries' = tries + 1 /\ h2c' = Put(h2c, <<m>>)
      /\ UNCHANGED <<hpc, sec, offset, skipped, ram, la, ls, map, mem, c2h, lost>>
  BY DEF Resend, clientVars
<1>2. hpc # "ok" /\ hpc # "fail"
  BY <1>1 DEF Awaited
<1>3. /\ Cur \in Packets /\ Cur.kind = "LBIN"
      /\ Cur.addr = Here /\ Cur.size = Chunks /\ Here + Chunks <= AddrMod
  BY <1>2, HereType DEF UploadInv
<1>4. Donebin \in Packets /\ Donebin.kind = "DBIN"
  BY NetUploadAssumption DEF Donebin, Packets
<1>5. /\ m \in Packets /\ m.kind # "PBIN"
      /\ m.kind = "LBIN" => m = Cur
      /\ hpc = "load" => m = Cur
  BY <1>3, <1>4 DEF Awaited, Cur
<1>. HIDE DEF m
<1>6. /\ h2c' \in Seq(Packets) /\ Len(h2c) \in Nat
      /\ \A j \in 1 .. Len(h2c') :
             \/ j \in 1 .. Len(h2c) /\ h2c'[j] = h2c[j]
             \/ j = Len(h2c) + 1 /\ h2c'[j] = m
  <2>1. h2c \in Seq(Packets) /\ Len(h2c) \in Nat
    BY DEF UploadInv, TypeOK
  <2>2. h2c' = Put(h2c, <<m>>) /\ m \in Packets
    BY <1>1, <1>5
  <2>. QED BY <2>1, <2>2, PutOne
<1>7. /\ Here' = Here /\ Chunks' = Chunks /\ Cur' = Cur
      /\ Past' = Past /\ Window' = Window
  BY <1>1, SameWindow
<1>8. TypeOK'
  <2>1. tries' \in 1 .. MaxTries
    BY <1>1, NetUploadAssumption DEF UploadInv, TypeOK
  <2>. QED BY <1>1, <1>6, <2>1 DEF UploadInv, TypeOK
<1>9. MapOK' /\ PastOK'
  <2>1. \A j \in 1 .. Len(h2c') : h2c'[j].kind = "PBIN" => h2c'[j].addr \in Data /\ h2c'[j].size = 1
    BY <1>5, <1>6 DEF UploadInv, MapOK
  <2>. QED BY <1>1, <1>7, <2>1 DEF UploadInv, MapOK, PastOK
<1>10. LoadbinsOK'
  <2>1. \A j \in 1 .. Len(h2c') : h2c'[j].kind = "LBIN" =>
            /\ h2c'[j].addr + h2c'[j].size <= AddrMod
            /\ h2c'[j].addr \in Past \/ h2c'[j] = Cur
    BY <1>3, <1>5, <1>6 DEF UploadInv, LoadbinsOK
  <2>. QED BY <1>1, <1>2, <1>7, <2>1 DEF UploadInv, LoadbinsOK
<1>11. LoadOK'
  <2>. SUFFICES ASSUME hpc = "load" PROVE LoadOK'
    BY <1>1 DEF LoadOK
  <2>1. Loaded' <=> Loaded
    BY <1>1, <1>7 DEF Loaded
  <2>2. ASSUME NEW j \in 1 .. Len(h2c'), NEW k \in 1 .. Len(h2c'), j < k, h2c'[j] = Cur
        PROVE  h2c'[k] = Cur
    <3>1. CASE k \in 1 .. Len(h2c) /\ h2c'[k] = h2c[k]
      <4>1. j \in 1 .. Len(h2c) /\ h2c'[j] = h2c[j]
        BY <1>6, <2>2, <3>1
      <4>. QED BY <2>2, <3>1, <4>1 DEF UploadInv, LoadOK
    <3>2. CASE h2c'[k] = m
      BY <1>5, <3>2
    <3>. QED BY <1>6, <3>1, <3>2
  <2>3. Loaded => \A j \in 1 .. Len(h2c') : h2c'[j] = Cur
    BY <1>5, <1>6 DEF UploadInv, LoadOK
  <2>. QED BY <1>1, <1>7, <2>1, <2>2, <2>3 DEF UploadInv, LoadOK
<1>12. SentOK'
  <2>1. Sent => \A j \in 1 .. Len(h2c') : h2c'[j].kind = "LBIN" => h2c'[j] = Cur
    BY <1>5, <1>6 DEF UploadInv, SentOK
  <2>. QED BY <1>1, <1>7, <2>1 DEF UploadInv, SentOK, Sent, Loaded
<1>. QED BY <1>8, <1>9, <1>10, <1>11, <1>12, Complete DEF UploadInv

\* The attempts are used up: the window is announced again, or the upload
\* fails.
LEMMA ExhaustedStep ==
    ASSUME Ordered, UploadInv, Exhausted
    PROVE  UploadInv'
<1>1. /\ Awaited # "none"
      /\ CASE hpc = "done"    -> Await("load2", <<LoadbinFor(sec, offset)>>)
           [] hpc = "recover" -> Await("reload", <<LoadbinFor(sec, offset)>>)
           [] OTHER -> Fail
      /\ UNCHANGED <<ram, la, ls, map, mem, c2h, lost>>
  BY DEF Exhausted, clientVars
<1>2. hpc # "ok" /\ hpc # "fail"
  BY <1>1 DEF Awaited
<1>3. c2h' \in Seq(Packets) /\ lost' \in 0 .. MaxLoss
  BY <1>1 DEF UploadInv, TypeOK
<1>4. CASE hpc \in {"done", "recover"}
  <2>. DEFINE ms == <<Cur>>
  <2>1. Cur \in Packets /\ Cur.kind = "LBIN"
    BY <1>2, HereType DEF UploadInv
  <2>2. ms \in Seq(Packets) /\ \A j \in 1 .. Len(ms) : ms[j] = Cur
    BY <2>1
  <2>3. \E phase \in {"load2", "reload"} : Await(phase, ms)
    BY <1>1, <1>4 DEF Cur
  <2>4. /\ Loaded
        /\ \A j \in 1 .. Len(h2c) : h2c[j].kind = "LBIN" => h2c[j] = Cur
        /\ \A j \in 1 .. Len(c2h') : c2h'[j].kind = "DBIN" =>
               IF c2h'[j].size = 0 THEN Window \subseteq mem
               ELSE c2h'[j].size = 1 /\ c2h'[j].addr \in Window
    BY <1>1, <1>4 DEF UploadInv, SentOK, Sent
  <2>5. \A j \in 1 .. Len(c2h') : \E k \in 1 .. Len(c2h) : c2h'[j] = c2h[k]
    BY <1>1
  <2>. HIDE DEF ms
  <2>. QED BY <1>1, <1>2, <1>3, <2>1, <2>2, <2>3, <2>4, <2>5, AwaitStep
<1>5. CASE hpc \notin {"done", "recover"}
  <2>1. hpc' = "fail" /\ UNCHANGED <<sec, offset, tries, skipped, h2c>>
    BY <1>1, <1>5 DEF Fail
  <2>2. /\ Here' = Here /\ Chunks' = Chunks /\ Cur' = Cur
        /\ Past' = Past /\ Window' = Window
    BY <2>1, SameWindow
  <2>3. TypeOK'
    BY <1>1, <1>2, <2>1 DEF UploadInv, TypeOK
  <2>4. MapOK' /\ PastOK' /\ LoadbinsOK'
    BY <1>1, <1>2, <2>1, <2>2 DEF UploadInv, MapOK, PastOK, LoadbinsOK
  <2>5. LoadOK' /\ SentOK'
    BY <2>1 DEF LoadOK, SentOK, Sent
  <2>. QED BY <2>3, <2>4, <2>5, Complete DEF UploadInv
<1>. QED BY <1>4, <1>5

-----------------------------------------------------------------------------
(* The theorems *)

LEMMA UploadInit == Init => UploadInv
<1>. SUFFICES ASSUME Init PROVE UploadInv
  OBVIOUS
<1>1. /\ hpc = "load" /\ sec = 1 /\ offset = 0 /\ tries = 1 /\ skipped = {}
      /\ ram \in Rams /\ la = 0 /\ ls = 0 /\ map = {} /\ mem = {}
      /\ h2c = Put(<<>>, <<Cur>>) /\ c2h = <<>> /\ lost = 0
  BY DEF Init, Cur
<1>2. 1 \in 1 .. Len(Base) /\ 0 < Size[1] /\ Len(Base) \in Nat /\ sec # Len(Base) + 1
  BY <1>1, NetUploadAssumption
<1>3. /\ Cur \in Packets /\ Cur.kind = "LBIN" /\ Cur.addr = Here
      /\ Cur.size = Chunks /\ Chunks \in Nat \ {0} /\ Cur.addr + Cur.size <= AddrMod
  <2>1. /\ LoadbinFor(1, 0) \in Packets /\ Base[1] \in Nat /\ Size[1] \in Nat
        /\ Base[1] + Size[1] <= AddrMod /\ Start(1, 0) = Base[1] + 0
        /\ Count(1, 0) \in Nat \ {0} /\ Count(1, 0) <= Size[1] - 0
    BY <1>2, WindowType
  <2>2. Start(1, 0) + Count(1, 0) <= AddrMod
    BY <2>1, NetUploadAssumption
  <2>. QED BY <1>1, <2>1, <2>2 DEF Cur, Here, Chunks, LoadbinFor, Loadbin
<1>4. h2c \in Seq(Packets) /\ \A j \in 1 .. Len(h2c) : h2c[j] = Cur
  <2>. DEFINE none == <<>>
  <2>1. none \in Seq(Packets) /\ Len(none) = 0
    OBVIOUS
  <2>2. h2c = Put(none, <<Cur>>) /\ Cur \in Packets
    BY <1>1, <1>3
  <2>. HIDE DEF none
  <2>3. /\ h2c \in Seq(Packets)
        /\ \A j \in 1 .. Len(h2c) : \/ j \in 1 .. Len(none) /\ h2c[j] = none[j]
                                    \/ j = Len(none) + 1 /\ h2c[j] = Cur
    BY <2>1, <2>2, PutOne
  <2>. QED BY <2>1, <2>3
<1>5. TypeOK
  <2>1. /\ 0 \in 0 .. AddrMod - 1 /\ 0 \in 0 .. AddrMod
        /\ 1 \in 1 .. MaxTries /\ 0 \in 0 .. MaxLoss
        /\ 1 # Len(Base) + 1 /\ 1 \in 1 .. Len(Base) + 1
    BY <1>2, NetUploadAssumption
  <2>2. c2h \in Seq(Packets)
    BY <1>1
  <2>. QED BY <1>1, <1>2, <1>4, <2>1, <2>2 DEF TypeOK
<1>6. MapOK /\ AckedIsComplete
  BY <1>1, <1>3, <1>4, NetUploadAssumption DEF MapOK, AckedIsComplete
<1>7. PastOK
  <2>1. Past = {}
    <3>1. ASSUME NEW k \in 1 .. Len(Base), NEW a \in Section(k),
                 k < 1 \/ (k = 1 /\ a < Base[k] + 0)
          PROVE  FALSE
      BY <1>2, <3>1, NetUploadAssumption DEF Section
    <3>. QED BY <1>1, <3>1 DEF Past
  <2>. QED BY <2>1 DEF PastOK
<1>8. LoadbinsOK
  BY <1>1, <1>3, <1>4 DEF LoadbinsOK
<1>9. LoadOK /\ SentOK
  BY <1>1, <1>4 DEF LoadOK, SentOK, Sent
<1>. QED BY <1>5, <1>6, <1>7, <1>8, <1>9 DEF UploadInv

LEMMA UploadStep ==
    ASSUME Ordered, UploadInv, [Next]_vars
    PROVE  UploadInv'
<1>1. CASE HostRecv
  BY <1>1, AckStep, DropStep DEF HostRecv
<1>2. CASE ClientRecv
  BY <1>2, LoadbinStep, PartbinStep, DonebinStep DEF ClientRecv
<1>3. CASE TimesOut
  BY <1>3, ResendStep, ExhaustedStep DEF TimesOut
<1>4. CASE UNCHANGED vars
  BY <1>4 DEF vars, hostVars, clientVars, UploadInv, TypeOK, AckedIsComplete, MapOK,
              PastOK, LoadbinsOK, LoadOK, SentOK, Sent, Loaded, Window, Cur, Past,
              Here, Chunks
<1>. QED BY <1>1, <1>2, <1>3, <1>4 DEF Next

\* On an ordered network the whole inductive invariant of the upload holds:
\* network_send_data_once never closes a window by an answer meant for
\* another one, and cmd_partbin marks nothing that was not stored.
THEOREM UploadCorrect == Ordered => (Spec => []UploadInv)
<1>. SUFFICES ASSUME Ordered PROVE Spec => []UploadInv
  OBVIOUS
<1>1. UploadInv /\ [Next]_vars => UploadInv'
  BY UploadStep
<1>. QED BY <1>1, UploadInit, PTL DEF Spec

\* When an upload is reported a success, every chunk of the file is in the
\* console's memory, except for chunks of windows that were left after DONEBIN
\* had gone unanswered in their recovery (network.c:856); and nothing but the
\* file's chunks was stored.
THEOREM AcknowledgedUpload == Ordered => (Spec => []AckedIsComplete)
<1>. SUFFICES ASSUME Ordered PROVE Spec => []AckedIsComplete
  OBVIOUS
<1>1. UploadInv => AckedIsComplete
  BY DEF UploadInv
<1>. QED BY <1>1, UploadCorrect, PTL
=============================================================================
