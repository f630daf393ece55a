--------------------------- MODULE SerialConsole ----------------------------
(***************************************************************************)
(* A guest program's system calls over a byte stream (serial line, USB     *)
(* Gecko, PSP USB pipe): client/common/serial/serial_syscalls.c and        *)
(* cdfs_syscalls.c on the console against do_serial_console and its        *)
(* ser_syscall_* handlers in host/src/console.c.                           *)
(*                                                                         *)
(* Nothing on the wire says where a value starts or ends: both programs    *)
(* must agree on the next thing to be read in every case of every call.    *)
(* The model keeps what the bytes were written as: a token is a byte, a    *)
(* word (put_uint, send_uint) or the body of a data block, and a reader    *)
(* that finds another kind of token than it asks for is out of frame.      *)
(*                                                                         *)
(* Each side is a sequence of instructions still to be done.  A data block *)
(* is cut into units; the unit u of call k is the pair <<k, u>>.           *)
(***************************************************************************)
EXTENDS Integers, Sequences, FiniteSets

CONSTANTS
    Calls,          \* the calls a guest makes: records [op, n, m]
    MaxCalls,       \* bound: calls of a session
    HostBlock,      \* SERIAL_BUFFER_SIZE, in units
    GuestBlock,     \* 8192 bytes, in units
    MinCompress,    \* 19 bytes, in units
    MaxSize,        \* MAX_SYSCALL_SIZE
    MaxPath,        \* MAX_PATH_LEN
    MaxDirs,        \* MAX_OPEN_DIRS
    GdbMax,         \* the size of gdb_buf
    WordMod,        \* 2^32
    MayDie          \* TRUE: the line may be unplugged

PathOps == {"open", "creat", "link", "unlink", "chdir", "chmod", "mkdir", "stat", "utime", "opendir"}
WordOps == {"close", "lseek", "time", "fstat", "closedir", "rewinddir", "readdir"}
SizeOps == {"read", "write", "cdfsread", "gdbpacket"}
Ops     == PathOps \cup WordOps \cup SizeOps \cup {"progexit"}

ASSUME SerialConsoleAssumption ==
    /\ Calls \subseteq [op : Ops, n : Nat, m : Nat]
    /\ {MaxCalls, MaxSize, MaxPath, MaxDirs, GdbMax} \subseteq Nat
    /\ {HostBlock, GuestBlock, MinCompress, WordMod} \subseteq Nat \ {0}
    /\ MayDie \in BOOLEAN

VARIABLES
    gtodo, ggot,    \* guest: instructions left, values read in this call
    gcall, gno,     \* guest: the call and its number
    gbuf,           \* guest: the data block read in this call
    gwrk,           \* guest: wrkmem is set
    returned,       \* guest (history): what each call returned
    dirs,           \* guest: directory handles it holds
    htodo, hgot,    \* host: instructions left, values read for this request
    hop,            \* host: the request being served, "none" at the command byte
    hbuf,           \* host: the data blocks read for this request
    lost,           \* host: ser_link_dead
    opendirs,       \* host: slots of the directory table in use
    answer,         \* host (history): the result it computed for each request
    act,            \* host (history): its last operation and the data it was given
    c2h, h2c,       \* the two directions of the stream
    link            \* "up", "dead"

guestVars == <<gtodo, ggot, gcall, gno, gbuf, gwrk, returned, dirs>>
hostVars  == <<htodo, hgot, hop, hbuf, lost, opendirs, answer, act>>
vars == <<guestVars, hostVars, c2h, h2c, link>>

-----------------------------------------------------------------------------
(* Tokens and instructions *)

Byte(v)    == [t |-> "byte", v |-> v, units |-> <<>>]
Word(v)    == [t |-> "word", v |-> v, units |-> <<>>]
Body(n, u) == [t |-> "body", v |-> n, units |-> u]

Instr(i, toks, n, u) == [i |-> i, toks |-> toks, n |-> n, units |-> u]
Write(toks)  == Instr("write", toks, 0, <<>>)  \* put these tokens
Arg          == Instr("arg", <<>>, 0, <<>>)    \* read a word into the request or call
EchoOf(v)    == Instr("echo", <<>>, v, <<>>)   \* read the echo of a word
Ack          == Instr("ack", <<>>, 0, <<>>)    \* read the byte that answers a block
Recv(n)      == Instr("recv", <<>>, n, <<>>)   \* read blocks until n units are there
RecvBody(n)  == Instr("body", <<>>, n, <<>>)   \* read the rest of a block
Send(u)      == Instr("send", <<>>, 0, u)      \* write these units as blocks
Do           == Instr("do", <<>>, 0, <<>>)     \* the host's operation and its answer
End          == Instr("end", <<>>, 0, <<>>)    \* the handler returns

Units(k, n)  == [u \in 1 .. n |-> <<k, u>>]
First(u, n)  == SubSeq(u, 1, n)
Rest(u, n)   == SubSeq(u, n + 1, Len(u))
Least(a, b)  == IF a < b THEN a ELSE b

-----------------------------------------------------------------------------
(* The guest's calls *)

\* A request: the call's byte and words.
Request(op, k) == Write(<<Byte(op)>> \o [i \in 1 .. k |-> Word(0)])
Sized(op, n)   == Write(<<Byte(op), Word(n)>>)
Results(k)     == [i \in 1 .. k |-> Arg]

\* The words that follow the name in a request.
WordsAfterName(c) == CASE c.op = "open" -> 2
                       [] c.op \in {"creat", "chmod", "mkdir"} -> 1
                       [] OTHER -> 0
WordsOf(op) == CASE op = "time" -> 0 [] op = "lseek" -> 3 [] OTHER -> 1

\* Wrong variants of the definitions below, each a slip the code could have
\* made, are named after the definition with a suffix; the properties must
\* reject every one of them.

\* The calls that name a file.
PathScript(c, k) ==
    LET name == <<Sized(c.op, c.n), Send(Units(k, c.n))>>
    IN  CASE c.op = "link" -> name \o <<Write(<<Word(c.m)>>), Send(Units(k, c.m)), Arg>>
          [] c.op = "utime" ->
               name \o <<Write(IF c.m > 0 THEN <<Word(1), Word(0), Word(0)>> ELSE <<Word(0)>>), Arg>>
          [] c.op = "stat" -> name \o Results(14)
          [] OTHER -> name \o <<Write([i \in 1 .. WordsAfterName(c) |-> Word(0)]), Arg>>

\* The calls whose request is words only.
WordScript(c) ==
    CASE c.op = "fstat" -> <<Request("fstat", 1)>> \o Results(14)
      [] c.op \in {"closedir", "readdir", "rewinddir"} -> <<Sized(c.op, c.n), Arg>>
      [] c.op = "progexit" -> <<Request("progexit", 1)>>
      [] OTHER -> <<Request(c.op, WordsOf(c.op)), Arg>>

\* write() and gdbpacket() that send a block for no data, too.
SizeScript_alwaysBlock(c, k) ==
    LET head == <<Write(<<Byte(c.op), Word(0), Word(c.n)>>)>>
    IN  CASE c.op = "read" -> head \o <<Recv(c.n), Arg>>
          [] c.op = "cdfsread" -> head \o <<Recv(c.n)>>
          [] OTHER -> head \o <<Send(Units(k, c.n)), Arg>>

\* The calls that move data; nothing is sent for a size of 0.
SizeScript(c, k) ==
    LET head == <<Write(<<Byte(c.op), Word(IF c.op = "gdbpacket" THEN c.n ELSE 0),
                          Word(IF c.op = "gdbpacket" THEN c.m ELSE c.n)>>)>>
        data == IF c.n > 0 THEN <<Send(Units(k, c.n))>> ELSE <<>>
    IN  CASE c.op = "read" -> head \o <<Recv(c.n), Arg>>
          [] c.op = "cdfsread" -> head \o <<Recv(c.n)>>
          [] OTHER -> head \o data \o <<Arg>>

Script(c, k) == CASE c.op \in PathOps -> PathScript(c, k)
                  [] c.op \in SizeOps -> SizeScript(c, k)
                  [] OTHER -> WordScript(c)

\* What a call still does when its script is done, given the values read.
More(c, g) ==
    CASE c.op = "readdir" /\ Len(g) = 1 /\ g[1] # 0 -> Results(5)
      [] c.op = "readdir" /\ Len(g) = 6 -> <<Recv(g[6])>>
      [] c.op = "gdbpacket" /\ Len(g) = 1 /\ g[1] \in 1 .. c.m -> <<Recv(g[1])>>
      [] OTHER -> <<>>

Minus1 == WordMod - 1

\* What call k returns: readdir and gdbpacket their first word, the CDFS read
\* a new request id whatever happened (k stands for it), the others their
\* last word.
Returns(c, g, k) == CASE c.op = "cdfsread" -> k
                      [] c.op \in {"readdir", "gdbpacket"} -> g[1]
                      [] OTHER -> g[Len(g)]

-----------------------------------------------------------------------------
(* The guest at work.  It blocks on a dead line. *)

Guest == gtodo[1]
GuestNow(toks, more) == /\ c2h' = c2h \o toks
                        /\ gtodo' = more \o Tail(gtodo)

GuestBegins(c) ==
    /\ link = "up" /\ gtodo = <<>> /\ gcall.op = "none" /\ gno < MaxCalls
    /\ c.op \in {"closedir", "readdir", "rewinddir"} => c.n \in dirs \cup {0}
    /\ gcall' = c /\ gno' = gno + 1 /\ gtodo' = Script(c, gno + 1)
    /\ ggot' = <<>> /\ gbuf' = <<>>
    /\ UNCHANGED <<gwrk, returned, dirs, hostVars, c2h, h2c, link>>

\* assign_wrkmem: from now on blocks are compressed.
AssignWrkmem ==
    /\ link = "up" /\ gcall.op = "none" /\ ~gwrk
    /\ gwrk' = TRUE
    /\ UNCHANGED <<gtodo, ggot, gcall, gno, gbuf, returned, dirs, hostVars, c2h, h2c, link>>

GuestWrites ==
    /\ Guest.i = "write" /\ GuestNow(Guest.toks, <<>>)
    /\ UNCHANGED <<ggot, gbuf, h2c>>

\* get_uint that does not echo.
GuestReadsWord_noEcho ==
    /\ Guest.i = "arg" /\ h2c # <<>> /\ h2c[1].t = "word"
    /\ GuestNow(<<>>, <<>>)
    /\ ggot' = Append(ggot, h2c[1].v) /\ h2c' = Tail(h2c)
    /\ UNCHANGED gbuf

\* get_uint: read a word and echo it.
GuestReadsWord ==
    /\ Guest.i = "arg" /\ h2c # <<>> /\ h2c[1].t = "word"
    /\ GuestNow(<<Word(h2c[1].v)>>, <<>>)
    /\ ggot' = Append(ggot, h2c[1].v) /\ h2c' = Tail(h2c)
    /\ UNCHANGED gbuf

\* send_data_block_compressed and _uncompressed: a block of everything, or of
\* the next GuestBlock units, compressed if that makes it shorter.
GuestSends ==
    LET u == Guest.units
        k == Least(Len(u), GuestBlock)
        plain == <<Byte("U"), Word(Len(u)), Body(Len(u), u), Byte("sum")>>
        part  == <<Byte("U"), Word(k), Body(k, First(u, k)), Byte("sum")>>
        short == <<Byte("C"), Word(k - 1), Body(k - 1, First(u, k)), Byte("sum")>>
    IN  /\ Guest.i = "send"
        /\ \/ (~gwrk \/ Len(u) < MinCompress) /\ GuestNow(plain, <<Ack>>)
           \/ /\ gwrk /\ Len(u) >= MinCompress
              /\ GuestNow(part, IF k = Len(u) THEN <<Ack>> ELSE <<Ack, Send(Rest(u, k))>>)
           \/ /\ gwrk /\ Len(u) >= MinCompress /\ k > 1
              /\ GuestNow(short, IF k = Len(u) THEN <<Ack>> ELSE <<Ack, Send(Rest(u, k))>>)
        /\ UNCHANGED <<ggot, gbuf, h2c>>

GuestReadsAck ==
    /\ Guest.i = "ack" /\ h2c # <<>> /\ h2c[1] = Byte("G")
    /\ GuestNow(<<>>, <<>>) /\ h2c' = Tail(h2c)
    /\ UNCHANGED <<ggot, gbuf>>

\* load_data_block_general: the type and the size of a block, ...
GuestReadsBlock ==
    /\ Guest.i = "recv"
    /\ \/ /\ Guest.n = 0
          /\ GuestNow(<<>>, <<>>) /\ ggot' = Append(ggot, Len(gbuf)) /\ UNCHANGED h2c
       \/ /\ Guest.n > 0 /\ Len(h2c) >= 2
          /\ h2c[1] \in {Byte("U"), Byte("C")} /\ h2c[2].t = "word"
          /\ GuestNow(<<Word(h2c[2].v)>>, <<RecvBody(Guest.n)>>)
          /\ h2c' = SubSeq(h2c, 3, Len(h2c)) /\ UNCHANGED ggot
    /\ UNCHANGED gbuf

\* ... then its body and its checksum, which is not looked at.
GuestReadsBody ==
    /\ Guest.i = "body" /\ Len(h2c) >= 2 /\ h2c[1].t = "body"
    /\ LET size == Len(h2c[1].units)
       IN  GuestNow(<<Byte("G")>>, <<Recv(IF size >= Guest.n THEN 0 ELSE Guest.n - size)>>)
    /\ gbuf' = gbuf \o h2c[1].units /\ h2c' = SubSeq(h2c, 3, Len(h2c))
    /\ UNCHANGED ggot

GuestStep ==
    /\ link = "up" /\ gtodo # <<>>
    /\ \/ GuestWrites \/ GuestReadsWord \/ GuestSends \/ GuestReadsAck
       \/ GuestReadsBlock \/ GuestReadsBody
    /\ UNCHANGED <<gcall, gno, gwrk, returned, dirs, hostVars, link>>

\* The call goes on, or returns to the program.
GuestReturns ==
    /\ gtodo = <<>> /\ gcall.op \notin {"none", "exited"}
    /\ IF More(gcall, ggot) # <<>>
       THEN /\ gtodo' = More(gcall, ggot)
            /\ UNCHANGED <<gcall, returned, dirs>>
       ELSE /\ gcall' = [gcall EXCEPT !.op = IF @ = "progexit" THEN "exited" ELSE "none"]
            /\ returned' = IF gcall.op = "progexit" THEN returned
                           ELSE Append(returned, Returns(gcall, ggot, gno))
            /\ dirs' = CASE gcall.op = "opendir" -> (dirs \cup {ggot[1]}) \ {0}
                         [] gcall.op = "closedir" -> dirs \ {gcall.n}
                         [] OTHER -> dirs
            /\ UNCHANGED gtodo
    /\ UNCHANGED <<ggot, gno, gbuf, gwrk, hostVars, c2h, h2c, link>>

-----------------------------------------------------------------------------
(* The host's handlers *)

Fail(v)  == Instr("fail", <<>>, v, <<>>)       \* answer v and return

\* ser_send_uint: a word, and its echo.
SendWord(v) == <<Write(<<Word(v)>>), EchoOf(v)>>
\* Words whose values nothing depends on.
SendZeros(k) == [i \in 1 .. 2 * k |-> IF i % 2 = 1 THEN Write(<<Word(0)>>) ELSE EchoOf(0)]

\* A name of g[i] units is to be read.
NameOK(n) == n \in 1 .. MaxPath

\* What a handler does next, given the words (and block lengths) g it has read.
PathHandler(op, g) ==
    LET k == Len(g)
    IN  IF k = 0 THEN <<Arg>>
        ELSE IF ~NameOK(g[1]) THEN <<Fail(IF op = "opendir" THEN 0 ELSE Minus1)>>
        ELSE IF k = 1 THEN <<Recv(g[1])>>
        ELSE IF op = "link" /\ k = 2 THEN <<Arg>>
        ELSE IF op = "link" /\ ~NameOK(g[3]) THEN <<Fail(Minus1)>>
        ELSE IF op = "link" /\ k = 3 THEN <<Recv(g[3])>>
        ELSE IF \/ (op = "open" /\ k < 4)
                \/ (op \in {"creat", "chmod", "mkdir", "utime"} /\ k < 3)
                \/ (op = "utime" /\ g[3] # 0 /\ k < 5) THEN <<Arg>>
        ELSE <<Do>>

WordHandler(op, g) == IF Len(g) < WordsOf(op) THEN <<Arg>> ELSE <<Do>>

SizeHandler(op, g) ==
    IF Len(g) < 2 THEN <<Arg>>
    ELSE IF op = "write" /\ g[2] = 0 THEN <<Fail(0)>>
    ELSE IF (op \in {"read", "cdfsread"} /\ g[2] = 0) \/ (op # "gdbpacket" /\ g[2] > MaxSize)
         THEN <<Fail(Minus1)>>
    ELSE IF op = "write" /\ Len(g) = 2 THEN <<Recv(g[2])>>
    ELSE IF op = "gdbpacket" /\ Len(g) = 2 /\ g[1] # 0 THEN <<Recv(Least(g[1], GdbMax))>>
    ELSE <<Do>>

Handler(op, g) == CASE op \in PathOps -> PathHandler(op, g)
                    [] op \in SizeOps -> SizeHandler(op, g)
                    [] OTHER -> WordHandler(op, g)

\* A search of the table that runs one slot too far.
Slots_inclusive == 0 .. MaxDirs

Slots == 0 .. MaxDirs - 1

\* The results an operation can have.  A handle is a slot + 1 (DIRENT_OFFSET
\* in the code); every other result is the number of the request, so that
\* results can be told apart.
Outcomes(op, g, k) ==
    LET free == {i \in Slots : i \notin opendirs}
    IN  CASE op = "opendir" -> {0} \cup {i + 1 : i \in {x \in free : \A y \in free : x <= y}}
          [] op = "closedir" -> {IF g[1] \in 1 .. MaxDirs THEN k ELSE Minus1}
          [] op = "readdir" -> IF g[1] \in 1 .. MaxDirs THEN {0, 1} ELSE {0}
          [] op = "rewinddir" -> {0}
          [] op = "gdbpacket" -> {Minus1} \cup 0 .. Least(g[2], GdbMax)
          [] OTHER -> {k}

\* stat and fstat that send their result before the fields.
Reply_resultFirst(op, g, k, r) ==
    CASE op \in {"stat", "fstat"} -> SendWord(r) \o SendZeros(13)
      [] op = "read" -> <<Send(Units(k, g[2]))>> \o SendWord(r)
      [] op = "cdfsread" -> <<Send(Units(k, g[2]))>>
      [] op = "progexit" -> <<>>
      [] OTHER -> SendWord(r)

\* What the handler then writes.
Reply(op, g, k, r) ==
    CASE op \in {"stat", "fstat"} -> SendZeros(13) \o SendWord(r)
      [] op = "read" -> <<Send(Units(k, g[2]))>> \o SendWord(r)
      [] op = "cdfsread" -> <<Send(Units(k, g[2]))>>
      [] op = "readdir" /\ r = 1 ->
           SendWord(1) \o SendZeros(4) \o SendWord(2) \o <<Send(Units(k, 2))>>
      [] op = "gdbpacket" /\ r \in 1 .. GdbMax -> SendWord(r) \o <<Send(Units(k, r))>>
      [] op = "progexit" -> <<>>
      [] OTHER -> SendWord(r)

\* The data the request was sent with.
Given(op, g, k) == CASE op = "link" -> Units(k, g[1]) \o Units(k, g[3])
                     [] op = "write" -> Units(k, g[2])
                     [] op \in (PathOps \ {"link"}) \cup {"gdbpacket"} -> Units(k, g[1])
                     [] OTHER -> <<>>

-----------------------------------------------------------------------------
(* The host at work.  A read on a dead line fails once the bytes that had    *)
(* arrived are used up, and every later one fails, too: the handler runs to  *)
(* its end on zeros and on whatever its buffers held.                        *)

Host == htodo[1]
ReadFails(k) == lost \/ (link = "dead" /\ Len(c2h) < k)
HostNow(toks, more) == /\ h2c' = IF link = "dead" THEN h2c ELSE h2c \o toks
                       /\ htodo' = more \o Tail(htodo)
\* ser_blread returns 0, or -1.
Reads    == ~lost /\ UNCHANGED lost
Fails(k) == ReadFails(k) /\ lost' = TRUE /\ c2h' = <<>>

\* The command byte.
HostReadsCommand ==
    /\ hop = "none"
    /\ \/ /\ Reads /\ c2h # <<>> /\ c2h[1].t = "byte"
          /\ hop' = c2h[1].v /\ c2h' = Tail(c2h)
       \/ Fails(1) /\ hop' = "lost"
    /\ htodo' = <<>> /\ hgot' = <<>> /\ hbuf' = <<>>
    /\ UNCHANGED <<opendirs, answer, act, guestVars, h2c, link>>

HostContinues ==
    /\ hop \in Ops /\ htodo = <<>>
    /\ htodo' = Handler(hop, hgot)
    /\ UNCHANGED <<hgot, hop, hbuf, lost, opendirs, answer, act, guestVars, c2h, h2c, link>>

HostWrites ==
    /\ Host.i = "write" /\ HostNow(Host.toks, <<>>)
    /\ UNCHANGED <<hgot, hbuf, lost, c2h>>

\* ser_recv_uint: 0 on a dead line.
HostReadsWord ==
    /\ Host.i = "arg" /\ HostNow(<<>>, <<>>)
    /\ \/ /\ Reads /\ c2h # <<>> /\ c2h[1].t = "word"
          /\ hgot' = Append(hgot, c2h[1].v) /\ c2h' = Tail(c2h)
       \/ Fails(1) /\ hgot' = Append(hgot, 0)
    /\ UNCHANGED hbuf

\* The echo is compared for a message only.
HostReadsEcho ==
    /\ Host.i = "echo" /\ HostNow(<<>>, <<>>)
    /\ \/ Reads /\ c2h # <<>> /\ c2h[1].t = "word" /\ c2h' = Tail(c2h)
       \/ Fails(1)
    /\ UNCHANGED <<hgot, hbuf>>

HostReadsAck ==
    /\ Host.i = "ack" /\ HostNow(<<>>, <<>>)
    /\ \/ Reads /\ c2h # <<>> /\ c2h[1] = Byte("G") /\ c2h' = Tail(c2h)
       \/ Fails(1)
    /\ UNCHANGED <<hgot, hbuf>>

Block(type, n, u) == <<Write(<<Byte(type), Word(n)>>), EchoOf(n),
                       Write(<<Body(n, u), Byte("sum")>>), Ack>>

\* ser_send_data that does not advance addr.
HostSends_sameBlock ==
    LET u == Host.units
        k == Least(Len(u), HostBlock)
    IN  /\ Host.i = "send"
        /\ HostNow(<<>>, Block("U", k, First(u, k))
                         \o IF k = Len(u) THEN <<>> ELSE <<Send(First(u, Len(u) - k))>>)
        /\ UNCHANGED <<hgot, hbuf, lost, c2h>>

\* ser_send_data: the next HostBlock units, compressed if that makes them
\* shorter; nothing more once a read has failed.
HostSends ==
    LET u == Host.units
        k == Least(Len(u), HostBlock)
        rest == IF k = Len(u) THEN <<>> ELSE <<Send(Rest(u, k))>>
    IN  /\ Host.i = "send"
        /\ \/ lost /\ HostNow(<<>>, <<>>)
           \/ ~lost /\ HostNow(<<>>, Block("U", k, First(u, k)) \o rest)
           \/ ~lost /\ k > 1 /\ HostNow(<<>>, Block("C", k - 1, First(u, k)) \o rest)
        /\ UNCHANGED <<hgot, hbuf, lost, c2h>>

\* ser_recv_data that goes on with a size of 0 when a read fails.
HostReadsBlock_unchecked ==
    /\ Host.i = "recv"
    /\ \/ /\ Host.n = 0
          /\ HostNow(<<>>, <<>>) /\ hgot' = Append(hgot, Len(hbuf)) /\ UNCHANGED <<c2h, lost>>
       \/ /\ Host.n > 0 /\ Fails(2) /\ UNCHANGED <<h2c, htodo, hgot>>
       \/ /\ Host.n > 0 /\ Reads /\ Len(c2h) >= 2
          /\ c2h[1] \in {Byte("U"), Byte("C")} /\ c2h[2].t = "word"
          /\ HostNow(<<>>, <<RecvBody(Host.n)>>)
          /\ c2h' = SubSeq(c2h, 3, Len(c2h)) /\ UNCHANGED hgot
    /\ UNCHANGED hbuf

\* ser_recv_data: the type and the size of a block, ...
HostReadsBlock ==
    /\ Host.i = "recv"
    /\ \/ /\ \/ Host.n = 0 /\ UNCHANGED <<c2h, lost>>
             \/ Host.n > 0 /\ Fails(2)
          /\ HostNow(<<>>, <<>>) /\ hgot' = Append(hgot, Len(hbuf))
       \/ /\ Host.n > 0 /\ Reads /\ Len(c2h) >= 2
          /\ c2h[1] \in {Byte("U"), Byte("C")} /\ c2h[2].t = "word"
          /\ HostNow(<<>>, <<RecvBody(Host.n)>>)
          /\ c2h' = SubSeq(c2h, 3, Len(c2h)) /\ UNCHANGED hgot
    /\ UNCHANGED hbuf

\* ... then its body and its checksum, which is not looked at.
HostReadsBody ==
    /\ Host.i = "body"
    /\ \/ /\ Reads /\ Len(c2h) >= 2 /\ c2h[1].t = "body"
          /\ HostNow(<<Byte("G")>>, <<Recv((Host.n - Len(c2h[1].units)) % WordMod)>>)
          /\ hbuf' = hbuf \o c2h[1].units /\ c2h' = SubSeq(c2h, 3, Len(c2h))
          /\ UNCHANGED hgot
       \/ /\ Fails(2)
          /\ HostNow(<<>>, <<>>) /\ hgot' = Append(hgot, Len(hbuf))
          /\ UNCHANGED hbuf

HostStep ==
    /\ htodo # <<>>
    /\ \/ HostWrites \/ HostReadsWord \/ HostReadsEcho \/ HostReadsAck
       \/ HostSends \/ HostReadsBlock \/ HostReadsBody
    /\ UNCHANGED <<hop, opendirs, answer, act, guestVars, link>>

Number == Len(answer) + 1     \* of the request being served

Acted(r) == /\ htodo' = Reply(hop, hgot, Number, r) \o <<End>>
            /\ answer' = Append(answer, r)

\* closedir that does not clear the slot.
HostActs_keepsSlot ==
    /\ htodo # <<>> /\ Host.i = "do"
    /\ \E r \in Outcomes(hop, hgot, Number) :
          /\ Acted(r)
          /\ opendirs' = IF hop = "opendir" /\ r # 0 THEN opendirs \cup {r - 1} ELSE opendirs
    /\ act' = [op |-> hop, given |-> Given(hop, hgot, Number), got |-> hbuf, lost |-> lost]
    /\ UNCHANGED <<hgot, hop, hbuf, lost, guestVars, c2h, h2c, link>>

\* The operation itself, on whatever the reads have left in the arguments.
HostActs ==
    /\ htodo # <<>> /\ Host.i = "do"
    /\ \E r \in Outcomes(hop, hgot, Number) :
          /\ Acted(r)
          /\ opendirs' = CASE hop = "opendir" /\ r # 0 -> opendirs \cup {r - 1}
                           [] hop = "closedir" -> opendirs \ {hgot[1] - 1}
                           [] OTHER -> opendirs
    /\ act' = [op |-> hop, given |-> Given(hop, hgot, Number), got |-> hbuf, lost |-> lost]
    /\ UNCHANGED <<hgot, hop, hbuf, lost, guestVars, c2h, h2c, link>>

HostRefuses ==
    /\ htodo # <<>> /\ Host.i = "fail"
    /\ htodo' = SendWord(Host.n) \o <<End>>
    /\ answer' = Append(answer, Host.n)
    /\ UNCHANGED <<hgot, hop, hbuf, lost, opendirs, act, guestVars, c2h, h2c, link>>

\* Back to the command byte, or exit().
HostEnds ==
    /\ htodo # <<>> /\ Host.i = "end"
    /\ htodo' = <<>> /\ hop' = IF hop = "progexit" THEN "exit" ELSE "none"
    /\ UNCHANGED <<hgot, hbuf, lost, opendirs, answer, act, guestVars, c2h, h2c, link>>

-----------------------------------------------------------------------------
\* The line is unplugged; what has arrived can still be read.
LinkDies ==
    /\ MayDie /\ link = "up" /\ link' = "dead"
    /\ \E k \in 0 .. Len(c2h) : c2h' = SubSeq(c2h, 1, k)
    /\ h2c' = <<>>
    /\ UNCHANGED <<guestVars, hostVars>>

NoCall == [op |-> "none", n |-> 0, m |-> 0]
NoAct  == [op |-> "none", given |-> <<>>, got |-> <<>>, lost |-> FALSE]

Init ==
    /\ gtodo = <<>> /\ ggot = <<>> /\ gcall = NoCall /\ gno = 0 /\ gbuf = <<>>
    /\ gwrk = FALSE /\ returned = <<>> /\ dirs = {}
    /\ htodo = <<>> /\ hgot = <<>> /\ hop = "none" /\ hbuf = <<>> /\ lost = FALSE
    /\ opendirs = {} /\ answer = <<>> /\ act = NoAct
    /\ c2h = <<>> /\ h2c = <<>> /\ link = "up"

GuestNext == (\E c \in Calls : GuestBegins(c)) \/ AssignWrkmem
GuestRuns == GuestStep \/ GuestReturns
HostRuns  == HostReadsCommand \/ HostContinues \/ HostStep \/ HostActs \/ HostRefuses \/ HostEnds

Next == GuestNext \/ GuestRuns \/ HostRuns \/ LinkDies

Spec == Init /\ [][Next]_vars

\* Neither program stops by itself; the guest need not make a call and the
\* line need not die.
Fairness == WF_vars(GuestRuns) /\ WF_vars(HostRuns)

FairSpec == Spec /\ Fairness

-----------------------------------------------------------------------------
(* Properties *)

\* The variables have the types of the C objects they stand for.
TypeOK ==
    /\ gcall.op \in Ops \cup {"none", "exited"} /\ gno \in 0 .. MaxCalls
    /\ hop \in Ops \cup {"none", "exit", "lost"} /\ opendirs \subseteq 0 .. MaxDirs - 1
    /\ {gwrk, lost} \subseteq BOOLEAN /\ link \in {"up", "dead"}
    /\ dirs \subseteq 1 .. MaxDirs
    /\ Len(answer) \in 0 .. MaxCalls /\ Len(returned) \in 0 .. gno
    /\ \A i \in 1 .. Len(c2h) : c2h[i].t \in {"byte", "word", "body"}
    /\ \A i \in 1 .. Len(h2c) : h2c[i].t \in {"byte", "word", "body"}

\* Wanted(i): the tokens an instruction reads next.
Wanted(i) == CASE i \in {"arg", "echo"} -> {"word"}
               [] i \in {"ack", "recv"} -> {"byte"}
               [] i = "body" -> {"body"}
               [] OTHER -> {"byte", "word", "body"}

\* Both programs stay in frame: what is read was written as what it is read
\* as, an echo is the word's own, and when no call is under way nothing is
\* left in the stream.  (`desync every reply after it`, serial_syscalls.c.)
InFrame ==
    /\ gtodo # <<>> /\ h2c # <<>> /\ (Guest.i = "recv" => Guest.n > 0)
         => h2c[1].t \in Wanted(Guest.i)
    /\ htodo # <<>> /\ c2h # <<>> /\ (Host.i = "recv" => Host.n > 0)
         => c2h[1].t \in Wanted(Host.i)
    /\ htodo # <<>> /\ c2h # <<>> /\ Host.i = "echo" => c2h[1].v = Host.n
    /\ hop = "none" /\ c2h # <<>> => c2h[1].t = "byte"
    /\ gcall.op = "none" => h2c = <<>>

\* Every call returns the result the host computed for that call.
OwnAnswers == \A k \in 1 .. Len(returned) : returned[k] = answer[k]

\* What the host acts on, and what a read() or readdir() hands to the guest,
\* are the units sent for that call, all of them and in order.
DataIntact ==
    /\ ~act.lost => act.got = act.given
    /\ gcall.op \in {"read", "cdfsread"} /\ gtodo = <<>> => gbuf = Units(gno, gcall.n)

\* Between calls the guest holds a handle for exactly the slots in use.
HandlesAgree ==
    gcall.op = "none" /\ hop = "none" => dirs = {i + 1 : i \in opendirs}

\* The two programs agree at every point of the exchange: on the frame of the
\* stream, on every result and all data and, between calls, on the directory
\* handles.
SerialInv == TypeOK /\ InFrame /\ HandlesAgree /\ OwnAnswers /\ DataIntact

\* Every call comes back, unless the line dies first.
CallsReturn == (gcall.op \in Ops) ~> (gcall.op \notin Ops \/ link = "dead")

\* A dead line unwinds the handler and ends the console loop (ser_link_dead).
ConsoleEnds == (link = "dead") ~> (hop \in {"lost", "exit"})
=============================================================================
