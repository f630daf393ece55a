-------------------------- MODULE MCSerialConsole ---------------------------
EXTENDS SerialConsole

Call(op, ns, ms) == {[op |-> op, n |-> n, m |-> m] : n \in ns, m \in ms}

Names == UNION {Call(op, {1, 3}, {0}) : op \in PathOps \ {"link", "utime"}}
         \cup Call("link", {2}, {1, 3}) \cup Call("utime", {1}, {0, 1})
Words == UNION {Call(op, {0}, {0}) : op \in WordOps}
         \cup UNION {Call(op, {1, 2}, {0}) : op \in {"closedir", "readdir", "rewinddir"}}
Sizes == Call("read", {0, 1, 4}, {0}) \cup Call("write", {0, 1, 4}, {0})
         \cup Call("cdfsread", {1, 2}, {0}) \cup Call("gdbpacket", {0, 2}, {0, 3})
Exit  == Call("progexit", {0}, {0})

AllCalls == Names \cup Words \cup Sizes \cup Exit
=============================================================================
