------------------------------- MODULE Session -------------------------------
(***************************************************************************)
(* Invocations of kos-tool against one console on the network, from the    *)
(* search for it to the exit code: discover_network_device, the handshake  *)
(* (prepare_comms), updating the loader and finding the new one            *)
(* (auto_update_firmware), loading, executing, serving and resetting       *)
(* (main), against the loader's handlers and a program that runs in the    *)
(* middle of one of them (cmd_execute).                                    *)
(*                                                                         *)
(* A transfer is its LOADBIN and its DONEBIN (NetUpload has the rest) and  *)
(* a system call one exchange (NetSyscall has the rest).  An invocation    *)
(* makes new sockets whenever it opens the link; a datagram for sockets    *)
(* that are closed is lost.  The network keeps datagrams in order, as a    *)
(* LAN does, and may lose them.  The console waits for the answer to a     *)
(* system call as the wired ones do, without a time-out.                   *)
(*                                                                         *)
(* Wrong variants of a definition are named after it; the runs of this     *)
(* project never use them except to see a property fail.                   *)
(***************************************************************************)
EXTENDS Naturals, Sequences, SequencesExt

CONSTANTS
    Jobs,        \* what the tool is asked to do, of AllJobs
    Loaders,     \* the loader the console starts with, of AllLoaders
    MaxRuns,     \* bound: invocations of the tool
    MaxTries,    \* times a command is sent: MAX_CMD_RETRIES, 2 for CAPS
    MaxReopens,  \* attempts of reconnect_after_update, for its 30 s
    MaxCalls,    \* bound: system calls of a program
    MaxLoss,     \* bound: datagrams lost
    MaxLate,     \* bound: answers later than their time-out
    MaxKills,    \* bound: invocations the user interrupts
    Short        \* a program may end while its EXECUTE is still being repeated

AllJobs == {"run", "run_legacy", "run_found", "load", "reset", "update", "update_run", "flash"}
AllLoaders == {"dcload", "old", "new"}

ASSUME SessionAssumption ==
    /\ Jobs \subseteq AllJobs /\ Loaders \subseteq AllLoaders
    /\ MaxRuns \in Nat /\ MaxTries \in Nat \ {0} /\ MaxReopens \in Nat \ {0}
    /\ MaxCalls \in Nat /\ MaxLoss \in Nat /\ MaxLate \in Nat /\ MaxKills \in Nat
    /\ Short \in BOOLEAN

Runs(job) == job \in {"run", "run_legacy", "run_found", "update_run"}
Loads(job) == Runs(job) \/ job = "load"
Updates(job) == job \in {"update", "update_run", "flash"}

\* What is sent to the load area: a program, or a loader that keeps the
\* console's address, asks for one by DHCP, or has the one it was built with.
Images == {"prog", "fw_kept", "fw_dhcp", "fw_built", "fw_file"}
\* Commands the tool sends again until they are answered.
Legs == {"FIND", "VERS", "CAPS", "SBIN", "LBIN", "DBIN", "EXEC"}

VARIABLES
    host,    \* the invocation of the tool: its place and its context
    con,     \* the console
    toCon,   \* datagrams on their way to the console
    toHost,  \* and to the tool
    spent,   \* invocations, sockets, losses, late answers and interruptions so far
    calm     \* history: nothing was lost since this invocation began, and it
             \* found the console idle

vars == <<host, con, toCon, toHost, spent, calm>>

NoTool == [at |-> "off", n |-> 0, job |-> "reset", sock |-> 0, port |-> "v2",
           ver |-> "none", caps |-> FALSE, img |-> "prog", tries |-> 0, left |-> 0,
           again |-> FALSE, updated |-> FALSE, link |-> FALSE, told |-> "none"]

Empty == [n |-> 0, img |-> "prog", whole |-> FALSE, used |-> FALSE]

Init ==
    /\ host = NoTool
    /\ \E l \in Loaders, d \in BOOLEAN :
          con = [at |-> "idle", loader |-> l, dhcp |-> d, disc |-> <<l, d>>, here |-> TRUE,
                 mem |-> Empty, good |-> TRUE, run |-> 0, tool |-> 0,
                 port |-> "legacy", v |-> 0, calls |-> 0]
    /\ toCon = <<>> /\ toHost = <<>>
    /\ spent = [runs |-> 0, socks |-> 0, loss |-> 0, late |-> 0, kills |-> 0]
    /\ calm = TRUE

---------------------------------------------------------------------------
(* The tool: sending.                                                      *)

\* make_encoded_version(): the major version in VERSION.
Version(h) == IF h.job = "run_legacy" THEN 0 ELSE 3

Datagram(h, id) == [id |-> id, sock |-> h.sock, port |-> h.port, n |-> h.n,
                    img |-> h.img, v |-> Version(h)]

\* discover_network_device() asks on both ports, as version 2.
Probe(h, port) == [Datagram(h, "VERS") EXCEPT !.port = port, !.v = 2]

\* send_cmd(): nobody is there to receive while the console starts up or when it
\* has another address.
Sent(h, id) ==
    IF h.link /\ con.here /\ con.at \notin {"booting", "dead"}
    THEN toCon \o IF id = "FIND" THEN <<Probe(h, "legacy"), Probe(h, "v2")>>
                                 ELSE <<Datagram(h, id)>>
    ELSE toCon

\* How often a command is sent: VERSION for 10 s, more often than the others.
Attempts(id) == IF id = "VERS" THEN MaxTries + 1 ELSE MaxTries

\* send_and_wait(), the loops of prepare_comms() and query_capabilities(): the
\* first of several attempts.
Ask(h, id) ==
    /\ host' = [h EXCEPT !.at = id, !.tries = Attempts(id) - 1]
    /\ toCon' = Sent(h, id)

Finish(h, told) ==
    /\ host' = [h EXCEPT !.at = "done", !.link = FALSE, !.told = told]
    /\ UNCHANGED toCon

DropLink_keepsVersion(h) == [h EXCEPT !.link = FALSE]

\* reconnect_drop_link(): close the link and forget what was negotiated.
DropLink(h) == [h EXCEPT !.link = FALSE, !.ver = "none", !.caps = FALSE]

---------------------------------------------------------------------------
(* The tool: from one phase to the next.                                   *)

\* The switch of main().
Command(h) ==
    \/ /\ Loads(h.job) /\ h.link
       /\ Ask([h EXCEPT !.img = "prog"], "LBIN")
    \/ /\ Loads(h.job) /\ ~h.link
       /\ Finish(h, "failed")
    \/ /\ h.job = "reset"
       /\ host' = [h EXCEPT !.at = "done", !.link = FALSE, !.told = "ok"]
       /\ toCon' = Sent(h, "REBT")
    \/ /\ h.job \in {"update", "flash"}
       /\ Finish(h, "ok")

\* auto_update_firmware(): a file is sent as it is; the embedded loader only if it
\* is newer, with the address the console has now if that is known.
AutoUpdate(h) ==
    \/ /\ h.job = "flash"
       /\ Ask([h EXCEPT !.img = "fw_file"], "LBIN")
    \/ /\ h.job # "flash" /\ h.ver \notin {"dcload", "old"}
       /\ Command(h)
    \/ /\ h.job # "flash" /\ h.ver = "old"
       /\ Ask([h EXCEPT !.img = IF h.caps THEN "fw_kept" ELSE "fw_built"], "LBIN")
    \/ /\ h.job # "flash" /\ h.ver = "dcload"
       /\ Ask(h, "SBIN")

\* Return from init(): main() looks for an update, reconnect_after_update() is
\* content with a version string.
Connected(h) ==
    \/ h.again /\ Command([h EXCEPT !.again = FALSE, !.updated = TRUE])
    \/ ~h.again /\ Updates(h.job) /\ AutoUpdate(h)
    \/ ~h.again /\ ~Updates(h.job) /\ Command(h)

\* network_init(): two new sockets; the handshake starts on the one for v2 unless
\* the user asked for the legacy protocol, and is left out if there is a version
\* from an earlier one (installed_adapter is set with it).  A console that is to be
\* found is looked for first, on a socket of its own.
Open(h) ==
    LET o == [h EXCEPT !.sock = spent.socks + 1, !.link = TRUE,
                       !.port = IF h.job = "run_legacy" THEN "legacy" ELSE "v2"]
    IN  /\ spent' = [spent EXCEPT !.socks = @ + 1, !.runs = h.n]
        /\ IF h.ver # "none" THEN Connected(o)
           ELSE Ask(o, IF h.job = "run_found" /\ h.sock = 0 THEN "FIND" ELSE "VERS")

\* The end of perform_update(): EXECUTE is sent once and not waited for.  A loader
\* that asks for an address is not looked for.
SendTrampoline(h) ==
    /\ toCon' = Sent(h, "EXEC")
    /\ host' = IF h.img = "fw_dhcp"
               THEN [DropLink(h) EXCEPT !.at = "updated", !.updated = TRUE]
               ELSE [DropLink(h) EXCEPT !.at = "settle", !.again = TRUE, !.left = MaxReopens]

\* A transfer is complete.
Loaded(h) ==
    \/ h.img # "prog" /\ SendTrampoline(h)
    \/ h.img = "prog" /\ Runs(h.job) /\ Ask(h, "EXEC")
    \/ h.img = "prog" /\ ~Runs(h.job) /\ Finish(h, "ok")

---------------------------------------------------------------------------
(* The tool: steps.                                                        *)

Start(job) ==
    /\ host.at \in {"off", "done"} /\ spent.runs < MaxRuns
    /\ Open([NoTool EXCEPT !.n = spent.runs + 1, !.job = job])
    /\ calm' = /\ con.at = "idle" /\ con.here
               /\ \A i \in DOMAIN toCon : toCon[i].id \notin {"EXEC", "REBT"}
    /\ UNCHANGED <<con, toHost>>

\* reconnect_after_update() waits and opens the link again.
Reopen ==
    /\ host.at = "settle"
    /\ Open([host EXCEPT !.left = @ - 1])
    /\ UNCHANGED <<con, toHost, calm>>

\* After an update that changes the address main() goes on with the link closed.
GoOn ==
    /\ host.at = "updated"
    /\ Command(host)
    /\ UNCHANGED <<con, toHost, spent, calm>>

\* A connected UDP socket takes datagrams from its peer's port only.
Takes(m) == host.link /\ m.to = host.sock /\ (host.at = "FIND" \/ m.from = host.port)

Got(id) == toHost # <<>> /\ Takes(Head(toHost)) /\ Head(toHost).id = id
Consume == toHost' = Tail(toHost) /\ UNCHANGED <<con, calm>>

AckMatches_anyAck(m) == m.id \in {"LBIN", "DBIN", "EXEC"}

\* command_ack_matches(): LOADBIN and EXECUTE by address and size too.
AckMatches(m) ==
    /\ m.id = host.at
    /\ m.id \in {"LBIN", "EXEC"} => m.n = host.n /\ m.img = host.img

\* Somebody answers the search.
Found ==
    /\ host.at = "FIND" /\ Got("VERS") /\ Consume
    /\ Open(host)

RecvVersion ==
    /\ host.at = "VERS" /\ Got("VERS") /\ Consume /\ UNCHANGED spent
    /\ LET h == [host EXCEPT !.ver = Head(toHost).ver, !.caps = FALSE]
       IN  \/ h.ver = "dcload" /\ Connected(h)
           \/ h.ver # "dcload" /\ Ask(h, "CAPS")

RecvCapabilities ==
    /\ host.at = "CAPS" /\ Got("CAPS") /\ Consume /\ UNCHANGED spent
    /\ Connected([host EXCEPT !.caps = TRUE])

\* The probe of a legacy loader's memory finds its address setting.
RecvProbe ==
    /\ host.at = "SBIN" /\ Got("SBIN") /\ Consume /\ UNCHANGED spent
    /\ Ask([host EXCEPT !.img = IF Head(toHost).dhcp THEN "fw_dhcp" ELSE "fw_kept"], "LBIN")

RecvAck ==
    /\ host.at \in {"LBIN", "DBIN", "EXEC"} /\ toHost # <<>> /\ Takes(Head(toHost))
    /\ AckMatches(Head(toHost)) /\ Consume /\ UNCHANGED spent
    /\ \/ host.at = "LBIN" /\ Ask(host, "DBIN")
       \/ host.at = "DBIN" /\ Loaded(host)
       \/ /\ host.at = "EXEC"
          /\ host' = [host EXCEPT !.at = "console"]
          /\ UNCHANGED toCon

\* do_network_console(): answer a system call, or end with the program.
Serve ==
    /\ host.at = "console"
    /\ \/ Got("CALL") /\ toCon' = Sent(host, "RETV") /\ UNCHANGED host
       \/ Got("EXIT") /\ Finish(host, "ok")
    /\ Consume /\ UNCHANGED spent

\* An unexpected answer during the handshake makes the tool go over to its other
\* socket and ask again there.
Switched(h) == [h EXCEPT !.port = IF @ = "v2" THEN "legacy" ELSE "v2"]

Unexpected(m) ==
    CASE host.at \in {"FIND", "VERS"} -> m.id # "VERS"
      [] host.at \in {"CAPS", "SBIN"} -> m.id # host.at
      [] host.at = "console" -> m.id \notin {"CALL", "EXIT"}
      [] OTHER -> ~AckMatches(m)

\* Anything else is read and ignored, or meets a closed socket.
Ignore ==
    /\ toHost # <<>> /\ (Takes(Head(toHost)) => Unexpected(Head(toHost)))
    /\ LET h == IF Takes(Head(toHost)) /\ host.at = "VERS" THEN Switched(host) ELSE host
       IN  host' = h /\ toCon' = IF h = host THEN toCon ELSE Sent(h, "VERS")
    /\ Consume /\ UNCHANGED spent

\* Nothing is coming: what was sent is lost, or the console is busy with a program
\* or starting up.
Quiet == /\ toHost = <<>>
         /\ toCon = <<>> \/ con.at \in {"running", "booting", "dead"}

\* An attempt times out, now and then before its answer comes.
Resend ==
    /\ host.at \in Legs /\ host.tries > 0
    /\ host.again => con.at # "booting"
    /\ \/ Quiet /\ UNCHANGED spent
       \/ /\ ~Quiet /\ spent.late < MaxLate
          /\ spent' = [spent EXCEPT !.late = @ + 1]
    /\ host' = [host EXCEPT !.tries = @ - 1]
    /\ toCon' = Sent(host, host.at)
    /\ UNCHANGED <<con, toHost, calm>>

Exhausted_notHandshake == host.at # "VERS" /\ host.tries = 0

\* All attempts are made.
Exhausted == host.tries = 0 \/ (host.again /\ con.at = "booting")

\* The last attempt of a leg times out.  The 30 s for a new loader are longer than
\* it takes to start.
GiveUp ==
    /\ host.at \in Legs /\ Quiet /\ Exhausted
    /\ \/ /\ host.at \in {"FIND", "VERS"} /\ ~host.again
          /\ Finish(host, "failed")
       \/ /\ host.at = "VERS" /\ host.again /\ host.left > 0
          /\ host' = [host EXCEPT !.at = "settle", !.link = FALSE]
          /\ UNCHANGED toCon
       \/ /\ host.at = "VERS" /\ host.again /\ host.left = 0 /\ con.at # "booting"
          /\ Finish(host, "failed")
       \/ host.at = "CAPS" /\ Connected(host)
       \/ host.at = "SBIN" /\ Command(host)
       \/ host.at \in {"LBIN", "DBIN", "EXEC"} /\ Finish(host, "failed")
    /\ UNCHANGED <<con, toHost, spent, calm>>

\* The user interrupts the tool.
Kill ==
    /\ host.at \notin {"off", "done"} /\ spent.kills < MaxKills
    /\ host' = [host EXCEPT !.at = "done", !.link = FALSE, !.told = "killed"]
    /\ spent' = [spent EXCEPT !.kills = @ + 1]
    /\ UNCHANGED <<con, toCon, toHost, calm>>

---------------------------------------------------------------------------
(* The console.                                                            *)

Reply(m, id, from) ==
    toHost' = Append(toHost, [id |-> id, to |-> m.sock, from |-> from, n |-> m.n,
                              img |-> m.img, ver |-> con.loader, dhcp |-> con.dhcp])

CmdVersion_keepsPort(m) ==
    /\ con' = [con EXCEPT !.v = m.v]
    /\ Reply(m, "VERS", m.port)

\* cmd_version(): whoever asks decides the protocol and the port of system calls.
CmdVersion(m) ==
    LET port == IF m.v < 2 THEN "legacy" ELSE m.port
    IN  /\ con' = [con EXCEPT !.v = m.v, !.port = port]
        /\ Reply(m, "VERS", port)

CmdCapabilities(m) == Reply(m, "CAPS", con.port) /\ UNCHANGED con

CmdSendbin(m) == Reply(m, "SBIN", m.port) /\ UNCHANGED con

CmdLoadbin(m) ==
    /\ con' = [con EXCEPT !.mem = [n |-> m.n, img |-> m.img, whole |-> FALSE, used |-> FALSE]]
    /\ Reply(m, "LBIN", m.port)

\* cmd_donebin(), with the data that came before it.
CmdDonebin(m) ==
    LET mine == con.mem.n = m.n /\ con.mem.img = m.img
    IN  /\ con' = [con EXCEPT !.mem.whole = mine]
        /\ Reply(m, "DBIN", m.port)

CmdExecute_again(m) ==
    /\ con' = [con EXCEPT !.at = IF m.img = "prog" THEN "running" ELSE "booting", !.run = m.n,
                          !.tool = m.sock, !.calls = 0, !.mem.used = TRUE,
                          !.good = con.mem = [n |-> m.n, img |-> m.img,
                                              whole |-> TRUE, used |-> FALSE]]
    /\ Reply(m, "EXEC", m.port)

\* cmd_execute() up to the program's first instruction, or the trampoline, which
\* copies the new loader over this one and starts it.
CmdExecute(m) ==
    LET good == con.mem = [n |-> m.n, img |-> m.img, whole |-> TRUE, used |-> FALSE]
    IN  \/ con.at # "idle" /\ UNCHANGED <<con, toHost>>
        \/ /\ con.at = "idle" /\ m.img = "prog"
           /\ con' = [con EXCEPT !.at = "running", !.run = m.n, !.good = good,
                                 !.tool = m.sock, !.calls = 0, !.mem.used = TRUE]
           /\ Reply(m, "EXEC", m.port)
        \/ /\ con.at = "idle" /\ m.img # "prog"
           /\ con' = [con EXCEPT !.at = IF good THEN "booting" ELSE "dead", !.tool = m.sock]
           /\ Reply(m, "EXEC", m.port)

\* cmd_reboot(): the console starts from its disc.
CmdReboot(m) ==
    /\ con' = [con EXCEPT !.at = "booting", !.mem = Empty, !.loader = con.disc[1],
                          !.dhcp = con.disc[2]]
    /\ UNCHANGED toHost

\* cmd_retval() ends the wait of a running program.
CmdRetval(m) ==
    /\ con' = IF con.at = "waiting" /\ m.sock = con.tool
              THEN [con EXCEPT !.at = "running"] ELSE con
    /\ UNCHANGED toHost

\* process_udp(), in the main loop or in the loop of a system call.  What arrives
\* after the last frame of a loader that is replaced is lost with it.
Receive ==
    /\ con.at \in {"idle", "waiting"} /\ toCon # <<>>
    /\ LET m == Head(toCon)
       IN  CASE m.id = "VERS" -> CmdVersion(m)
             [] m.id = "CAPS" -> CmdCapabilities(m)
             [] m.id = "SBIN" -> CmdSendbin(m)
             [] m.id = "LBIN" -> CmdLoadbin(m)
             [] m.id = "DBIN" -> CmdDonebin(m)
             [] m.id = "EXEC" -> CmdExecute(m)
             [] m.id = "REBT" -> CmdReboot(m)
             [] m.id = "RETV" -> CmdRetval(m)
    /\ toCon' = IF con'.at \in {"booting", "dead"} THEN <<>> ELSE Tail(toCon)
    /\ UNCHANGED <<host, spent, calm>>

\* A loader starts: from the disc, or from the load area.  Where it answers depends
\* on the address in its image.
Boot ==
    /\ con.at = "booting"
    /\ \E here \in BOOLEAN :
          /\ con.mem.img \in {"prog", "fw_kept"} => here
          /\ con' = [con EXCEPT
                       !.at = "idle", !.here = here, !.mem = Empty,
                       !.port = "legacy", !.v = 0, !.tool = 0, !.run = 0,
                       !.dhcp = IF con.mem.img = "prog" THEN @ ELSE con.mem.img = "fw_dhcp",
                       !.loader = CASE con.mem.img = "prog" -> @
                                    [] con.mem.img = "fw_file" -> "file"
                                    [] OTHER -> "new"]
    /\ UNCHANGED <<host, toCon, toHost, spent, calm>>

Request(id) == Append(toHost, [id |-> id, to |-> con.tool, from |-> con.port, n |-> con.run,
                               img |-> "prog", ver |-> con.loader, dhcp |-> con.dhcp])

\* The program makes a system call and waits in bb->loop(0).
Call ==
    /\ con.at = "running" /\ con.calls < MaxCalls
    /\ con' = [con EXCEPT !.at = "waiting", !.calls = @ + 1, !.mem.used = TRUE]
    /\ toHost' = Request("CALL")
    /\ UNCHANGED <<host, toCon, spent, calm>>

\* The program ends and reports it; cmd_execute() sets the adapter up again, which
\* throws away what has arrived.
Exit ==
    /\ con.at = "running"
    /\ con' = [con EXCEPT !.at = "idle", !.mem.used = TRUE]
    /\ toHost' = Request("EXIT")
    /\ \E n \in 0 .. Len(toCon) :
          /\ toCon' = SubSeq(toCon, n + 1, Len(toCon))
          /\ \/ Short
             \/ /\ host.at # "EXEC"
                /\ \A i \in n + 1 .. Len(toCon) : toCon[i].id # "EXEC" \/ toCon[i].n # con.run
    /\ UNCHANGED <<host, spent, calm>>

\* The network loses a datagram.
Lose ==
    /\ spent.loss < MaxLoss
    /\ \/ toCon # <<>> /\ toCon' = Tail(toCon) /\ UNCHANGED toHost
       \/ toHost # <<>> /\ toHost' = Tail(toHost) /\ UNCHANGED toCon
    /\ spent' = [spent EXCEPT !.loss = @ + 1]
    /\ calm' = FALSE
    /\ UNCHANGED <<host, con>>

---------------------------------------------------------------------------

Tool == Reopen \/ GoOn \/ Found \/ RecvVersion \/ RecvCapabilities \/ RecvProbe \/ RecvAck
        \/ Serve \/ Ignore \/ Resend \/ GiveUp
Console == Receive \/ Boot \/ Call \/ Exit

Next == (\E job \in Jobs : Start(job)) \/ Tool \/ Console \/ Kill \/ Lose

Spec == Init /\ [][Next]_vars

\* Both programs run on; nobody is obliged to start the tool or to interrupt it.
FairSpec == Spec /\ WF_vars(Tool) /\ WF_vars(Receive) /\ WF_vars(Boot)

---------------------------------------------------------------------------

\* The shapes of the tool's and the console's state; no retry counter leaves its
\* range.
TypeOK ==
    /\ host.at \in {"off", "done", "settle", "updated", "console"} \cup Legs
    /\ host.img \in Images /\ host.port \in {"v2", "legacy"}
    /\ host.tries \in 0 .. MaxTries /\ host.left \in 0 .. MaxReopens
    /\ con.at \in {"idle", "running", "waiting", "booting", "dead"}
    /\ con.loader \in AllLoaders \cup {"file"} /\ con.mem.img \in Images

\* A program starts, and a loader is replaced, only with its whole image in memory
\* as it was sent, whatever is repeated, lost or left over from an invocation that
\* was interrupted (upload() and perform_update() before execute(), and the
\* running flag of cmd_execute).
RunsWhole == con.good /\ con.at # "dead"

\* A tool that is serving has started the program it loaded, and the console sends
\* that program's system calls to it, in its protocol and from the port it listens
\* to (cmd_version, cmd_execute, command_ack_matches).
ServesOwn ==
    host.at = "console" =>
        /\ con.run = host.n /\ con.tool = host.sock /\ con.port = host.port
        /\ con.v = Version(host)

\* Both of them, at every point of an invocation.
SessionInv == TypeOK /\ RunsWhole /\ ServesOwn

\* An invocation that finds the console idle and loses nothing does what it was
\* asked to: it does not fail, an update that it reports has put the new loader in
\* place, and the console answers where it did before (perform_update,
\* reconnect_after_update).  Left out are a file given by the user and a legacy
\* loader that had its address from DHCP, whose successor may move.
UndisturbedWorks ==
    calm /\ host.at # "off" =>
        \/ host.job = "flash" \/ host.img = "fw_dhcp"
        \/ /\ host.told # "failed" /\ con.here
           /\ host.updated => con.loader = "new"

\* Every invocation comes to its end or to the console loop, whatever is lost
\* (MAX_CMD_RETRIES, NET_HANDSHAKE_TIMEOUT_USEC, RECONNECT_TIMEOUT_USEC).
ToolEnds == host.at \notin {"off", "done", "console"} ~> host.at \in {"done", "console"}

\* "Falling through to success would make a failed flash read as a good one"
\* (reconnect_after_update).  Refuted by TLC (README, section 6): EXECUTE is lost,
\* the old loader answers the handshake.
UpdateHonest == host.updated /\ host.link /\ host.job # "flash" => host.ver = "new"

\* "A firmware self-update always preserves the IP the device is CURRENTLY
\* reachable at" (auto_update_firmware).  Refuted by TLC (README, section 6): the
\* two capability queries are lost.
KeepsAddress == con.loader = "new" /\ ~con.dhcp => con.here

===============================================================================
