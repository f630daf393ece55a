-------------------------------- MODULE Rpc --------------------------------
(***************************************************************************)
(* What the guest program is promised of a syscall redirected to the host: *)
(* calls are issued one at a time; the host carries out each of them at    *)
(* most once and in the order in which they were issued (a call may be     *)
(* carried out after the guest was told -1); and a call returns either -1  *)
(* or the result of its own execution, never that of another call.         *)
(*                                                                         *)
(* Calls are numbered from 1.  log lists the calls the host carried out,   *)
(* in order; the result of the k-th execution is modelled by k, so that    *)
(* every execution has a result of its own.                                *)
(***************************************************************************)
EXTENDS Integers, Sequences

CONSTANT MaxCalls

VARIABLES
    issued,     \* number of calls issued so far
    log,        \* the calls the host carried out, in order
    returns     \* returns[c] is what call c returned: -1 or an index into log

rpcVars == <<issued, log, returns>>

RpcInit ==
    /\ issued = 0
    /\ log = <<>>
    /\ returns = <<>>

Issue ==
    /\ issued < MaxCalls
    /\ Len(returns) = issued
    /\ issued' = issued + 1
    /\ UNCHANGED <<log, returns>>

Execute(c) ==
    /\ \A i \in 1 .. Len(log) : log[i] < c
    /\ log' = Append(log, c)
    /\ UNCHANGED <<issued, returns>>

Return(v) ==
    /\ Len(returns) < issued
    /\ v # -1 => log[v] = issued
    /\ returns' = Append(returns, v)
    /\ UNCHANGED <<issued, log>>

RpcNext ==
    \/ Issue
    \/ \E c \in 1 .. issued : Execute(c)
    \/ \E v \in {-1} \cup (1 .. Len(log)) : Return(v)

RpcSpec == RpcInit /\ [][RpcNext]_rpcVars
=============================================================================
