-------------------------- MODULE MCRpcScheduler --------------------------
(***************************************************************************)
(* RpcScheduler with an emergency write, an entry with a deadline and two  *)
(* equal background reads, one of them with a deadline; the capacity is    *)
(* half of that, so that outcomes are forgotten and commands come again.   *)
(***************************************************************************)
EXTENDS RpcScheduler

MCRequest(command, payload, priority, expires, durable) ==
    [command |-> command, payload |-> payload, priority |-> priority,
     expires |-> expires, durable |-> durable]

MCRequests ==
    {MCRequest("close", "close", "emergency", Never, TRUE),
     MCRequest("entry", "entry", "execution", 1, TRUE),
     MCRequest("symbols1", "symbols", "background", 1, FALSE),
     MCRequest("symbols2", "symbols", "background", Never, FALSE)}

=============================================================================
