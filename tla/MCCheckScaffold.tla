-------------------------- MODULE MCCheckScaffold --------------------------
(* Period 2, expiry window 3 on a horizon of 8 units: up to three missed    *)
(* slots at one poll, and several slots in a row.  The lists are among those *)
(* that the memory, storage and heartbeat checks return between them.       *)
EXTENDS CheckScaffold

MCDueResults == {<< >>, <<"OK">>, <<"FAULT", "OK">>}

MCOtherResults == {<< >>, <<"DEGRADED">>}
=============================================================================
