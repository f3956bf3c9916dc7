---------------------------- MODULE MCMessageBus ----------------------------
(* The heartbeat handler behind a failing subscriber of the same pattern,   *)
(* and two that a beacon must not reach: a wildcard one segment too short   *)
(* and one too long.                                                        *)
EXTENDS BusRefinement

MCTopics == {<<"peer", "heartbeat", "catheter-io">>}

MCSubs == <<<<"peer", "heartbeat", "*">>, <<"peer", "heartbeat", "*">>,
            <<"peer", "*">>, <<"peer", "heartbeat", "catheter-io", "*">>>>
=============================================================================
