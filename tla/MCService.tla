----------------------------- MODULE MCService -----------------------------
(* One subscriber, which raises, one platform topic and the status.         *)
EXTENDS Service

MCSubs     == <<<<"peer", "heartbeat", "*">>>>
MCStatus   == <<"health", "monitor", "status">>
MCTopics   == {<<"peer", "heartbeat", "catheter-io">>, MCStatus}
=============================================================================
