-------------------------- MODULE MCConfiguration --------------------------
(* Small sets of keys and of the values given for them.                     *)
EXTENDS Configuration

Raw(form, n, items) == [form |-> form, n |-> n, items |-> items]

Overridable ==
  { <<"top", "loop_period_s">>, <<"top", "service_name">>, <<"top", "memory">>,
    <<"top", "no_such_key">>, <<"logging", "level">>, <<"memory", "scan_period_s">>,
    <<"memory", "pages_per_slice">>, <<"storage", "enabled">>, <<"storage", "mounts">>,
    <<"storage", "free_warn_fraction">>, <<"storage", "free_fault_fraction">>,
    <<"storage", "stall_threshold_s">>, <<"heartbeat", "emit_period_s">>,
    <<"heartbeat", "peer_timeout_s">>, <<"heartbeat", "peers">>,
    <<"heartbeat", "quorum_min_live">>, <<"no_such_section", "key">> }

MCKeySets == {{}} \cup {{a, b} : a, b \in Overridable}

MCJsonValues ==
  { Raw("number", -100, << >>), Raw("number", 0, << >>), Raw("number", 15, << >>),
    Raw("number", 300, << >>), Raw("number", LongestWait + 1, << >>),
    Raw("number", 100 * FloatMax, << >>), Raw("number", NaN, << >>),
    Raw("number", Infinity, << >>), Raw("number", MinusInfinity, << >>),
    Raw("bool", 0, << >>), Raw("null", 0, << >>), Raw("object", 0, << >>),
    Raw("list", 0, << >>), Raw("list", 0, <<"a", "quorum">>),
    Raw("list", 0, <<"a", "b", "a">>), Raw("numeral", 100, <<"1">>), Raw("empty", 0, << >>) }

MCTextValues ==
  { Raw("numeral", -100, <<"-1">>), Raw("numeral", 0, <<"0">>), Raw("numeral", 300, <<"3">>),
    Raw("numeral", 100 * FloatMax, <<"1000000000">>), Raw("decimal", 150, <<"1.5">>),
    Raw("decimal", NaN, <<"nan">>), Raw("no", 0, <<"off">>), Raw("text", 0, <<"a", "b">>),
    Raw("empty", 0, << >>), Raw("level", 0, <<"debug">>) }
=============================================================================
