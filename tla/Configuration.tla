--------------------------- MODULE Configuration ---------------------------
(***************************************************************************)
(* config.py: a JSON document and the HM_ environment variables are        *)
(* applied to the defaults, key by key, and the result is validated.       *)
(*                                                                         *)
(* Of the fields, those are here that validate() reads, and instance_id    *)
(* for the ones that it does not.  A number is in hundredths, or one of    *)
(* the three floats that are not finite; JSON as Python reads it has them. *)
(*                                                                         *)
(* A raw value has a form: "number", "bool", "list", "null" or "object" in *)
(* JSON, or a text, which is told by what it reads as: "numeral" if int()  *)
(* reads it, "decimal" if only float() does ("1.5", "nan"), "yes" (true,   *)
(* on), "no", "level", "empty" or any other "text".  The items of a text   *)
(* are its parts between commas.  An exception that is not a ConfigError   *)
(* is a crash, because main() does not catch it.                           *)
(***************************************************************************)
EXTENDS Integers, Sequences, FiniteSets

CONSTANTS
  NaN, Infinity, MinusInfinity,
  FloatMax,      \* the largest finite float
  LongestWait,   \* the longest time join() and sleep() take (threading.TIMEOUT_MAX)
  Files,         \* what may be found at the path
  KeySets,       \* the sets of keys, pairs of section and field, a layer may give
  JsonValues,    \* the values they may have in the document
  TextValues,    \* and in the environment
  MaxOverrides   \* bound: keys given in all

ASSUME NumbersAssumption ==
  /\ NaN \notin Int /\ Infinity \notin Int /\ MinusInfinity \notin Int
  /\ NaN # Infinity /\ NaN # MinusInfinity /\ Infinity # MinusInfinity
  /\ FloatMax \in Nat /\ LongestWait \in Nat

Number == Int \cup {NaN, Infinity, MinusInfinity}

TextForms == {"numeral", "decimal", "yes", "no", "level", "empty", "text"}
JsonForms == {"number", "bool", "list", "null", "object"} \cup TextForms

ASSUME InputsAssumption ==
  /\ Files \subseteq {"object", "not_object", "malformed", "missing", "unreadable"}
  /\ \A keys \in KeySets : keys \subseteq STRING \X STRING
  /\ JsonValues \subseteq [form : JsonForms, n : Number, items : Seq(STRING)]
  /\ TextValues \subseteq [form : TextForms, n : Number, items : Seq(STRING)]
  /\ \A raw \in JsonValues \cup TextValues : raw.form = "numeral" => raw.n \in Int
  /\ MaxOverrides \in Nat

Value(type, n, items) == [type |-> type, n |-> n, items |-> items]
Float(n)    == Value("float", n, << >>)
Integer(n)  == Value("int", n, << >>)
Enabled     == Value("bool", 1, << >>)
Some(s)     == Value("str", s, << >>)
Names(list) == Value("List[str]", 0, list)

(* The data classes.  The fields of ServiceConfig that hold a section come  *)
(* with the annotation of their class, which no branch of _apply_section    *)
(* knows.                                                                   *)
SectionNames == <<"logging", "memory", "storage", "heartbeat">>

Defaults ==
  [ top |->
      [ service_name |-> Some("text"), instance_id |-> Some("text"),
        loop_period_s |-> Float(25), shutdown_grace_s |-> Float(500),
        logging |-> Value("section", 0, << >>), memory |-> Value("section", 0, << >>),
        storage |-> Value("section", 0, << >>), heartbeat |-> Value("section", 0, << >>) ],
    logging |-> [ level |-> Some("level") ],
    memory |->
      [ scan_period_s |-> Float(500), slice_budget_ms |-> Float(150),
        pages_per_slice |-> Integer(64), region_bytes |-> Integer(1048576) ],
    storage |->
      [ enabled |-> Enabled, scan_period_s |-> Float(3000), stall_threshold_s |-> Float(12000),
        mounts |-> Names(<<"/var/log", "/var/lib/cases">>),
        free_warn_fraction |-> Float(20), free_fault_fraction |-> Float(8),
        probe_latency_warn_ms |-> Float(4000), probe_latency_fault_ms |-> Float(25000) ],
    heartbeat |->
      [ enabled |-> Enabled, emit_period_s |-> Float(100), peer_timeout_s |-> Float(300),
        peers |-> Names(<<"generator-control", "mapping-engine", "catheter-io", "case-recorder">>),
        quorum_min_live |-> Integer(3) ] ]

VARIABLES
  file,      \* what is at the path
  document,  \* raw values given in the document, by key
  environ,   \* and in the environment
  stage,     \* how far load() is, or how it ended
  pending,   \* keys of this layer still to be applied
  config     \* the ServiceConfig

vars == <<file, document, environ, stage, pending, config>>

Layers(values, max) ==
  UNION {[keys -> values] : keys \in {k \in KeySets : Cardinality(k) <= max}}

Init ==
  /\ file \in Files
  /\ \E n \in 0 .. MaxOverrides :
       /\ document \in Layers(JsonValues, n)
       /\ environ \in Layers(TextValues, MaxOverrides - n)
  /\ \A key \in DOMAIN document :
       /\ file = "object"
       /\ key[1] \in DOMAIN Defaults
       /\ key[1] # "top" => <<"top", key[1]>> \notin DOMAIN document
  /\ stage = "read"
  /\ pending = {}
  /\ config = Defaults

-----------------------------------------------------------------------------
(* _coerce                                                                  *)

Truncated(n) == IF n >= 0 THEN n \div 100 ELSE -((-n) \div 100)

(* float() of a text: beyond the range it is infinite.                      *)
FloatOf(n) ==
  IF n \notin Int THEN n
  ELSE IF n > FloatMax THEN Infinity ELSE IF n < -FloatMax THEN MinusInfinity ELSE n

IsTrue(raw) ==
  \/ raw.form = "yes"
  \/ raw.form = "bool" /\ raw.n = 100
  \/ raw.form = "numeral" /\ raw.items = <<"1">>

(* Mutant: float() and int() of a value without a number go uncaught.       *)
OnlyValueErrorCaught(type, raw) ==
  CASE type \in {"float", "int"} /\ raw.form \in {"null", "list", "object"} -> "crash"
    [] OTHER -> "none"

(* The exception that _coerce raises, if any.  TypeError and ValueError     *)
(* become a ConfigError.  OverflowError does not: float() raises it for an  *)
(* integer beyond the range, and int() for an infinite float.               *)
CoerceError(type, raw) ==
  CASE type = "bool" ->
         IF \/ raw.form \in {"bool", "yes", "no"}
            \/ raw.form = "numeral" /\ raw.items \in {<<"0">>, <<"1">>}
         THEN "none" ELSE "ConfigError"
    [] type = "float" ->
         IF raw.form = "number" /\ FloatOf(raw.n) # raw.n THEN "crash"
         ELSE IF raw.form \in {"number", "bool", "numeral", "decimal"} THEN "none"
         ELSE "ConfigError"
    [] type = "int" ->
         IF raw.form = "number" /\ raw.n \in {Infinity, MinusInfinity} THEN "crash"
         ELSE IF raw.form \in {"number", "bool", "numeral"} /\ raw.n # NaN THEN "none"
         ELSE "ConfigError"
    [] type = "str" -> "none"
    [] OTHER -> IF raw.form \in {"null", "object", "number", "bool"} THEN "ConfigError" ELSE "none"

(* The value it returns otherwise.                                          *)
Coerced(type, raw) ==
  CASE type = "bool"  -> Value(type, IF IsTrue(raw) THEN 1 ELSE 0, << >>)
    [] type = "float" -> Float(FloatOf(raw.n))
    [] type = "int"   -> Integer(Truncated(raw.n))
    [] type = "str"   -> Some(IF raw.form = "empty" THEN "" ELSE raw.form)
    [] OTHER          -> Names(raw.items)

-----------------------------------------------------------------------------
(* load and from_mapping                                                    *)

(* "unreadable" is a path that is a directory or may not be read, a file    *)
(* that is not UTF-8, a literal too long for int(), or too deep a nesting.  *)
Read ==
  /\ stage = "read"
  /\ stage' = CASE file = "object"     -> "document"
                [] file = "unreadable" -> "crash"
                [] OTHER               -> "ConfigError"
  /\ pending' = DOMAIN document
  /\ UNCHANGED <<file, document, environ, config>>

(* Mutant: a value that cannot be used leaves the default in place.         *)
FallBack(error) == UNCHANGED <<stage, config>>

Reject(error) == stage' = error /\ UNCHANGED config

(* _apply_section for one key: unknown, not to be coerced, or set.  A       *)
(* section that has been replaced by a list has no fields.                  *)
Apply(key, raw) ==
  LET section == key[1]
      field   == key[2]
      type    == Defaults[section][field].type
  IN  /\ IF section # "top" /\ config.top[section].type # "section" THEN Reject("crash")
         ELSE IF field \notin DOMAIN Defaults[section] THEN Reject("ConfigError")
         ELSE IF CoerceError(type, raw) # "none" THEN Reject(CoerceError(type, raw))
         ELSE /\ config' = [config EXCEPT ![section][field] = Coerced(type, raw)]
              /\ UNCHANGED stage
      /\ pending' = pending \ {key}

(* Mutant: the sections are not kept apart from the top level.              *)
NotKeptApart(field) == FALSE

IsSection(field) == field \in {SectionNames[n] : n \in DOMAIN SectionNames}

Rank(key) == IF key[1] = "top" /\ ~IsSection(key[2]) THEN 0
             ELSE CHOOSE n \in DOMAIN SectionNames : SectionNames[n] \in {key[1], key[2]}

(* The top level first, then the sections in their order; a section given   *)
(* as anything but an object is rejected.                                   *)
ApplyDocument ==
  /\ stage = "document"
  /\ \E key \in pending :
       /\ \A other \in pending : Rank(key) <= Rank(other)
       /\ IF key[1] = "top" /\ IsSection(key[2])
          THEN /\ stage' = IF document[key].form = "object" THEN stage ELSE "ConfigError"
               /\ pending' = pending \ {key}
               /\ UNCHANGED config
          ELSE Apply(key, document[key])
  /\ UNCHANGED <<file, document, environ>>

DocumentDone ==
  /\ stage = "document"
  /\ pending = {}
  /\ stage' = "environment"
  /\ pending' = DOMAIN environ
  /\ UNCHANGED <<file, document, environ, config>>

(* _env_overrides keeps the order of the environment, which may be any.     *)
ApplyEnvironment ==
  /\ stage = "environment"
  /\ \E key \in pending :
       IF key[1] \in DOMAIN Defaults THEN Apply(key, environ[key])
       ELSE stage' = "ConfigError" /\ UNCHANGED <<pending, config>>
  /\ UNCHANGED <<file, document, environ>>

-----------------------------------------------------------------------------
(* validate                                                                 *)

(* The comparisons of floats: none with NaN is true.                        *)
AtMost(a, b) ==
  /\ NaN \notin {a, b}
  /\ a = MinusInfinity \/ b = Infinity \/ (a \in Int /\ b \in Int /\ a <= b)

Less(a, b) == NaN \notin {a, b} /\ ~AtMost(b, a)

(* _require_positive and _require_fraction: what they let pass.             *)
Positive(n) == ~AtMost(n, 0)
Fraction(n) == Less(0, n) /\ Less(n, 100)

N(section, field) == config[section][field].n
Count(section, field) == Len(config[section][field].items)

TopValid ==
  /\ Positive(N("top", "loop_period_s"))
  /\ Positive(N("top", "shutdown_grace_s"))
  /\ N("top", "service_name") # ""

MemoryValid ==
  /\ Positive(N("memory", "scan_period_s"))
  /\ Positive(N("memory", "slice_budget_ms"))
  /\ N("memory", "pages_per_slice") > 0
  /\ N("memory", "region_bytes") > 0

StorageValid ==
  /\ Positive(N("storage", "scan_period_s"))
  /\ Positive(N("storage", "stall_threshold_s"))
  /\ Fraction(N("storage", "free_warn_fraction"))
  /\ Fraction(N("storage", "free_fault_fraction"))
  /\ ~AtMost(N("storage", "free_warn_fraction"), N("storage", "free_fault_fraction"))
  /\ ~AtMost(N("storage", "probe_latency_fault_ms"), N("storage", "probe_latency_warn_ms"))
  /\ N("storage", "enabled") = 1 => Count("storage", "mounts") > 0
  /\ ~AtMost(N("storage", "stall_threshold_s"), N("storage", "scan_period_s"))

(* Mutant: the window may equal the period.                                 *)
WindowMayEqualPeriod ==
  ~Less(N("heartbeat", "peer_timeout_s"), N("heartbeat", "emit_period_s"))

WindowExceedsPeriod ==
  ~AtMost(N("heartbeat", "peer_timeout_s"), N("heartbeat", "emit_period_s"))

HeartbeatValid ==
  /\ Positive(N("heartbeat", "emit_period_s"))
  /\ Positive(N("heartbeat", "peer_timeout_s"))
  /\ WindowExceedsPeriod
  /\ N("heartbeat", "enabled") = 1 => Count("heartbeat", "peers") > 0
  /\ N("heartbeat", "quorum_min_live") <= Count("heartbeat", "peers")

(* The rules, in order; a section that is now a list has no attributes.     *)
Verdicts ==
  LET Of(section, valid) == IF config.top[section].type # "section" THEN "crash"
                            ELSE IF valid THEN "accepted" ELSE "ConfigError"
  IN  << IF TopValid THEN "accepted" ELSE "ConfigError",
         Of("memory", MemoryValid), Of("storage", StorageValid),
         Of("heartbeat", HeartbeatValid), Of("logging", N("logging", "level") = "level") >>

Validate ==
  /\ stage = "environment"
  /\ pending = {}
  /\ \E n \in DOMAIN Verdicts :
       /\ n = Len(Verdicts) \/ Verdicts[n] # "accepted"
       /\ \A before \in 1 .. n - 1 : Verdicts[before] = "accepted"
       /\ stage' = Verdicts[n]
  /\ UNCHANGED <<file, document, environ, pending, config>>

Next == Read \/ ApplyDocument \/ DocumentDone \/ ApplyEnvironment \/ Validate

Spec == Init /\ [][Next]_vars

-----------------------------------------------------------------------------
(* Properties                                                               *)

Ended == {"accepted", "ConfigError", "crash"}

(* Every field has a value of its declared type; only an environment        *)
(* variable named like a section puts anything else into the place of one.  *)
TypeOK ==
  /\ stage \in {"read", "document", "environment"} \cup Ended
  /\ pending \subseteq DOMAIN document \cup DOMAIN environ
  /\ \A section \in DOMAIN Defaults : \A field \in DOMAIN Defaults[section] :
       LET type == config[section][field].type
       IN  \/ type = Defaults[section][field].type
           \/ type = "List[str]" /\ <<section, field>> \in DOMAIN environ /\ IsSection(field)
               /\ stage # "document"

NoRepeats(list) == \A i, k \in DOMAIN list : list[i] = list[k] => i = k

(* What validate() does not look for, although the service cannot honour    *)
(* it: a float that is not finite (an infinite period makes poll() raise,   *)
(* and with NaN no peer expires), a wait that join() or sleep() refuses, a  *)
(* peer or a mount listed twice, and a peer that bears the quorum's name.   *)
Overlooked ==
  \/ \E s \in DOMAIN Defaults : \E f \in DOMAIN Defaults[s] :
       Defaults[s][f].type = "float" /\ N(s, f) \notin Int
  \/ \E f \in {"loop_period_s", "shutdown_grace_s"} : ~AtMost(N("top", f), LongestWait)
  \/ ~NoRepeats(config.storage.mounts.items)
  \/ ~NoRepeats(config.heartbeat.peers.items)
  \/ \E i \in DOMAIN config.heartbeat.peers.items : config.heartbeat.peers.items[i] = "quorum"

(* What load() returns meets the assumptions under which the models of the  *)
(* timer, the checks and the loop are checked and proved: periods are       *)
(* positive, the peer window exceeds the heartbeat period, the stall        *)
(* threshold the scan period, the thresholds are in order, the quorum can   *)
(* be reached, and an enabled check has something to check.  validate()     *)
(* promises that of "any value the service cannot honour"; what it          *)
(* overlooks is all that it lets through.                                   *)
AcceptedIsHonoured ==
  LET peers == config.heartbeat.peers.items
  IN
  stage = "accepted" /\ ~Overlooked =>
    /\ \A key \in { <<"top", "loop_period_s">>, <<"top", "shutdown_grace_s">>,
                    <<"memory", "scan_period_s">>, <<"memory", "slice_budget_ms">>,
                    <<"storage", "scan_period_s">>, <<"heartbeat", "emit_period_s">> } :
         0 < N(key[1], key[2])
    /\ N("memory", "pages_per_slice") > 0 /\ N("memory", "region_bytes") > 0
    /\ N("heartbeat", "emit_period_s") < N("heartbeat", "peer_timeout_s")
    /\ N("storage", "scan_period_s") < N("storage", "stall_threshold_s")
    /\ N("storage", "probe_latency_warn_ms") < N("storage", "probe_latency_fault_ms")
    /\ 0 < N("storage", "free_fault_fraction")
    /\ N("storage", "free_fault_fraction") < N("storage", "free_warn_fraction")
    /\ N("storage", "free_warn_fraction") < 100
    /\ N("heartbeat", "quorum_min_live") <= Cardinality({peers[i] : i \in DOMAIN peers})
    /\ N("heartbeat", "enabled") = 1 => peers # << >>
    /\ N("storage", "enabled") = 1 => config.storage.mounts.items # << >>

(* A configuration that is accepted is the one that was given: the          *)
(* environment before the document before the default, key by key, with no  *)
(* given value left out or replaced.                                        *)
LayersInOrder ==
  stage = "accepted" =>
    \A section \in DOMAIN Defaults : \A field \in DOMAIN Defaults[section] :
      LET key  == <<section, field>>
          type == Defaults[section][field].type
      IN  config[section][field] =
            IF key \in DOMAIN environ THEN Coerced(type, environ[key])
            ELSE IF key \in DOMAIN document /\ ~IsSection(field) THEN Coerced(type, document[key])
            ELSE Defaults[section][field]

(* Every configuration that is not accepted is rejected with a ConfigError, *)
(* which main() turns into exit code 2, but for four that crash it: a file  *)
(* that cannot be read, an integer given as an infinite number, a float     *)
(* given as an integer beyond the floats, and an environment variable that  *)
(* bears the name of a section.                                             *)
RejectedAsConfigError ==
  stage = "crash" =>
    \/ file = "unreadable"
    \/ \E key \in DOMAIN document :
         /\ document[key].form = "number" /\ key[2] \in DOMAIN Defaults[key[1]]
         /\ LET type == Defaults[key[1]][key[2]].type
                n    == document[key].n
            IN  \/ type = "int" /\ n \in {Infinity, MinusInfinity}
                \/ type = "float" /\ n \in Int /\ (n > FloatMax \/ n < -FloatMax)
    \/ \E key \in DOMAIN environ : key[1] = "top" /\ IsSection(key[2])
=============================================================================
