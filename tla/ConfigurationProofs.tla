------------------------ MODULE ConfigurationProofs ------------------------
(***************************************************************************)
(* Proofs about the configuration: every field keeps its declared type,    *)
(* an accepted configuration is the one that was given and is one the      *)
(* checks can honour, and what is not a ConfigError is one of the four     *)
(* crashes, for any sets of keys and any values given for them.            *)
(***************************************************************************)
EXTENDS Configuration, FiniteSetTheorems, TLAPS

IsList(q) == \E S : q \in Seq(S)

(* The values that a field of a declared type can hold.                     *)
OfType(v, type) ==
  /\ v.type = type \/ (type = "section" /\ v.type = "List[str]")
  /\ type = "float" => v.n \in Number
  /\ IsList(v.items)

FieldTypes == {"section", "float", "int", "bool", "str", "List[str]"}

TypeOf(s, f) == Defaults[s][f].type

LEMMA DefaultSections ==
  /\ DOMAIN Defaults = {"top", "logging", "memory", "storage", "heartbeat"}
  /\ \A field : IsSection(field) <=> field \in {"logging", "memory", "storage", "heartbeat"}
<1>1. DOMAIN Defaults = {"top", "logging", "memory", "storage", "heartbeat"}
  BY SMT DEF Defaults
<1>2. DOMAIN SectionNames = 1 .. 4
  BY DEF SectionNames
<1>3. /\ SectionNames[1] = "logging" /\ SectionNames[2] = "memory"
      /\ SectionNames[3] = "storage" /\ SectionNames[4] = "heartbeat"
  BY DEF SectionNames
<1>4. 1 .. 4 = {1, 2, 3, 4}
  OBVIOUS
<1>5. QED BY <1>1, <1>2, <1>3, <1>4 DEF IsSection

LEMMA DefaultFields ==
  /\ DOMAIN Defaults["top"] =
       {"service_name", "instance_id", "loop_period_s", "shutdown_grace_s",
        "logging", "memory", "storage", "heartbeat"}
  /\ DOMAIN Defaults["logging"] = {"level"}
  /\ DOMAIN Defaults["memory"] =
       {"scan_period_s", "slice_budget_ms", "pages_per_slice", "region_bytes"}
  /\ DOMAIN Defaults["storage"] =
       {"enabled", "scan_period_s", "stall_threshold_s", "mounts", "free_warn_fraction",
        "free_fault_fraction", "probe_latency_warn_ms", "probe_latency_fault_ms"}
  /\ DOMAIN Defaults["heartbeat"] =
       {"enabled", "emit_period_s", "peer_timeout_s", "peers", "quorum_min_live"}
BY SMT DEF Defaults

Typed(v) == v.type \in FieldTypes /\ OfType(v, v.type)

LEMMA Lists ==
  /\ IsList(<< >>)
  /\ \A a, b : IsList(<<a, b>>)
  /\ \A a, b, c, d : IsList(<<a, b, c, d>>)
<1>1. << >> \in Seq({})
  OBVIOUS
<1>2. ASSUME NEW a, NEW b PROVE <<a, b>> \in Seq({a, b})
  OBVIOUS
<1>3. ASSUME NEW a, NEW b, NEW c, NEW d PROVE <<a, b, c, d>> \in Seq({a, b, c, d})
  OBVIOUS
<1>4. QED BY <1>1, <1>2, <1>3 DEF IsList

(* What the constructors of values make.                                    *)
LEMMA ValuesMade ==
  /\ \A n \in Number : Float(n).type = "float" /\ OfType(Float(n), "float")
  /\ \A n : Integer(n).type = "int" /\ OfType(Integer(n), "int")
  /\ \A n : Value("bool", n, << >>).type = "bool" /\ OfType(Value("bool", n, << >>), "bool")
  /\ \A n : Some(n).type = "str" /\ OfType(Some(n), "str")
  /\ \A l : IsList(l) => /\ Names(l).type = "List[str]"
                         /\ OfType(Names(l), "List[str]") /\ OfType(Names(l), "section")
  /\ Value("section", 0, << >>).type = "section" /\ OfType(Value("section", 0, << >>), "section")
BY Lists DEF OfType, Float, Integer, Some, Names, Value

LEMMA DefaultsMade ==
  /\ \A n \in Int : Typed(Float(n)) /\ Float(n).type # "section"
  /\ \A n : Typed(Integer(n)) /\ Integer(n).type # "section"
  /\ Typed(Enabled) /\ Enabled.type # "section"
  /\ \A n : Typed(Some(n)) /\ Some(n).type # "section"
  /\ \A l : IsList(l) => Typed(Names(l)) /\ Names(l).type # "section"
BY ValuesMade DEF Typed, FieldTypes, Enabled, Number

LEMMA DefaultValuesTop ==
  \A f \in DOMAIN Defaults["top"] :
    Typed(Defaults["top"][f]) /\ (TypeOf("top", f) = "section" <=> IsSection(f))
<1>1. /\ Defaults["top"]["service_name"] = Some("text")
      /\ Defaults["top"]["instance_id"] = Some("text")
      /\ Defaults["top"]["loop_period_s"] = Float(25)
      /\ Defaults["top"]["shutdown_grace_s"] = Float(500)
      /\ \A f \in {"logging", "memory", "storage", "heartbeat"} :
           Defaults["top"][f] = Value("section", 0, << >>)
  BY SMT DEF Defaults
<1>2. ASSUME NEW f \in {"logging", "memory", "storage", "heartbeat"}
      PROVE  Typed(Defaults["top"][f]) /\ TypeOf("top", f) = "section"
  BY <1>1, ValuesMade DEF Typed, TypeOf, FieldTypes
<1>3. ASSUME NEW f \in {"service_name", "instance_id", "loop_period_s", "shutdown_grace_s"}
      PROVE  Typed(Defaults["top"][f]) /\ TypeOf("top", f) # "section"
  BY <1>1, DefaultsMade, SMT DEF TypeOf
<1>4. QED BY <1>2, <1>3, DefaultFields, DefaultSections

LEMMA DefaultValuesBelow ==
  \A s \in {"logging", "memory", "storage", "heartbeat"} : \A f \in DOMAIN Defaults[s] :
    Typed(Defaults[s][f]) /\ TypeOf(s, f) # "section" /\ ~IsSection(f)
<1>1. \A f \in DOMAIN Defaults["logging"] :
        Typed(Defaults["logging"][f]) /\ TypeOf("logging", f) # "section"
  <2>1. Defaults["logging"]["level"] = Some("level")
    BY SMT DEF Defaults
  <2>2. QED BY <2>1, DefaultFields, DefaultsMade DEF TypeOf
<1>2. \A f \in DOMAIN Defaults["memory"] :
        Typed(Defaults["memory"][f]) /\ TypeOf("memory", f) # "section"
  <2>1. /\ \A f \in {"scan_period_s", "slice_budget_ms"} :
             \E n \in Int : Defaults["memory"][f] = Float(n)
        /\ \A f \in {"pages_per_slice", "region_bytes"} :
             \E n \in Int : Defaults["memory"][f] = Integer(n)
    BY SMT DEF Defaults
  <2>2. QED BY <2>1, DefaultFields, DefaultsMade, SMT DEF TypeOf
<1>3. \A f \in DOMAIN Defaults["storage"] :
        Typed(Defaults["storage"][f]) /\ TypeOf("storage", f) # "section"
  <2>1. /\ Defaults["storage"]["enabled"] = Enabled
        /\ Defaults["storage"]["mounts"] = Names(<<"/var/log", "/var/lib/cases">>)
        /\ \A f \in {"scan_period_s", "stall_threshold_s", "free_warn_fraction",
                     "free_fault_fraction", "probe_latency_warn_ms", "probe_latency_fault_ms"} :
             \E n \in Int : Defaults["storage"][f] = Float(n)
    BY SMT DEF Defaults
  <2>2. IsList(<<"/var/log", "/var/lib/cases">>)
    BY Lists
  <2>3. QED BY <2>1, <2>2, DefaultFields, DefaultsMade, SMT DEF TypeOf
<1>4. \A f \in DOMAIN Defaults["heartbeat"] :
        Typed(Defaults["heartbeat"][f]) /\ TypeOf("heartbeat", f) # "section"
  <2> DEFINE four == <<"generator-control", "mapping-engine", "catheter-io", "case-recorder">>
  <2>1. /\ Defaults["heartbeat"]["enabled"] = Enabled
        /\ Defaults["heartbeat"]["peers"] = Names(four)
        /\ Defaults["heartbeat"]["quorum_min_live"] = Integer(3)
        /\ \A f \in {"emit_period_s", "peer_timeout_s"} :
             \E n \in Int : Defaults["heartbeat"][f] = Float(n)
    BY SMT DEF Defaults
  <2>2. IsList(four)
    BY Lists
  <2> HIDE DEF four
  <2>3. QED BY <2>1, <2>2, DefaultFields, DefaultsMade, SMT DEF TypeOf
<1>5. \A s \in {"logging", "memory", "storage", "heartbeat"} : \A f \in DOMAIN Defaults[s] :
        ~IsSection(f)
  BY DefaultFields, DefaultSections
<1>6. QED BY <1>1, <1>2, <1>3, <1>4, <1>5

LEMMA DefaultValues ==
  \A s \in DOMAIN Defaults : \A f \in DOMAIN Defaults[s] :
    /\ TypeOf(s, f) \in FieldTypes
    /\ OfType(Defaults[s][f], TypeOf(s, f))
    /\ TypeOf(s, f) = "section" <=> IsSection(f)
    /\ IsSection(f) => s = "top"
BY DefaultSections, DefaultValuesTop, DefaultValuesBelow DEF Typed, TypeOf

-----------------------------------------------------------------------------
(* _coerce                                                                  *)

RawValue == [form : JsonForms, n : Number, items : Seq(STRING)]

(* What it returns is of the declared type; a list takes a section's place. *)
LEMMA CoercedOfType ==
  ASSUME NEW type \in FieldTypes, NEW raw \in RawValue
  PROVE  /\ OfType(Coerced(type, raw), type)
         /\ Coerced(type, raw).type = IF type = "section" THEN "List[str]" ELSE type
<1>1. raw.n \in Number /\ IsList(raw.items)
  BY DEF RawValue, IsList
<1>2. FloatOf(raw.n) \in Number
  BY <1>1 DEF FloatOf, Number
<1>3. CASE type = "bool"
  BY <1>3, ValuesMade DEF Coerced
<1>4. CASE type = "float"
  BY <1>2, <1>4, ValuesMade DEF Coerced
<1>5. CASE type = "int"
  BY <1>5, ValuesMade DEF Coerced
<1>6. CASE type = "str"
  BY <1>6, ValuesMade DEF Coerced
<1>7. CASE type \in {"section", "List[str]"}
  BY <1>1, <1>7, ValuesMade DEF Coerced
<1>8. QED BY <1>3, <1>4, <1>5, <1>6, <1>7 DEF FieldTypes

(* int() of an infinite number, and float() of an integer beyond the floats *)
Overflows(type, raw) ==
  /\ raw.form = "number"
  /\ \/ type = "int" /\ raw.n \in {Infinity, MinusInfinity}
     \/ type = "float" /\ raw.n \in Int /\ (raw.n > FloatMax \/ raw.n < -FloatMax)

(* These two are all that crashes it.                                       *)
LEMMA CoerceErrors ==
  ASSUME NEW type, NEW raw
  PROVE  /\ CoerceError(type, raw) \in {"none", "ConfigError", "crash"}
         /\ CoerceError(type, raw) = "crash" =>
              Overflows(type, raw)
<1>1. FloatOf(raw.n) # raw.n => raw.n \in Int /\ (raw.n > FloatMax \/ raw.n < -FloatMax)
  BY Zenon DEF FloatOf
<1>2. QED BY <1>1, SMT DEF CoerceError, Overflows

-----------------------------------------------------------------------------
(* The inductive invariant: where the value of every field is from, at each *)
(* stage.  The document is applied before the environment, a key at a time, *)
(* so a field has what its layer gave unless its key is still pending.      *)

InputsInv ==
  /\ \E keys \in KeySets : document \in [keys -> JsonValues]
  /\ \E keys \in KeySets : environ \in [keys -> TextValues]
  /\ \A key \in DOMAIN document : key[1] \in DOMAIN Defaults

ShapeInv ==
  config = [s \in DOMAIN Defaults |-> [f \in DOMAIN Defaults[s] |-> config[s][f]]]

InDocument(s, f) == <<s, f>> \in DOMAIN document /\ ~IsSection(f)

FromDocument(s, f, left) ==
  IF InDocument(s, f) /\ <<s, f>> \notin left THEN Coerced(TypeOf(s, f), document[<<s, f>>])
  ELSE Defaults[s][f]

FromBoth(s, f, left) ==
  IF <<s, f>> \in DOMAIN environ \ left THEN Coerced(TypeOf(s, f), environ[<<s, f>>])
  ELSE FromDocument(s, f, {})

(* Wherever load() ended, a value is from one of the layers begun.          *)
FromSomeLayer(s, f) ==
  \/ config[s][f] = Defaults[s][f]
  \/ InDocument(s, f) /\ config[s][f] = Coerced(TypeOf(s, f), document[<<s, f>>])
  \/ /\ stage \notin {"read", "document"} /\ <<s, f>> \in DOMAIN environ
     /\ config[s][f] = Coerced(TypeOf(s, f), environ[<<s, f>>])

LayersInv ==
  \A s \in DOMAIN Defaults : \A f \in DOMAIN Defaults[s] :
    /\ stage = "read" => config[s][f] = Defaults[s][f]
    /\ stage = "document" => config[s][f] = FromDocument(s, f, pending)
    /\ stage = "environment" => config[s][f] = FromBoth(s, f, pending)
    /\ stage = "accepted" => config[s][f] = FromBoth(s, f, {})
    /\ FromSomeLayer(s, f)

PendingInv ==
  /\ stage \in {"read", "document", "environment"} \cup Ended
  /\ pending \subseteq DOMAIN document \cup DOMAIN environ
  /\ stage = "document" => pending \subseteq DOMAIN document
  /\ stage = "environment" => pending \subseteq DOMAIN environ

LoadInv == InputsInv /\ ShapeInv /\ LayersInv /\ PendingInv

(* The keys and values of the two layers.                                   *)
LEMMA InputTypes ==
  ASSUME InputsInv
  PROVE  /\ \A key \in DOMAIN document :
              /\ key = <<key[1], key[2]>> /\ key[1] \in DOMAIN Defaults
              /\ document[key] \in RawValue
         /\ \A key \in DOMAIN environ :
              /\ key = <<key[1], key[2]>>
              /\ environ[key] \in RawValue /\ environ[key].form # "number"
<1>1. \A keys \in KeySets : \A key \in keys : key = <<key[1], key[2]>>
  BY InputsAssumption
<1>2. /\ \A raw \in JsonValues : raw \in RawValue
      /\ \A raw \in TextValues : raw \in RawValue /\ raw.form # "number"
  BY InputsAssumption DEF RawValue, JsonForms, TextForms
<1>3. QED BY <1>1, <1>2 DEF InputsInv

LEMMA LoadInvInit == Init => LoadInv
<1> SUFFICES ASSUME Init PROVE LoadInv
  OBVIOUS
<1>1. InputsInv
  <2>1. \A values, max : \A layer \in Layers(values, max) :
          \E keys \in KeySets : layer \in [keys -> values]
    BY DEF Layers
  <2>2. QED BY <2>1 DEF Init, InputsInv
<1>2. config = Defaults /\ stage = "read" /\ pending = {}
  BY DEF Init
<1>3. Defaults = [s \in DOMAIN Defaults |-> [f \in DOMAIN Defaults[s] |-> Defaults[s][f]]]
  BY SMT DEF Defaults
<1>4. ShapeInv
  BY <1>2, <1>3 DEF ShapeInv
<1>5. LayersInv
  BY <1>2 DEF LayersInv, FromSomeLayer
<1>6. QED BY <1>1, <1>2, <1>4, <1>5 DEF LoadInv, PendingInv

(* _apply_section for one key: rejected, or set and nothing else.           *)
LEMMA ApplyOneKey ==
  ASSUME ShapeInv, NEW key, NEW raw, key = <<key[1], key[2]>>, key[1] \in DOMAIN Defaults,
         Apply(key, raw)
  PROVE  /\ pending' = pending \ {key}
         /\ \/ /\ stage' \in {"ConfigError", "crash"} /\ config' = config
               /\ stage' = "crash" =>
                    \/ key[1] # "top" /\ config.top[key[1]].type # "section"
                    \/ /\ key[2] \in DOMAIN Defaults[key[1]]
                       /\ Overflows(TypeOf(key[1], key[2]), raw)
            \/ /\ stage' = stage /\ key[2] \in DOMAIN Defaults[key[1]]
               /\ ShapeInv'
               /\ \A s \in DOMAIN Defaults : \A f \in DOMAIN Defaults[s] :
                    config'[s][f] = IF <<s, f>> = key THEN Coerced(TypeOf(s, f), raw)
                                    ELSE config[s][f]
<1>1. pending' = pending \ {key}
  BY DEF Apply
<1>2. CASE key[1] # "top" /\ config.top[key[1]].type # "section"
  BY <1>1, <1>2 DEF Apply, Reject
<1>3. CASE /\ ~(key[1] # "top" /\ config.top[key[1]].type # "section")
           /\ key[2] \notin DOMAIN Defaults[key[1]]
  BY <1>1, <1>3 DEF Apply, Reject
<1>4. CASE /\ ~(key[1] # "top" /\ config.top[key[1]].type # "section")
           /\ key[2] \in DOMAIN Defaults[key[1]]
           /\ CoerceError(TypeOf(key[1], key[2]), raw) # "none"
  <2>1. stage' = CoerceError(TypeOf(key[1], key[2]), raw) /\ config' = config
    BY <1>4 DEF Apply, Reject, TypeOf
  <2>2. QED BY <1>1, <1>4, <2>1, CoerceErrors
<1>5. CASE /\ ~(key[1] # "top" /\ config.top[key[1]].type # "section")
           /\ key[2] \in DOMAIN Defaults[key[1]]
           /\ CoerceError(TypeOf(key[1], key[2]), raw) = "none"
  <2>1. /\ stage' = stage
        /\ config' = [config EXCEPT ![key[1]][key[2]] = Coerced(TypeOf(key[1], key[2]), raw)]
    BY <1>5 DEF Apply, TypeOf
  <2>2. /\ DOMAIN config = DOMAIN Defaults
        /\ \A s \in DOMAIN Defaults : DOMAIN config[s] = DOMAIN Defaults[s]
    BY DEF ShapeInv
  <2>3. \A s \in DOMAIN Defaults : \A f \in DOMAIN Defaults[s] :
          config'[s][f] = IF <<s, f>> = key THEN Coerced(TypeOf(s, f), raw) ELSE config[s][f]
    BY <1>5, <2>1, <2>2
  <2>4. ShapeInv'
    BY <2>1, <2>2 DEF ShapeInv
  <2>5. QED BY <1>1, <1>5, <2>1, <2>3, <2>4
<1>6. QED BY <1>2, <1>3, <1>4, <1>5

(* validate: the first rule that is broken decides.                         *)
Ruling(section, valid) ==
  IF config.top[section].type # "section" THEN "crash"
  ELSE IF valid THEN "accepted" ELSE "ConfigError"

LEMMA VerdictsAre ==
  /\ DOMAIN Verdicts = {1, 2, 3, 4, 5} /\ Len(Verdicts) = 5
  /\ Verdicts[1] = IF TopValid THEN "accepted" ELSE "ConfigError"
  /\ Verdicts[2] = Ruling("memory", MemoryValid)
  /\ Verdicts[3] = Ruling("storage", StorageValid)
  /\ Verdicts[4] = Ruling("heartbeat", HeartbeatValid)
  /\ Verdicts[5] = Ruling("logging", N("logging", "level") = "level")
<1> DEFINE a == IF TopValid THEN "accepted" ELSE "ConfigError"
           m == Ruling("memory", MemoryValid)
           s == Ruling("storage", StorageValid)
           h == Ruling("heartbeat", HeartbeatValid)
           l == Ruling("logging", N("logging", "level") = "level")
<1>1. Verdicts = <<a, m, s, h, l>>
  BY DEF Verdicts, Ruling
<1> HIDE DEF a, m, s, h, l
<1>2. /\ Len(<<a, m, s, h, l>>) = 5 /\ DOMAIN <<a, m, s, h, l>> = 1 .. 5
      /\ <<a, m, s, h, l>>[1] = a /\ <<a, m, s, h, l>>[2] = m /\ <<a, m, s, h, l>>[3] = s
      /\ <<a, m, s, h, l>>[4] = h /\ <<a, m, s, h, l>>[5] = l
  OBVIOUS
<1>3. 1 .. 5 = {1, 2, 3, 4, 5}
  OBVIOUS
<1>4. QED BY <1>1, <1>2, <1>3 DEF a, m, s, h, l

LEMMA Verdict ==
  ASSUME Validate
  PROVE  /\ stage' \in Ended
         /\ stage' = "accepted" => TopValid /\ MemoryValid /\ StorageValid /\ HeartbeatValid
         /\ stage' = "crash" =>
              \E section \in {"memory", "storage", "heartbeat", "logging"} :
                config.top[section].type # "section"
<1>1. PICK n \in DOMAIN Verdicts :
        /\ n = Len(Verdicts) \/ Verdicts[n] # "accepted"
        /\ \A before \in 1 .. n - 1 : Verdicts[before] = "accepted"
        /\ stage' = Verdicts[n]
  BY DEF Validate
<1>2. stage' \in Ended
  BY <1>1, VerdictsAre DEF Ended, Ruling
<1>3. ASSUME stage' = "accepted"
      PROVE  TopValid /\ MemoryValid /\ StorageValid /\ HeartbeatValid
  <2>1. n = 5
    BY <1>1, <1>3, VerdictsAre
  <2>2. \A k \in {1, 2, 3, 4} : Verdicts[k] = "accepted"
    BY <1>1, <2>1
  <2>3. QED BY <2>2, VerdictsAre DEF Ruling
<1>4. ASSUME stage' = "crash"
      PROVE  \E section \in {"memory", "storage", "heartbeat", "logging"} :
               config.top[section].type # "section"
  <2>1. Verdicts[n] = "crash" /\ n \in {1, 2, 3, 4, 5}
    BY <1>1, <1>4, VerdictsAre
  <2>2. n # 1
    BY <2>1, VerdictsAre
  <2>3. QED BY <2>1, <2>2, VerdictsAre DEF Ruling
<1>5. QED BY <1>2, <1>3, <1>4

LEMMA LoadInvDocument == LoadInv /\ ApplyDocument => LoadInv'
<1> SUFFICES ASSUME LoadInv, ApplyDocument PROVE LoadInv'
  OBVIOUS
<1>0. /\ stage = "document" /\ UNCHANGED <<file, document, environ>>
      /\ InputsInv /\ ShapeInv /\ LayersInv /\ PendingInv /\ pending \subseteq DOMAIN document
  BY DEF ApplyDocument, LoadInv, PendingInv
<1>1. InputsInv'
  BY <1>0 DEF InputsInv
<1>2. PICK key \in pending :
        IF key[1] = "top" /\ IsSection(key[2])
        THEN /\ stage' = IF document[key].form = "object" THEN stage ELSE "ConfigError"
             /\ pending' = pending \ {key}
             /\ UNCHANGED config
        ELSE Apply(key, document[key])
  BY DEF ApplyDocument
<1>3. key \in DOMAIN document /\ key = <<key[1], key[2]>> /\ key[1] \in DOMAIN Defaults
  BY <1>0, InputTypes
<1>4. pending' = pending \ {key} /\ stage' \in {"document", "ConfigError", "crash"}
  BY <1>0, <1>2, <1>3, ApplyOneKey
<1>5. PendingInv'
  BY <1>0, <1>4 DEF PendingInv, Ended
<1>6. CASE config' = config /\ (stage' # stage \/ (key[1] = "top" /\ IsSection(key[2])))
  <2>1. ShapeInv'
    BY <1>0, <1>6 DEF ShapeInv
  <2>2. \A s \in DOMAIN Defaults : \A f \in DOMAIN Defaults[s] :
          /\ FromSomeLayer(s, f) => FromSomeLayer(s, f)'
          /\ stage' = "document" => FromDocument(s, f, pending)' = FromDocument(s, f, pending)
    BY <1>0, <1>3, <1>4, <1>6 DEF FromSomeLayer, FromDocument, InDocument
  <2>3. LayersInv'
    BY <1>0, <1>4, <1>6, <2>2 DEF LayersInv
  <2>4. QED BY <1>1, <1>5, <2>1, <2>3 DEF LoadInv
<1>7. CASE /\ stage' = stage /\ key[2] \in DOMAIN Defaults[key[1]]
           /\ ~(key[1] = "top" /\ IsSection(key[2]))
           /\ ShapeInv'
           /\ \A s \in DOMAIN Defaults : \A f \in DOMAIN Defaults[s] :
                config'[s][f] = IF <<s, f>> = key THEN Coerced(TypeOf(s, f), document[key])
                                ELSE config[s][f]
  <2>1. ~IsSection(key[2])
    BY <1>3, <1>7, DefaultValues
  <2>2. ASSUME NEW s \in DOMAIN Defaults, NEW f \in DOMAIN Defaults[s]
        PROVE  config'[s][f] = FromDocument(s, f, pending)' /\ FromSomeLayer(s, f)'
    <3>1. CASE <<s, f>> = key
      <4>1. InDocument(s, f)' /\ <<s, f>> \notin pending'
        BY <1>0, <1>3, <1>4, <2>1, <3>1 DEF InDocument
      <4>2. config'[s][f] = Coerced(TypeOf(s, f), document'[<<s, f>>])
        BY <1>0, <1>7, <3>1
      <4>3. QED BY <4>1, <4>2 DEF FromDocument, FromSomeLayer
    <3>2. CASE <<s, f>> # key
      <4>1. config'[s][f] = config[s][f]
        BY <1>7, <3>2
      <4>2. <<s, f>> \in pending' <=> <<s, f>> \in pending
        BY <1>4, <3>2
      <4>3. InDocument(s, f)' = InDocument(s, f)
        BY <1>0 DEF InDocument
      <4>4. config[s][f] = FromDocument(s, f, pending) /\ FromSomeLayer(s, f)
        BY <1>0 DEF LayersInv
      <4>5. QED BY <1>0, <1>7, <4>1, <4>2, <4>3, <4>4 DEF FromDocument, FromSomeLayer
    <3>3. QED BY <3>1, <3>2
  <2>3. LayersInv'
    BY <1>0, <1>7, <2>2 DEF LayersInv
  <2>4. QED BY <1>1, <1>5, <1>7, <2>3 DEF LoadInv
<1>8. CASE key[1] = "top" /\ IsSection(key[2])
  BY <1>2, <1>6, <1>8
<1>9. CASE ~(key[1] = "top" /\ IsSection(key[2]))
  <2>1. Apply(key, document[key])
    BY <1>2, <1>9
  <2>2. QED BY <1>0, <1>3, <1>6, <1>7, <1>9, <2>1, ApplyOneKey
<1>10. QED BY <1>8, <1>9

LEMMA LoadInvEnvironment == LoadInv /\ ApplyEnvironment => LoadInv'
<1> SUFFICES ASSUME LoadInv, ApplyEnvironment PROVE LoadInv'
  OBVIOUS
<1>0. /\ stage = "environment" /\ UNCHANGED <<file, document, environ>>
      /\ InputsInv /\ ShapeInv /\ LayersInv /\ PendingInv /\ pending \subseteq DOMAIN environ
  BY DEF ApplyEnvironment, LoadInv, PendingInv
<1>1. InputsInv'
  BY <1>0 DEF InputsInv
<1>2. PICK key \in pending :
        IF key[1] \in DOMAIN Defaults THEN Apply(key, environ[key])
        ELSE stage' = "ConfigError" /\ UNCHANGED <<pending, config>>
  BY DEF ApplyEnvironment
<1>3. key \in DOMAIN environ /\ key = <<key[1], key[2]>>
  BY <1>0, InputTypes
<1>4. \/ pending' = pending \ {key} /\ stage' \in {"environment", "ConfigError", "crash"}
      \/ pending' = pending /\ stage' = "ConfigError"
  BY <1>0, <1>2, <1>3, ApplyOneKey
<1>5. PendingInv'
  BY <1>0, <1>4 DEF PendingInv, Ended
<1>6. CASE config' = config /\ stage' \in {"ConfigError", "crash"}
  <2>1. ShapeInv'
    BY <1>0, <1>6 DEF ShapeInv
  <2>2. \A s \in DOMAIN Defaults : \A f \in DOMAIN Defaults[s] : FromSomeLayer(s, f)'
    BY <1>0, <1>6 DEF LayersInv, FromSomeLayer, InDocument
  <2>3. LayersInv'
    BY <1>6, <2>2 DEF LayersInv
  <2>4. QED BY <1>1, <1>5, <2>1, <2>3 DEF LoadInv
<1>7. CASE /\ stage' = stage /\ pending' = pending \ {key}
           /\ ShapeInv'
           /\ \A s \in DOMAIN Defaults : \A f \in DOMAIN Defaults[s] :
                config'[s][f] = IF <<s, f>> = key THEN Coerced(TypeOf(s, f), environ[key])
                                ELSE config[s][f]
  <2>1. ASSUME NEW s \in DOMAIN Defaults, NEW f \in DOMAIN Defaults[s]
        PROVE  config'[s][f] = FromBoth(s, f, pending)' /\ FromSomeLayer(s, f)'
    <3>1. CASE <<s, f>> = key
      <4>1. <<s, f>> \in DOMAIN environ' /\ <<s, f>> \notin pending'
        BY <1>0, <1>3, <1>7, <3>1
      <4>2. config'[s][f] = Coerced(TypeOf(s, f), environ'[<<s, f>>])
        BY <1>0, <1>7, <3>1
      <4>3. QED BY <1>0, <1>7, <4>1, <4>2 DEF FromBoth, FromSomeLayer
    <3>2. CASE <<s, f>> # key
      <4>1. config'[s][f] = config[s][f]
        BY <1>7, <3>2
      <4>2. <<s, f>> \in pending' <=> <<s, f>> \in pending
        BY <1>7, <3>2
      <4>3. InDocument(s, f)' = InDocument(s, f)
        BY <1>0 DEF InDocument
      <4>4. config[s][f] = FromBoth(s, f, pending) /\ FromSomeLayer(s, f)
        BY <1>0 DEF LayersInv
      <4>5. QED
        BY <1>0, <1>7, <4>1, <4>2, <4>3, <4>4 DEF FromBoth, FromDocument, FromSomeLayer
    <3>3. QED BY <3>1, <3>2
  <2>2. LayersInv'
    BY <1>0, <1>7, <2>1 DEF LayersInv
  <2>3. QED BY <1>1, <1>5, <1>7, <2>2 DEF LoadInv
<1>8. QED BY <1>0, <1>2, <1>3, <1>6, <1>7, ApplyOneKey

LEMMA LoadInvNext == LoadInv /\ [Next]_vars => LoadInv'
<1> SUFFICES ASSUME LoadInv, [Next]_vars PROVE LoadInv'
  OBVIOUS
<1>1. CASE Read \/ DocumentDone \/ Validate \/ UNCHANGED vars
  <2>0. UNCHANGED <<document, environ, config>>
    BY <1>1 DEF Read, DocumentDone, Validate, vars
  <2>1. InputsInv' /\ ShapeInv'
    BY <2>0 DEF LoadInv, InputsInv, ShapeInv
  <2>2. \A s, f : InDocument(s, f)' = InDocument(s, f)
    BY <2>0 DEF InDocument
  <2>3. \A s, f : FromDocument(s, f, {})' = FromDocument(s, f, {})
    BY <2>0, <2>2 DEF FromDocument
  <2>4. CASE Read
    <3>1. /\ stage = "read" /\ pending' = DOMAIN document
          /\ stage' \in {"document", "crash", "ConfigError"}
      BY <2>4 DEF Read
    <3>2. \A s, f : FromDocument(s, f, pending)' = Defaults[s][f]
      BY <2>0, <3>1 DEF FromDocument, InDocument
    <3>3. LayersInv'
      BY <2>0, <3>1, <3>2 DEF LoadInv, LayersInv, FromSomeLayer
    <3>4. QED BY <2>0, <2>1, <3>1, <3>3 DEF LoadInv, PendingInv, Ended
  <2>5. CASE DocumentDone
    <3>1. stage = "document" /\ pending = {} /\ stage' = "environment" /\ pending' = DOMAIN environ
      BY <2>5 DEF DocumentDone
    <3>2. \A s, f : FromBoth(s, f, pending)' = FromDocument(s, f, {})
      BY <2>0, <2>3, <3>1 DEF FromBoth
    <3>3. LayersInv'
      BY <2>0, <2>2, <3>1, <3>2 DEF LoadInv, LayersInv, FromSomeLayer
    <3>4. QED BY <2>0, <2>1, <3>1, <3>3 DEF LoadInv, PendingInv
  <2>6. CASE Validate
    <3>1. stage = "environment" /\ pending = {} /\ pending' = pending /\ stage' \in Ended
      BY <2>6, Verdict DEF Validate
    <3>2. \A s, f : FromBoth(s, f, {})' = FromBoth(s, f, {})
      BY <2>0, <2>3 DEF FromBoth
    <3>3. LayersInv'
      BY <2>0, <2>2, <3>1, <3>2 DEF LoadInv, LayersInv, FromSomeLayer, Ended
    <3>4. QED BY <2>0, <2>1, <3>1, <3>3 DEF LoadInv, PendingInv, Ended
  <2>7. CASE UNCHANGED vars
    BY <2>7 DEF vars, LoadInv, InputsInv, ShapeInv, LayersInv, PendingInv, FromSomeLayer,
                FromBoth, FromDocument, InDocument
  <2>8. QED BY <1>1, <2>4, <2>5, <2>6, <2>7
<1>2. QED BY <1>1, LoadInvDocument, LoadInvEnvironment DEF Next

LEMMA LoadInvHolds == Spec => []LoadInv
<1>1. QED BY LoadInvInit, LoadInvNext, PTL DEF Spec

-----------------------------------------------------------------------------
(* Every field of the configuration, at any stage.                          *)
LEMMA FieldsTyped ==
  ASSUME LoadInv, NEW s \in DOMAIN Defaults, NEW f \in DOMAIN Defaults[s]
  PROVE  /\ OfType(config[s][f], TypeOf(s, f))
         /\ \/ config[s][f].type = TypeOf(s, f)
            \/ /\ config[s][f].type = "List[str]" /\ <<s, f>> \in DOMAIN environ
               /\ IsSection(f) /\ stage # "document"
<1>0. InputsInv /\ FromSomeLayer(s, f) /\ TypeOf(s, f) \in FieldTypes
  BY DefaultValues DEF LoadInv, LayersInv
<1>1. CASE config[s][f] = Defaults[s][f]
  BY <1>1, DefaultValues DEF TypeOf
<1>2. CASE InDocument(s, f) /\ config[s][f] = Coerced(TypeOf(s, f), document[<<s, f>>])
  <2>1. document[<<s, f>>] \in RawValue /\ TypeOf(s, f) # "section"
    BY <1>0, <1>2, InputTypes, DefaultValues DEF InDocument
  <2>2. QED BY <1>0, <1>2, <2>1, CoercedOfType
<1>3. CASE /\ stage \notin {"read", "document"} /\ <<s, f>> \in DOMAIN environ
           /\ config[s][f] = Coerced(TypeOf(s, f), environ[<<s, f>>])
  <2>1. environ[<<s, f>>] \in RawValue
    BY <1>0, <1>3, InputTypes
  <2>2. QED BY <1>0, <1>3, <2>1, CoercedOfType, DefaultValues
<1>4. QED BY <1>0, <1>1, <1>2, <1>3 DEF FromSomeLayer

(* Every field keeps its declared type through both layers, whatever is     *)
(* given for it; only a variable named like a section replaces one.         *)
THEOREM ConfigurationTypes == Spec => []TypeOK
<1>1. LoadInv => TypeOK
  <2> SUFFICES ASSUME LoadInv PROVE TypeOK
    OBVIOUS
  <2>1. /\ stage \in {"read", "document", "environment"} \cup Ended
        /\ pending \subseteq DOMAIN document \cup DOMAIN environ
    BY DEF LoadInv, PendingInv
  <2>2. QED BY <2>1, FieldsTyped DEF TypeOK, TypeOf
<1>2. QED BY <1>1, LoadInvHolds, PTL

(* An accepted configuration is the one given: environment over document    *)
(* over default, for any number of keys and in any order of the variables.  *)
THEOREM LayersInOrderHolds == Spec => []LayersInOrder
<1>1. LoadInv => LayersInOrder
  BY DEF LoadInv, LayersInv, LayersInOrder, FromBoth, FromDocument, InDocument, TypeOf
<1>2. QED BY <1>1, LoadInvHolds, PTL

-----------------------------------------------------------------------------
(* A section that is not one any more was replaced by a variable.           *)
LEMMA ReplacedByVariable ==
  ASSUME LoadInv, NEW section \in DOMAIN Defaults, section # "top",
         config.top[section].type # "section"
  PROVE  \E key \in DOMAIN environ : key[1] = "top" /\ IsSection(key[2])
<1>1. "top" \in DOMAIN Defaults /\ section \in DOMAIN Defaults["top"] /\ IsSection(section)
  BY DefaultSections, DefaultFields
<1>2. TypeOf("top", section) = "section"
  BY <1>1, DefaultValues
<1>3. <<"top", section>> \in DOMAIN environ
  BY <1>1, <1>2, FieldsTyped
<1>4. QED BY <1>1, <1>3

LEMMA CrashNext ==
  LoadInv /\ RejectedAsConfigError /\ [Next]_vars => RejectedAsConfigError'
<1> SUFFICES ASSUME LoadInv, RejectedAsConfigError, [Next]_vars PROVE RejectedAsConfigError'
  OBVIOUS
<1>0. UNCHANGED <<file, document, environ>>
  BY DEF Next, Read, ApplyDocument, DocumentDone, ApplyEnvironment, Validate, vars
<1> SUFFICES ASSUME stage' = "crash"
             PROVE  \/ file = "unreadable"
                    \/ \E key \in DOMAIN document :
                         /\ key[2] \in DOMAIN Defaults[key[1]]
                         /\ Overflows(TypeOf(key[1], key[2]), document[key])
                    \/ \E key \in DOMAIN environ : key[1] = "top" /\ IsSection(key[2])
  BY <1>0, Zenon DEF RejectedAsConfigError, Overflows, TypeOf
<1>1. CASE stage = "crash"
  BY <1>1, Zenon DEF RejectedAsConfigError, Overflows, TypeOf
<1>2. CASE Read
  BY <1>2 DEF Read
<1>3. CASE ApplyDocument
  <2>1. /\ stage = "document" /\ InputsInv /\ ShapeInv /\ pending \subseteq DOMAIN document
    BY <1>3 DEF ApplyDocument, LoadInv, PendingInv
  <2>2. PICK key \in pending :
          IF key[1] = "top" /\ IsSection(key[2])
          THEN /\ stage' = IF document[key].form = "object" THEN stage ELSE "ConfigError"
               /\ pending' = pending \ {key}
               /\ UNCHANGED config
          ELSE Apply(key, document[key])
    BY <1>3 DEF ApplyDocument
  <2>3. key \in DOMAIN document /\ key = <<key[1], key[2]>> /\ key[1] \in DOMAIN Defaults
    BY <2>1, <2>2, InputTypes
  <2>4. Apply(key, document[key])
    BY <2>1, <2>2
  <2>5. \/ key[1] # "top" /\ config.top[key[1]].type # "section"
        \/ /\ key[2] \in DOMAIN Defaults[key[1]]
           /\ Overflows(TypeOf(key[1], key[2]), document[key])
    BY <2>1, <2>3, <2>4, ApplyOneKey, SMT
  <2>6. QED BY <2>3, <2>5, ReplacedByVariable, SMT
<1>4. CASE ApplyEnvironment
  <2>1. /\ stage = "environment" /\ InputsInv /\ ShapeInv /\ pending \subseteq DOMAIN environ
    BY <1>4 DEF ApplyEnvironment, LoadInv, PendingInv
  <2>2. PICK key \in pending : key[1] \in DOMAIN Defaults /\ Apply(key, environ[key])
    BY <1>4 DEF ApplyEnvironment
  <2>3. key = <<key[1], key[2]>> /\ environ[key].form # "number"
    BY <2>1, <2>2, InputTypes
  <2>4. key[1] # "top" /\ config.top[key[1]].type # "section"
    BY <2>1, <2>2, <2>3, ApplyOneKey, SMT DEF Overflows
  <2>5. QED BY <2>2, <2>4, ReplacedByVariable, SMT
<1>5. CASE Validate
  BY <1>5, Verdict, ReplacedByVariable, DefaultSections, SMT
<1>6. CASE DocumentDone
  BY <1>6 DEF DocumentDone
<1>7. QED BY <1>1, <1>2, <1>3, <1>4, <1>5, <1>6 DEF Next, vars

(* What load() does not accept it rejects with a ConfigError, but for the   *)
(* four inputs named, for any keys and values.                              *)
THEOREM RejectedAsConfigErrorHolds == Spec => []RejectedAsConfigError
<1>1. Init => RejectedAsConfigError
  BY Zenon DEF Init, RejectedAsConfigError
<1>2. QED BY <1>1, CrashNext, LoadInvHolds, PTL DEF Spec

-----------------------------------------------------------------------------
(* What validate() lets pass.                                               *)

ValidInv ==
  stage = "accepted" => TopValid /\ MemoryValid /\ StorageValid /\ HeartbeatValid

LEMMA ValidNext == LoadInv /\ ValidInv /\ [Next]_vars => ValidInv'
<1> SUFFICES ASSUME LoadInv, ValidInv, [Next]_vars, stage' = "accepted"
             PROVE  (TopValid /\ MemoryValid /\ StorageValid /\ HeartbeatValid)'
  BY DEF ValidInv
<1>1. TopValid /\ MemoryValid /\ StorageValid /\ HeartbeatValid /\ config' = config
  <2>1. CASE Validate
    BY <2>1, Verdict DEF Validate
  <2>2. CASE UNCHANGED vars
    BY <2>2 DEF vars, ValidInv
  <2>3. CASE Read
    BY <2>3 DEF Read
  <2>4. CASE DocumentDone
    BY <2>4 DEF DocumentDone
  <2>5. CASE ApplyDocument
    <3>1. /\ stage = "document" /\ InputsInv /\ ShapeInv /\ pending \subseteq DOMAIN document
      BY <2>5 DEF ApplyDocument, LoadInv, PendingInv
    <3>2. PICK key \in DOMAIN document :
            stage' \in {"document", "ConfigError"} \/ Apply(key, document[key])
      BY <2>5, <3>1 DEF ApplyDocument
    <3>3. QED BY <3>1, <3>2, InputTypes, ApplyOneKey
  <2>6. CASE ApplyEnvironment
    <3>1. /\ stage = "environment" /\ InputsInv /\ ShapeInv /\ pending \subseteq DOMAIN environ
      BY <2>6 DEF ApplyEnvironment, LoadInv, PendingInv
    <3>2. PICK key \in DOMAIN environ :
            stage' = "ConfigError" \/ (key[1] \in DOMAIN Defaults /\ Apply(key, environ[key]))
      BY <2>6, <3>1 DEF ApplyEnvironment
    <3>3. QED BY <3>1, <3>2, InputTypes, ApplyOneKey
  <2>7. QED BY <2>1, <2>2, <2>3, <2>4, <2>5, <2>6 DEF Next
<1>2. QED
  BY <1>1 DEF TopValid, MemoryValid, StorageValid, HeartbeatValid, WindowExceedsPeriod, N, Count

(* The fields whose comparisons matter, by section.                         *)
LEMMA FloatFields ==
  /\ \A f \in {"loop_period_s", "shutdown_grace_s"} : TypeOf("top", f) = "float"
  /\ \A f \in {"scan_period_s", "slice_budget_ms"} : TypeOf("memory", f) = "float"
  /\ \A f \in {"scan_period_s", "stall_threshold_s", "free_warn_fraction", "free_fault_fraction",
               "probe_latency_warn_ms", "probe_latency_fault_ms"} :
       TypeOf("storage", f) = "float"
  /\ \A f \in {"emit_period_s", "peer_timeout_s"} : TypeOf("heartbeat", f) = "float"
BY SMT DEF TypeOf, Defaults, Float, Integer, Names, Value

(* Comparisons of two floats that are finite.                               *)
LEMMA Comparisons ==
  ASSUME NEW a \in Int, NEW b \in Int
  PROVE  /\ ~AtMost(a, b) => b < a
         /\ Less(a, b) => a < b
<1>1. a # NaN /\ b # NaN
  BY NumbersAssumption
<1>2. ~AtMost(a, b) => ~(a <= b)
  BY <1>1, Zenon DEF AtMost
<1>3. ~AtMost(b, a) => ~(b <= a)
  BY <1>1, Zenon DEF AtMost
<1>4. QED BY <1>2, <1>3 DEF Less

LEMMA DistinctCounted ==
  ASSUME NEW q, IsList(q), \A i, k \in DOMAIN q : q[i] = q[k] => i = k
  PROVE  Cardinality({q[i] : i \in DOMAIN q}) = Len(q)
<1>1. PICK S : q \in Seq(S)
  BY DEF IsList
<1>2. Len(q) \in Nat /\ DOMAIN q = 1 .. Len(q)
  BY <1>1
<1> DEFINE T == {q[i] : i \in DOMAIN q}
<1>3. q \in Surjection(1 .. Len(q), T) /\ q \in Injection(1 .. Len(q), T)
  BY <1>1, <1>2 DEF Surjection, Injection, IsInjective
<1>4. IsFiniteSet(1 .. Len(q)) /\ Cardinality(1 .. Len(q)) = Len(q)
  BY <1>2, FS_Interval
<1> HIDE DEF T
<1>5. Cardinality(T) = Cardinality(1 .. Len(q))
  BY <1>3, <1>4, FS_Surjection
<1>6. QED BY <1>4, <1>5 DEF T

(* An accepted configuration in which nothing was overlooked, so that its   *)
(* floats are finite and its peers distinct, meets the assumptions of the   *)
(* timer, of the checks and of the loop, for any keys and values given.     *)
THEOREM AcceptedIsHonouredHolds == Spec => []AcceptedIsHonoured
<1>1. LoadInv /\ ValidInv => AcceptedIsHonoured
  <2> DEFINE peers  == config.heartbeat.peers.items
             mounts == config.storage.mounts.items
  <2> SUFFICES ASSUME LoadInv, TopValid, MemoryValid, StorageValid, HeartbeatValid, ~Overlooked
               PROVE
    /\ \A key \in { <<"top", "loop_period_s">>, <<"top", "shutdown_grace_s">>,
                    <<"memory", "scan_period_s">>, <<"memory", "slice_budget_ms">>,
                    <<"storage", "scan_period_s">>, <<"heartbeat", "emit_period_s">> } :
         0 < N(key[1], key[2])
    /\ N("memory", "pages_per_slice") > 0 /\ N("memory", "region_bytes") > 0
    /\ N("heartbeat", "emit_period_s") < N("heartbeat", "peer_timeout_s")
    /\ N("storage", "scan_period_s") < N("storage", "stall_threshold_s")
    /\ N("storage", "probe_latency_warn_ms") < N("storage", "probe_latency_fault_ms")
    /\ 0 < N("storage", "free_fault_fraction")
    /\ N("storage", "free_fault_fraction") < N("storage", "free_warn_fraction")
    /\ N("storage", "free_warn_fraction") < 100
    /\ N("heartbeat", "quorum_min_live") <= Cardinality({peers[i] : i \in DOMAIN peers})
    /\ N("heartbeat", "enabled") = 1 => peers # << >>
    /\ N("storage", "enabled") = 1 => mounts # << >>
    BY Zenon DEF AcceptedIsHonoured, ValidInv
  <2>1. /\ \A s \in DOMAIN Defaults : \A f \in DOMAIN Defaults[s] :
             TypeOf(s, f) = "float" => N(s, f) \in Int
        /\ NoRepeats(peers)
    BY Zenon DEF Overlooked, TypeOf
  <2>2. /\ \A f \in {"loop_period_s", "shutdown_grace_s"} : N("top", f) \in Int
        /\ \A f \in {"scan_period_s", "slice_budget_ms"} : N("memory", f) \in Int
        /\ \A f \in {"scan_period_s", "stall_threshold_s", "free_warn_fraction",
                     "free_fault_fraction", "probe_latency_warn_ms", "probe_latency_fault_ms"} :
             N("storage", f) \in Int
        /\ \A f \in {"emit_period_s", "peer_timeout_s"} : N("heartbeat", f) \in Int
    <3>1. \A f \in {"loop_period_s", "shutdown_grace_s"} : N("top", f) \in Int
      BY <2>1, FloatFields, DefaultSections, DefaultFields
    <3>2. \A f \in {"scan_period_s", "slice_budget_ms"} : N("memory", f) \in Int
      BY <2>1, FloatFields, DefaultSections, DefaultFields
    <3>3. \A f \in {"scan_period_s", "stall_threshold_s", "free_warn_fraction",
                    "free_fault_fraction", "probe_latency_warn_ms", "probe_latency_fault_ms"} :
            N("storage", f) \in Int
      <4>1. "storage" \in DOMAIN Defaults
        BY DefaultSections
      <4>2. \A f \in {"scan_period_s", "stall_threshold_s", "free_warn_fraction",
                      "free_fault_fraction", "probe_latency_warn_ms", "probe_latency_fault_ms"} :
              f \in DOMAIN Defaults["storage"] /\ TypeOf("storage", f) = "float"
        BY DefaultFields, FloatFields
      <4>3. QED BY <2>1, <4>1, <4>2, Zenon
    <3>4. \A f \in {"emit_period_s", "peer_timeout_s"} : N("heartbeat", f) \in Int
      BY <2>1, FloatFields, DefaultSections, DefaultFields
    <3>5. QED BY <3>1, <3>2, <3>3, <3>4
  <2>3. /\ 0 < N("top", "loop_period_s") /\ 0 < N("top", "shutdown_grace_s")
        /\ 0 < N("memory", "scan_period_s") /\ 0 < N("memory", "slice_budget_ms")
        /\ 0 < N("storage", "scan_period_s") /\ 0 < N("heartbeat", "emit_period_s")
    <3>1. \A n \in Int : Positive(n) => 0 < n
      <4>1. 0 \in Int
        OBVIOUS
      <4>2. QED BY <4>1, Comparisons, Zenon DEF Positive
    <3>2. 0 < N("top", "loop_period_s") /\ 0 < N("top", "shutdown_grace_s")
      BY <2>2, <3>1 DEF TopValid
    <3>3. 0 < N("memory", "scan_period_s") /\ 0 < N("memory", "slice_budget_ms")
      BY <2>2, <3>1 DEF MemoryValid
    <3>4. 0 < N("storage", "scan_period_s")
      BY <2>2, <3>1 DEF StorageValid
    <3>5. 0 < N("heartbeat", "emit_period_s")
      BY <2>2, <3>1 DEF HeartbeatValid
    <3>6. QED BY <3>2, <3>3, <3>4, <3>5
  <2>4. \A key \in { <<"top", "loop_period_s">>, <<"top", "shutdown_grace_s">>,
                     <<"memory", "scan_period_s">>, <<"memory", "slice_budget_ms">>,
                     <<"storage", "scan_period_s">>, <<"heartbeat", "emit_period_s">> } :
          0 < N(key[1], key[2])
    BY <2>3
  <2>5. N("memory", "pages_per_slice") > 0 /\ N("memory", "region_bytes") > 0
    BY DEF MemoryValid
  <2>6. N("heartbeat", "emit_period_s") < N("heartbeat", "peer_timeout_s")
    BY <2>2, Comparisons DEF HeartbeatValid, WindowExceedsPeriod
  <2>7. /\ N("storage", "scan_period_s") < N("storage", "stall_threshold_s")
        /\ N("storage", "probe_latency_warn_ms") < N("storage", "probe_latency_fault_ms")
        /\ N("storage", "free_fault_fraction") < N("storage", "free_warn_fraction")
    BY <2>2, Comparisons DEF StorageValid
  <2>8. /\ 0 < N("storage", "free_fault_fraction")
        /\ N("storage", "free_warn_fraction") < 100
    BY <2>2, Comparisons DEF StorageValid, Fraction
  <2>9. IsList(config["heartbeat"]["peers"].items)
    BY FieldsTyped, DefaultSections, DefaultFields DEF OfType
  <2>10. N("heartbeat", "quorum_min_live") <= Cardinality({peers[i] : i \in DOMAIN peers})
    <3>1. Cardinality({peers[i] : i \in DOMAIN peers}) = Len(peers)
      BY <2>1, <2>9, DistinctCounted DEF NoRepeats
    <3>2. QED BY <3>1 DEF HeartbeatValid, Count
  <2>11. /\ N("heartbeat", "enabled") = 1 => peers # << >>
         /\ N("storage", "enabled") = 1 => mounts # << >>
    <3>1. Len(<< >>) = 0
      OBVIOUS
    <3>2. QED BY <3>1 DEF HeartbeatValid, StorageValid, Count
  <2>12. QED BY <2>4, <2>5, <2>6, <2>7, <2>8, <2>10, <2>11
<1>2. Init => ValidInv
  BY DEF Init, ValidInv
<1>3. QED BY <1>1, <1>2, ValidNext, LoadInvHolds, PTL DEF Spec
=============================================================================
