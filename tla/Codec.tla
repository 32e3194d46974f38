------------------------------- MODULE Codec --------------------------------
(***************************************************************************)
(* What becomes of one V2GTP message once it is framed: on_message of      *)
(* convert_capture (converter.py) calls emit_message (codec.py), which has *)
(* the native library decode the EXI (exi/libv2g.py), logs a message row   *)
(* and, for a message with telemetry, registers an event for its type and  *)
(* logs a field row.  All of it runs in one call, so one action is one     *)
(* message.                                                                *)
(*                                                                         *)
(* Values are left out except the SAP namespaces: a decoded document is    *)
(* its message type and the fields the native decoder prints for it        *)
(* (native/v2g_din_shim.c).  Which documents a byte string decodes to is   *)
(* libcbv2g's business: a wire message is the function from the grammars   *)
(* that accept it to the document each finds.                              *)
(***************************************************************************)
EXTENDS Integers, Sequences, FiniteSets

CONSTANTS
  Wire,        \* the messages that may arrive
  MaxMessages  \* bound on the messages of a capture

VARIABLES
  available,  \* libv2g.available(): a library is bundled for this platform
  strict,     \* how the trace writer takes a field its event does not have and
              \* a value out of range: it raises (TRUE) or drops it (FALSE)
  schema,     \* the events registered, Layer 1 and codec._decoded_events: the
              \* columns of each
  rows,       \* what log_at was called with
  stats,      \* ConversionStats
  raised,     \* an exception left on_message: the conversion is over
  seen        \* history: the messages handed to on_message

vars == <<available, strict, schema, rows, stats, raised, seen>>

-----------------------------------------------------------------------------
(* The documents the native decoders print.  Most types have one field     *)
(* set; the ones of ChargeParameterDiscovery and ISO's SessionSetupRes     *)
(* depend on which optional elements the message carries.                  *)
CodeOnly == {"ServiceDiscoveryRes", "PowerDeliveryRes", "SessionStopRes"}
Bare     == {"ServiceDiscoveryReq", "PowerDeliveryReq", "WeldingDetectionReq",
             "SessionStopReq", "Unknown"}

Telemetry ==
  [SessionSetupReq     |-> {"evccid"},
   CableCheckReq       |-> {"soc"},
   CableCheckRes       |-> {"response_code", "evse_processing", "evse_status_code"},
   PreChargeReq        |-> {"soc", "ev_target_voltage", "ev_target_current"},
   PreChargeRes        |-> {"response_code", "evse_present_voltage", "evse_status_code"},
   CurrentDemandReq    |-> {"soc", "ev_target_voltage", "ev_target_current",
                            "charging_complete"},
   CurrentDemandRes    |-> {"response_code", "evse_present_voltage",
                            "evse_present_current", "evse_status_code"},
   WeldingDetectionRes |-> {"response_code", "evse_present_voltage"}]

EvLimits   == {"soc", "ev_max_voltage", "ev_max_current"}
EvOptional == {"ev_max_power", "ev_energy_capacity", "full_soc", "bulk_soc"}
EvseLimits == {"evse_max_voltage", "evse_max_current", "evse_max_power"}

ChargeParameters ==
  [ChargeParameterDiscoveryReq |->
     {{"requested_energy_transfer"}} \cup
     {{"requested_energy_transfer"} \cup EvLimits \cup opt : opt \in SUBSET EvOptional},
   ChargeParameterDiscoveryRes |->
     {{"response_code", "evse_processing"},
      {"response_code", "evse_processing"} \cup EvseLimits}]

(* The field sets printed for a type: FieldSets(bare, coded)[t].           *)
FieldSets(bare, coded) ==
  [t \in bare \cup coded \cup DOMAIN Telemetry \cup DOMAIN ChargeParameters |->
     IF t \in bare THEN {{}}
     ELSE IF t \in coded THEN {{"response_code"}}
     ELSE IF t \in DOMAIN Telemetry THEN {Telemetry[t]}
     ELSE ChargeParameters[t]]

WithSetupRes(prints, sets) ==
  [t \in DOMAIN prints \cup {"SessionSetupRes"} |->
     IF t = "SessionSetupRes" THEN sets ELSE prints[t]]

DinPrints ==
  WithSetupRes(
    FieldSets(Bare \cup {"ServicePaymentSelectionReq", "ContractAuthenticationReq"},
              CodeOnly \cup {"ServicePaymentSelectionRes", "ContractAuthenticationRes"}),
    {{"response_code", "evse_id", "datetime_now"}})

IsoPrints ==
  WithSetupRes(
    FieldSets(Bare \cup {"PaymentServiceSelectionReq", "AuthorizationReq", "ChargingStatusReq"},
              CodeOnly \cup {"PaymentServiceSelectionRes", "AuthorizationRes", "ChargingStatusRes"}),
    {{"response_code", "evse_id"}, {"response_code", "evse_id", "datetime_now"}})

\* A request that offers no protocol prints their number alone.
SapOffer == {"protocol", "version_major", "version_minor", "schema_id"}

SapPrints ==
  [SupportedAppProtocolReq |-> {{"num_protocols"}, {"num_protocols"} \cup SapOffer},
   SupportedAppProtocolRes |-> {{"response_code", "schema_id"}},
   SupportedAppProtocol    |-> {{}}]

Prints == [din |-> DinPrints, iso2 |-> IsoPrints, sap |-> SapPrints]

(* A document.  json: the text printed is whole and JSON.  An ISO EVSE id  *)
(* and a SAP namespace are printed unescaped and may break it, or be longer*)
(* than the buffer, which cuts the text before its closing brace.  fits:   *)
(* the values are in the range of their columns.  A SAP version has 32     *)
(* bits and its column 8.  offers and chosen: the namespaces a SAP request *)
(* offers and the number of the one that a response picks.                 *)
IsDoc(d, g) ==
  /\ d.msg \in DOMAIN Prints[g]
  /\ d.fields \in Prints[g][d.msg]
  /\ d.json \in BOOLEAN /\ d.fits \in BOOLEAN
  /\ ~d.json => (g = "iso2" /\ "evse_id" \in d.fields) \/ "protocol" \in d.fields
  /\ ~d.fits => "version_major" \in d.fields
  /\ d.offers \in Seq(STRING)
  /\ d.chosen \in Nat
  /\ d.offers # <<>> <=> "protocol" \in d.fields

ASSUME WireAssumption ==
  \A w \in Wire :
    /\ DOMAIN w \subseteq DOMAIN Prints
    /\ \A g \in DOMAIN w : IsDoc(w[g], g)
ASSUME MaxMessagesAssumption == MaxMessages \in Nat

-----------------------------------------------------------------------------
\* The fields that have a type and a unit in _FIELD_META.
FieldMeta ==
  {"soc", "ev_target_voltage", "ev_target_current", "evse_present_voltage",
   "evse_present_current", "response_code", "evse_status_code", "evse_processing",
   "charging_complete", "evccid", "protocol", "version_major", "version_minor",
   "schema_id", "num_protocols", "evse_id", "datetime_now", "evse_max_voltage",
   "evse_max_current", "evse_max_power", "requested_energy_transfer",
   "ev_max_voltage", "ev_max_current", "ev_max_power", "ev_energy_capacity",
   "full_soc", "bulk_soc"}

Columns(d) == d.fields \cap FieldMeta

\* exi/libv2g._decode returned a dict.
Decodes(w, g) == available /\ g \in DOMAIN w /\ w[g].json

(* The grammar whose decoder succeeds first.                               *)
MutGrammar(w) ==
  IF Decodes(w, "din") THEN "din"
  ELSE IF Decodes(w, "iso2") THEN "iso2"
  ELSE "none"
Grammar(w) ==
  IF Decodes(w, "din") THEN "din"
  ELSE IF Decodes(w, "iso2") THEN "iso2"
  ELSE IF Decodes(w, "sap") THEN "sap"
  ELSE "none"

\* codec._protocol_label
Label(ns) ==
  CASE ns = "urn:din:70121:2012:MsgDef"      -> "DIN 70121"
    [] ns = "urn:iso:15118:2:2013:MsgDef"    -> "ISO 15118-2"
    [] OTHER                                 -> ns

NoDialect == ""   \* or None

(* The dialect emit_message returns.                                       *)
Dialect(w) ==
  LET g == Grammar(w) IN
  CASE g = "din"  -> "DIN 70121"
    [] g = "iso2" -> "ISO 15118-2"
    [] g = "sap" /\ w[g].offers # <<>> -> Label(w[g].offers[1])
    [] OTHER      -> NoDialect

(* The events that are there from the beginning.                           *)
Layer1 ==
  [slac    |-> {"mmtype", "name", "src_mac", "dst_mac", "data"},
   sdp     |-> {"kind", "secc_ip", "secc_port", "security", "transport"},
   message |-> {"index", "direction", "payload_type", "length", "name", "exi"},
   slac_attenuation |->
     {"run_id", "num_sounds", "num_groups", "atten_min", "atten_max", "atten_mean"},
   slac_match |-> {"run_id", "nid", "nmk"}]

MessageRow(w) ==
  [kind |-> "message",
   name |-> IF Grammar(w) = "none" THEN "(exi)" ELSE w[Grammar(w)].msg,
   fields |-> {"index", "direction", "payload_type", "length", "name", "exi"}]

FieldRow(d) == [kind |-> "fields", name |-> d.msg, fields |-> Columns(d)]

(* The rows of a message, with or without a field row.                     *)
MutEmittedFieldsFirst(w, logged) ==
  IF logged THEN <<FieldRow(w[Grammar(w)]), MessageRow(w)>> ELSE <<MessageRow(w)>>
MutEmittedDecodedOnly(w, logged) ==
  IF logged THEN <<MessageRow(w), FieldRow(w[Grammar(w)])>>
  ELSE IF Grammar(w) = "none" THEN <<>> ELSE <<MessageRow(w)>>
Emitted(w, logged) ==
  IF logged THEN <<MessageRow(w), FieldRow(w[Grammar(w)])>> ELSE <<MessageRow(w)>>

(* _decoded_event: the first message of a type defines its event.  A type  *)
(* without a single mapped field gets none.                                *)
MutHasEvent(d) == TRUE
HasEvent(d) == d.msg \in DOMAIN schema \/ Columns(d) # {}

MutRegister(d) ==
  [t \in DOMAIN schema \cup {d.msg} |-> IF t = d.msg THEN Columns(d) ELSE schema[t]]
Register(d) ==
  IF d.msg \in DOMAIN schema THEN schema
  ELSE [t \in DOMAIN schema \cup {d.msg} |-> IF t = d.msg THEN Columns(d) ELSE schema[t]]

\* log_at accepts the row (the trace writer is external).
Accepts(d) == ~strict \/ (Columns(d) \subseteq Register(d)[d.msg] /\ d.fits)

(* on_message's statistics: the first dialect is kept.                     *)
MutCounted(w, emitted) ==
  [messages |-> stats.messages + 1,
   decoded  |-> stats.decoded + (IF emitted THEN 1 ELSE 0),
   protocol |-> Dialect(w)]
MutCountedDialect(w, emitted) ==
  [messages |-> stats.messages + 1,
   decoded  |-> stats.decoded + (IF Dialect(w) # NoDialect THEN 1 ELSE 0),
   protocol |-> IF stats.protocol = NoDialect THEN Dialect(w) ELSE stats.protocol]
Counted(w, emitted) ==
  [messages |-> stats.messages + 1,
   decoded  |-> stats.decoded + (IF emitted THEN 1 ELSE 0),
   protocol |-> IF stats.protocol = NoDialect THEN Dialect(w) ELSE stats.protocol]

-----------------------------------------------------------------------------
Init ==
  /\ available \in BOOLEAN
  /\ strict \in BOOLEAN
  /\ schema = Layer1
  /\ rows = <<>>
  /\ stats = [messages |-> 0, decoded |-> 0, protocol |-> NoDialect]
  /\ raised = FALSE
  /\ seen = <<>>

Arrives(w) ==
  /\ ~raised
  /\ Len(seen) < MaxMessages
  /\ seen' = Append(seen, w)
  /\ UNCHANGED <<available, strict>>

(* No field row: nothing was decoded, or nothing that has a field.         *)
RawMessage(w) ==
  /\ Arrives(w)
  /\ \/ Grammar(w) = "none"
     \/ Grammar(w) # "none" /\ ~HasEvent(w[Grammar(w)])
  /\ rows' = rows \o Emitted(w, FALSE)
  /\ stats' = Counted(w, FALSE)
  /\ UNCHANGED <<schema, raised>>

(* A message row and a field row.                                          *)
DecodedMessage(w) ==
  LET d == w[Grammar(w)] IN
  /\ Arrives(w)
  /\ Grammar(w) # "none"
  /\ HasEvent(d)
  /\ Accepts(d)
  /\ schema' = Register(d)
  /\ rows' = rows \o Emitted(w, TRUE)
  /\ stats' = Counted(w, TRUE)
  /\ UNCHANGED raised

(* log_at raises: the message row is written and the message counted, and  *)
(* the exception leaves on_message before anything else is.                *)
RefusedMessage(w) ==
  LET d == w[Grammar(w)] IN
  /\ Arrives(w)
  /\ Grammar(w) # "none"
  /\ HasEvent(d)
  /\ ~Accepts(d)
  /\ schema' = Register(d)
  /\ rows' = rows \o Emitted(w, FALSE)
  /\ stats' = [stats EXCEPT !.messages = @ + 1]
  /\ raised' = TRUE

Next == \E w \in Wire : RawMessage(w) \/ DecodedMessage(w) \/ RefusedMessage(w)

Spec == Init /\ [][Next]_vars

-----------------------------------------------------------------------------
(* The names a row can have, the offers of a handshake and the dialects   *)
(* that a conversion can report.                                           *)
Names    == {"(exi)"} \cup UNION {DOMAIN Prints[g] : g \in DOMAIN Prints}
Offering == {w \in Wire : "sap" \in DOMAIN w /\ w["sap"].offers # <<>>}
Dialects == {NoDialect, "DIN 70121", "ISO 15118-2"} \cup {w["sap"].offers[1] : w \in Offering}

TypeOK ==
  /\ available \in BOOLEAN /\ strict \in BOOLEAN /\ raised \in BOOLEAN
  /\ DOMAIN Layer1 \subseteq DOMAIN schema
  /\ \A t \in DOMAIN schema :
       schema[t] # {} /\ (t \in DOMAIN Layer1 \/ schema[t] \subseteq FieldMeta)
  /\ rows \in Seq([kind : {"message", "fields"}, name : Names,
                   fields : SUBSET (FieldMeta \cup Layer1.message)])
  /\ stats.messages \in Nat /\ stats.decoded \in Nat /\ stats.protocol \in Dialects
  /\ seen \in Seq(Wire)

RowCount(kind) == Cardinality({i \in DOMAIN rows : rows[i].kind = kind})

(* How many message rows are among the first k rows: a message row k, and  *)
(* the field row that may follow it, are those of message Rank(k).         *)
Rank(k) == Cardinality({i \in 1 .. k : rows[i].kind = "message"})

(* The messages whose on_message returned.                                 *)
Handled == 1 .. (IF raised THEN Len(seen) - 1 ELSE Len(seen))

(* Every message has its raw row, in order of arrival, whatever decodes    *)
(* and even when the conversion breaks on it (README: every application    *)
(* message with raw EXI retained), with a value in every column and the    *)
(* name of something the message is, or "(exi)".                           *)
EveryMessageOnTimeline ==
  /\ RowCount("message") = Len(seen)
  /\ \A k \in 1 .. Len(rows) :
       LET w == seen[Rank(k)] IN
       rows[k].kind = "message" =>
         /\ rows[k].fields = schema.message
         /\ rows[k].name \in {"(exi)"} \cup {w[g].msg : g \in DOMAIN w}

(* A field row stands right behind the row of its own message: the two are *)
(* joined by time stamp and order only.                                    *)
FieldsBesideMessage ==
  \A i \in 1 .. Len(rows) :
    rows[i].kind = "fields" =>
      /\ i > 1
      /\ rows[i - 1].kind = "message"
      /\ rows[i - 1].name = rows[i].name

(* A message that some decoder understands, with telemetry in it, has its  *)
(* field row: no decoder's failure keeps the next from being asked.        *)
DecodedIsLogged ==
  \A i \in Handled :
    (/\ \E g \in DOMAIN seen[i] : Decodes(seen[i], g)
     /\ \A g \in DOMAIN seen[i] : seen[i][g].fields # {})
      => \E k \in 1 .. Len(rows) : rows[k].kind = "fields" /\ Rank(k) = i

(* The statistics a conversion reports are those of the trace it wrote.    *)
StatsMatchTrace ==
  /\ stats.messages = RowCount("message")
  /\ stats.decoded = RowCount("fields")

(* The protocol reported is the first dialect that a message decoded under *)
(* and later messages do not replace it.                                   *)
ProtocolIsFirst ==
  LET known == {i \in Handled : Dialect(seen[i]) # NoDialect} IN
  IF stats.protocol = NoDialect THEN known = {}
  ELSE \E i \in known : /\ stats.protocol = Dialect(seen[i])
                        /\ \A j \in known : i <= j

\* The document found in w, if any, and whether it is one of type t with a mapped field.
Found(w) == w[Grammar(w)]
Tells(w, t) == Grammar(w) # "none" /\ Found(w).msg = t /\ Columns(Found(w)) # {}

(* The columns of an event are the mapped fields of the first message of   *)
(* its type that has any (_decoded_event: "the first one defines it"),     *)
(* whichever dialect that came in, although both have one event in common, *)
(* and also when its own row was then refused.  Every type met so has one. *)
ColumnsOfFirst ==
  /\ \A t \in DOMAIN schema \ DOMAIN Layer1 :
       \E i \in 1 .. Len(seen) :
         /\ Tells(seen[i], t)
         /\ schema[t] = Columns(Found(seen[i]))
         /\ \A j \in 1 .. i - 1 : ~Tells(seen[j], t)
  /\ \A i \in 1 .. Len(seen) :
       \A t \in Names : Tells(seen[i], t) => t \in DOMAIN schema

(* Every field that was decoded is a column of its event, so that its      *)
(* value is in the trace (_decoded_event: "the shim emits a fixed field    *)
(* set per message type, so the first one defines it").                    *)
FirstDefinesAll ==
  \A i \in 1 .. Len(rows) :
    rows[i].kind = "fields" => rows[i].fields \subseteq schema[rows[i].name]

(* A session that begins with the SAP handshake is reported under the      *)
(* protocol the charger chose (README: "the negotiated protocol and        *)
(* version, which also sets the session's dialect authoritatively").       *)
NegotiatedProtocol ==
  (/\ Len(seen) >= 2
   /\ Decodes(seen[1], "sap") /\ Grammar(seen[1]) = "sap"
   /\ Decodes(seen[2], "sap") /\ Grammar(seen[2]) = "sap"
   /\ seen[2]["sap"].chosen \in DOMAIN seen[1]["sap"].offers)
    => stats.protocol = Label(seen[1]["sap"].offers[seen[2]["sap"].chosen])

=============================================================================
