------------------------------ MODULE MCCodec -------------------------------
EXTENDS Codec

Doc(msg, fields) ==
  [msg |-> msg, fields |-> fields, json |-> TRUE, fits |-> TRUE,
   offers |-> <<>>, chosen |-> 0]

Din == "urn:din:70121:2012:MsgDef"
Iso == "urn:iso:15118:2:2013:MsgDef"

Offer(namespaces) ==
  [sap |-> [Doc("SupportedAppProtocolReq", {"num_protocols"} \cup SapOffer)
              EXCEPT !.offers = namespaces]]
Choice(k) ==
  [sap |-> [Doc("SupportedAppProtocolRes", {"response_code", "schema_id"}) EXCEPT !.chosen = k]]

SetupRes == Doc("SessionSetupRes", {"response_code", "evse_id"})

Undecodable == [g \in {} |-> 0]

(* One message per way through the code: each grammar, a type with no      *)
(* field, two types with optional fields, a text that breaks the JSON, a   *)
(* value out of range and bytes that no grammar accepts.                   *)
MCWire ==
  { Undecodable,
    Offer(<<Iso>>), Choice(1), [sap |-> [Offer(<<Iso>>).sap EXCEPT !.fits = FALSE]],
    [sap  |-> Doc("SupportedAppProtocolReq", {"num_protocols"})],
    [din  |-> Doc("PowerDeliveryReq", {})],
    [din  |-> Doc("ChargeParameterDiscoveryReq", {"requested_energy_transfer"} \cup EvLimits)],
    [din  |-> Doc("ChargeParameterDiscoveryReq",
                  {"requested_energy_transfer", "full_soc"} \cup EvLimits)],
    [iso2 |-> SetupRes],
    [iso2 |-> [SetupRes EXCEPT !.fields = @ \cup {"datetime_now"}]],
    [iso2 |-> [SetupRes EXCEPT !.json = FALSE]] }

(* The types whose field set depends on the message.                       *)
OptionalWire == {w \in MCWire : "din" \in DOMAIN w /\ w["din"].msg = "ChargeParameterDiscoveryReq"}

(* A vehicle that offers both protocols, and a charger that answers.       *)
HandshakeWire ==
  {Offer(<<Din, Iso>>), Offer(<<Iso, Din>>), Choice(1), Choice(2)}

=============================================================================
