----------------------------- MODULE CodecProofs ----------------------------
(* Rows, statistics and schemas of any messages, however many, decoded or  *)
(* not, and whatever the trace writer does with a row it does not like.    *)
EXTENDS Codec, FiniteSetTheorems, TLAPS

\* What can be among the rows.
Written == {MessageRow(w) : w \in Wire}
             \cup {FieldRow(w[g]) : w \in Wire, g \in {"din", "iso2", "sap", "none"}}

\* The protocol is that of the first of n messages that has one.
FirstOf(n) ==
  IF stats.protocol = NoDialect THEN \A i \in 1 .. n : Dialect(seen[i]) = NoDialect
  ELSE \E i \in 1 .. n : /\ stats.protocol = Dialect(seen[i])
                         /\ \A j \in 1 .. n : Dialect(seen[j]) # NoDialect => i <= j

CodecInv ==
  /\ rows \in Seq(Written)
  /\ seen \in Seq(Wire)
  /\ stats = [messages |-> stats.messages, decoded |-> stats.decoded,
              protocol |-> stats.protocol]
  /\ FieldsBesideMessage
  /\ StatsMatchTrace
  /\ FirstOf(IF raised THEN Len(seen) - 1 ELSE Len(seen))

-----------------------------------------------------------------------------
(* Counting the rows of a kind.                                            *)
Places(r, kind) == {i \in DOMAIN r : r[i].kind = kind}

LEMMA PlacesFinite ==
  ASSUME NEW S, NEW r \in Seq(S), NEW kind
  PROVE  IsFiniteSet(Places(r, kind)) /\ Cardinality(Places(r, kind)) \in Nat
<1>1. Len(r) \in Nat /\ Places(r, kind) \subseteq 1 .. Len(r)
  BY DEF Places
<1>2. IsFiniteSet(1 .. Len(r))
  BY <1>1, FS_Interval
<1> QED
  BY <1>1, <1>2, FS_Subset, FS_CardinalityType

LEMMA PlacesAppend ==
  ASSUME NEW S, NEW r \in Seq(S), NEW x \in S, NEW kind
  PROVE  Cardinality(Places(Append(r, x), kind)) =
           Cardinality(Places(r, kind)) + (IF x.kind = kind THEN 1 ELSE 0)
<1> DEFINE n == Len(r)
           q == Append(r, x)
<1>1. /\ n \in Nat /\ DOMAIN r = 1 .. n /\ DOMAIN q = 1 .. n + 1
      /\ q[n + 1] = x /\ \A i \in 1 .. n : q[i] = r[i]
  OBVIOUS
<1>2. IsFiniteSet(Places(r, kind)) /\ Cardinality(Places(r, kind)) \in Nat
  BY PlacesFinite
<1> HIDE DEF n, q
<1>3. n + 1 \notin Places(r, kind)
  BY <1>1 DEF Places
<1>4. CASE x.kind = kind
  <2>1. Places(q, kind) = Places(r, kind) \cup {n + 1}
    BY <1>1, <1>4 DEF Places
  <2>2. Cardinality(Places(q, kind)) = Cardinality(Places(r, kind)) + 1
    BY <2>1, <1>2, <1>3, FS_AddElement
  <2> QED
    BY <1>4, <2>2 DEF q
<1>5. CASE x.kind # kind
  <2>1. Places(q, kind) = Places(r, kind)
    BY <1>1, <1>5 DEF Places
  <2> QED
    BY <1>2, <1>5, <2>1 DEF q
<1> QED
  BY <1>4, <1>5

-----------------------------------------------------------------------------
(* What a message leads to does not depend on anything that changes.       *)
LEMMA SameDecoding ==
  ASSUME available' = available, NEW w
  PROVE  Grammar(w)' = Grammar(w) /\ Dialect(w)' = Dialect(w)
BY DEF Grammar, Dialect, Decodes

LEMMA SameWritten == ASSUME available' = available PROVE Written' = Written
BY DEF Written, MessageRow, Grammar, Decodes, FieldRow

LEMMA GrammarType == ASSUME NEW w PROVE Grammar(w) \in {"din", "iso2", "sap", "none"}
BY DEF Grammar

(* One message row, or a message row and the field row of the same message.*)
LEMMA RowsInv ==
  ASSUME CodecInv, NEW w \in Wire, available' = available,
         NEW logged \in BOOLEAN, logged => Grammar(w) # "none",
         rows' = rows \o Emitted(w, logged),
         stats'.messages = stats.messages + 1,
         stats'.decoded = stats.decoded + (IF logged THEN 1 ELSE 0)
  PROVE  rows' \in Seq(Written) /\ FieldsBesideMessage' /\ StatsMatchTrace'
<1> DEFINE m == MessageRow(w)
           f == FieldRow(w[Grammar(w)])
           n == Len(rows)
<1>1. m \in Written /\ m.kind = "message"
  <2>1. m \in Written
    BY DEF Written
  <2>2. m.kind = "message"
    BY DEF MessageRow
  <2> QED
    BY <2>1, <2>2
<1>2. f \in Written /\ f.kind = "fields"
  <2>1. f \in Written
    BY GrammarType DEF Written
  <2>2. f.kind = "fields"
    BY DEF FieldRow
  <2> QED
    BY <2>1, <2>2
<1>3. logged => f.name = m.name
  BY DEF FieldRow, MessageRow
<1>4. rows' = IF logged THEN Append(Append(rows, m), f) ELSE Append(rows, m)
  <2>1. rows \in Seq(Written)
    BY DEF CodecInv
  <2> HIDE DEF m, f
  <2>2. rows \o <<m>> = Append(rows, m) /\ rows \o <<m, f>> = Append(Append(rows, m), f)
    BY <2>1, <1>1, <1>2
  <2>3. rows' = IF logged THEN rows \o <<m, f>> ELSE rows \o <<m>>
    BY DEF Emitted, m, f
  <2> QED
    BY <2>2, <2>3
<1> HIDE DEF m, f
<1>5. rows \in Seq(Written) /\ Append(rows, m) \in Seq(Written)
      /\ Append(Append(rows, m), f) \in Seq(Written)
  BY <1>1, <1>2 DEF CodecInv
<1>6. rows' \in Seq(Written)
  BY <1>4, <1>5
<1>7. FieldsBesideMessage'
  <2>1. /\ n \in Nat /\ Len(rows') = IF logged THEN n + 2 ELSE n + 1
        /\ rows'[n + 1] = m /\ (logged => rows'[n + 2] = f)
        /\ \A i \in 1 .. n : rows'[i] = rows[i]
    BY <1>1, <1>2, <1>4, <1>5
  <2>2. \A i \in 1 .. n : rows[i].kind = "fields" =>
          i > 1 /\ rows[i - 1].kind = "message" /\ rows[i - 1].name = rows[i].name
    BY DEF CodecInv, FieldsBesideMessage
  <2> HIDE DEF n
  <2>3. ASSUME NEW i \in 1 .. Len(rows'), rows'[i].kind = "fields"
        PROVE  i > 1 /\ rows'[i - 1].kind = "message" /\ rows'[i - 1].name = rows'[i].name
    <3>1. CASE i \in 1 .. n
      <4>1. rows[i].kind = "fields"
        BY <2>1, <2>3, <3>1
      <4>2. i > 1 /\ rows[i - 1].kind = "message" /\ rows[i - 1].name = rows[i].name
        BY <2>2, <3>1, <4>1
      <4>3. i - 1 \in 1 .. n
        BY <2>1, <3>1, <4>2
      <4> QED
        BY <2>1, <3>1, <4>2, <4>3
    <3>2. CASE i = n + 1
      BY <1>1, <2>1, <2>3, <3>2
    <3>3. CASE logged /\ i = n + 2
      <4>1. i - 1 = n + 1 /\ i > 1
        BY <2>1, <3>3
      <4> QED
        BY <1>1, <1>3, <2>1, <3>3, <4>1
    <3> QED
      BY <2>1, <3>1, <3>2, <3>3
  <2> QED
    BY <2>3 DEF FieldsBesideMessage
<1>8. StatsMatchTrace'
  <2>1. RowCount("message")' = Cardinality(Places(rows', "message"))
        /\ RowCount("fields")' = Cardinality(Places(rows', "fields"))
    BY DEF RowCount, Places
  <2>2. stats.messages = Cardinality(Places(rows, "message"))
        /\ stats.decoded = Cardinality(Places(rows, "fields"))
    BY DEF CodecInv, StatsMatchTrace, RowCount, Places
  <2>3. Cardinality(Places(rows, "message")) \in Nat /\ Cardinality(Places(rows, "fields")) \in Nat
    BY <1>5, PlacesFinite
  <2>4. /\ Cardinality(Places(Append(rows, m), "message"))
             = Cardinality(Places(rows, "message")) + 1
        /\ Cardinality(Places(Append(rows, m), "fields"))
             = Cardinality(Places(rows, "fields"))
    BY <1>1, <1>5, <2>3, PlacesAppend
  <2>5. /\ Cardinality(Places(Append(Append(rows, m), f), "message"))
             = Cardinality(Places(rows, "message")) + 1
        /\ Cardinality(Places(Append(Append(rows, m), f), "fields"))
             = Cardinality(Places(rows, "fields")) + 1
    <3>1. ASSUME NEW kind
          PROVE  Cardinality(Places(Append(Append(rows, m), f), kind)) =
                   Cardinality(Places(Append(rows, m), kind))
                     + (IF f.kind = kind THEN 1 ELSE 0)
      <4>1. Append(rows, m) \in Seq(Written) /\ f \in Written
        BY <1>2, <1>5, Zenon
      <4> QED
        BY ONLY <4>1, PlacesAppend, Zenon
    <3> QED
      BY <1>2, <2>3, <2>4, <3>1, SMTT(30)
  <2>6. CASE logged
    BY <1>4, <2>1, <2>2, <2>5, <2>6 DEF StatsMatchTrace
  <2>7. CASE ~logged
    BY <1>4, <2>1, <2>2, <2>3, <2>4, <2>7 DEF StatsMatchTrace
  <2> QED
    BY <2>6, <2>7
<1> QED
  BY <1>6, <1>7, <1>8

(* The first dialect is kept when another message is counted.              *)
LEMMA ProtocolInv ==
  ASSUME CodecInv, ~raised, NEW w \in Wire, available' = available,
         seen' = Append(seen, w),
         stats'.protocol = IF stats.protocol = NoDialect THEN Dialect(w) ELSE stats.protocol,
         NEW k, k = Len(seen')
  PROVE  FirstOf(k)'
<1> DEFINE n == Len(seen)
<1>1. n \in Nat /\ k = n + 1
  <2>1. seen \in Seq(Wire)
    BY DEF CodecInv
  <2> QED
    BY <2>1
<1>2. seen'[k] = w /\ \A i \in 1 .. n : seen'[i] = seen[i]
  <2>1. seen \in Seq(Wire)
    BY DEF CodecInv
  <2> QED
    BY <1>1, <2>1
<1>3. Dialect(seen[k])' = Dialect(w)
  BY <1>2, Zenon DEF Dialect, Grammar, Decodes
<1>4. ASSUME NEW i \in 1 .. n PROVE Dialect(seen[i])' = Dialect(seen[i])
  <2>1. seen'[i] = seen[i]
    BY <1>2
  <2> QED
    BY <2>1, Zenon DEF Dialect, Grammar, Decodes
<1>5. FirstOf(n)
  BY DEF CodecInv
<1> HIDE DEF n
<1>6. \A i \in 1 .. k : i \in 1 .. n \/ i = k
  BY <1>1
<1>7. CASE stats.protocol = NoDialect
  <2>1. \A i \in 1 .. n : Dialect(seen[i])' = NoDialect
    BY <1>4, <1>5, <1>7 DEF FirstOf
  <2>2. stats'.protocol = Dialect(seen[k])'
    BY <1>3, <1>7
  <2>3. CASE stats'.protocol = NoDialect
    BY <1>6, <2>1, <2>2, <2>3 DEF FirstOf
  <2>4. CASE stats'.protocol # NoDialect
    <3>1. ASSUME NEW j \in 1 .. k, Dialect(seen[j])' # NoDialect PROVE k <= j
      <4>1. j \notin 1 .. n
        BY <2>1, <3>1
      <4>2. j = k
        BY <1>6, <4>1
      <4> QED
        BY <1>1, <4>2
    <3>2. k \in 1 .. k
      BY <1>1
    <3> QED
      BY <2>2, <2>4, <3>1, <3>2 DEF FirstOf
  <2> QED
    BY <2>3, <2>4
<1>8. CASE stats.protocol # NoDialect
  <2>1. stats'.protocol = stats.protocol
    BY <1>8
  <2>2. PICK i \in 1 .. n : /\ stats.protocol = Dialect(seen[i])
                            /\ \A j \in 1 .. n : Dialect(seen[j]) # NoDialect => i <= j
    BY <1>5, <1>8 DEF FirstOf
  <2>3. i \in 1 .. k /\ i <= k
    BY <1>1, <2>2
  <2>4. ASSUME NEW j \in 1 .. k, Dialect(seen[j])' # NoDialect PROVE i <= j
    BY <1>4, <1>6, <2>2, <2>3, <2>4
  <2>5. stats'.protocol = Dialect(seen[i])'
    BY <1>4, <2>1, <2>2
  <2> QED
    BY <1>8, <2>1, <2>3, <2>4, <2>5 DEF FirstOf
<1> QED
  BY <1>7, <1>8

LEMMA CodecInitInv == Init => CodecInv
<1> SUFFICES ASSUME Init PROVE CodecInv
  OBVIOUS
<1>1. rows = <<>> /\ seen = <<>> /\ ~raised
      /\ stats = [messages |-> 0, decoded |-> 0, protocol |-> NoDialect]
  BY DEF Init
<1>2. FieldsBesideMessage
  <2>1. Len(rows) = 0
    BY <1>1
  <2> QED
    BY <2>1 DEF FieldsBesideMessage
<1>3. StatsMatchTrace
  <2>1. RowCount("message") = Cardinality({}) /\ RowCount("fields") = Cardinality({})
    <3>1. DOMAIN rows = {}
      BY <1>1
    <3> QED
      BY <3>1 DEF RowCount
  <2> QED
    BY <1>1, <2>1, FS_EmptySet DEF StatsMatchTrace
<1>4. FirstOf(Len(seen))
  <2>1. Len(seen) = 0 /\ stats.protocol = NoDialect
    BY <1>1
  <2> QED
    BY <2>1 DEF FirstOf
<1>5. stats = [messages |-> stats.messages, decoded |-> stats.decoded,
               protocol |-> stats.protocol]
  BY <1>1
<1> QED
  <2>1. rows \in Seq(Written) /\ seen \in Seq(Wire)
    BY <1>1
  <2>2. (IF raised THEN Len(seen) - 1 ELSE Len(seen)) = Len(seen)
    BY <1>1
  <2> QED
    BY <1>2, <1>3, <1>4, <1>5, <2>1, <2>2 DEF CodecInv

(* A message whose on_message returns.                                     *)
LEMMA CountedInv ==
  ASSUME CodecInv, NEW w \in Wire, Arrives(w), NEW logged \in BOOLEAN,
         logged => Grammar(w) # "none",
         rows' = rows \o Emitted(w, logged), stats' = Counted(w, logged), raised' = raised
  PROVE  CodecInv'
<1>1. ~raised /\ available' = available /\ seen' = Append(seen, w)
  BY DEF Arrives
<1>2. /\ stats'.messages = stats.messages + 1
      /\ stats'.decoded = stats.decoded + (IF logged THEN 1 ELSE 0)
      /\ stats'.protocol = IF stats.protocol = NoDialect THEN Dialect(w) ELSE stats.protocol
      /\ stats' = [messages |-> stats'.messages, decoded |-> stats'.decoded,
                   protocol |-> stats'.protocol]
  BY DEF Counted
<1>3. rows' \in Seq(Written) /\ FieldsBesideMessage' /\ StatsMatchTrace'
  BY <1>1, <1>2, RowsInv
<1>4. rows' \in Seq(Written')
  BY <1>1, <1>3, SameWritten
<1>5. FirstOf(IF raised THEN Len(seen) - 1 ELSE Len(seen))'
  <2>1. PICK k : k = Len(seen')
    OBVIOUS
  <2>2. FirstOf(k)'
    BY <1>1, <1>2, <2>1, ProtocolInv
  <2>3. (IF raised' THEN Len(seen') - 1 ELSE Len(seen')) = k
    BY <1>1, <2>1
  <2> QED
    BY <2>2, <2>3 DEF FirstOf
<1>6. seen' \in Seq(Wire)
  BY <1>1 DEF CodecInv
<1> QED
  BY <1>2, <1>3, <1>4, <1>5, <1>6 DEF CodecInv

(* A message whose field row is refused.                                   *)
LEMMA RefusedInv ==
  ASSUME CodecInv, NEW w \in Wire, RefusedMessage(w) PROVE CodecInv'
<1>1. /\ ~raised /\ available' = available /\ seen' = Append(seen, w) /\ raised'
      /\ rows' = rows \o Emitted(w, FALSE)
  BY DEF RefusedMessage, Arrives
<1>2. /\ stats' = [stats EXCEPT !.messages = stats.messages + 1]
      /\ stats = [messages |-> stats.messages, decoded |-> stats.decoded,
                  protocol |-> stats.protocol]
  BY DEF RefusedMessage, CodecInv
<1>3. /\ stats'.messages = stats.messages + 1
      /\ stats'.decoded = stats.decoded
      /\ stats'.protocol = stats.protocol
      /\ stats' = [messages |-> stats'.messages, decoded |-> stats'.decoded,
                   protocol |-> stats'.protocol]
  BY <1>2
<1>4. stats'.decoded = stats.decoded + 0
  <2>1. stats.decoded \in Nat
    <3>1. rows \in Seq(Written) /\ stats.decoded = Cardinality(Places(rows, "fields"))
      BY DEF CodecInv, StatsMatchTrace, RowCount, Places
    <3> QED
      BY <3>1, PlacesFinite
  <2> QED
    BY <1>3, <2>1
<1>5. rows' \in Seq(Written) /\ FieldsBesideMessage' /\ StatsMatchTrace'
  BY <1>1, <1>3, <1>4, RowsInv
<1>6. rows' \in Seq(Written')
  BY <1>1, <1>5, SameWritten
<1>7. FirstOf(IF raised THEN Len(seen) - 1 ELSE Len(seen))'
  <2> DEFINE n == Len(seen)
  <2>1. n \in Nat /\ Len(seen') - 1 = n /\ \A i \in 1 .. n : seen'[i] = seen[i]
    BY <1>1 DEF CodecInv
  <2>2. FirstOf(n)
    BY <1>1 DEF CodecInv
  <2>3. ASSUME NEW i \in 1 .. n PROVE Dialect(seen[i])' = Dialect(seen[i])
    <3>1. seen'[i] = seen[i]
      BY <2>1
    <3> QED
      BY <1>1, <3>1, Zenon DEF Dialect, Grammar, Decodes
  <2>4. (IF raised' THEN Len(seen') - 1 ELSE Len(seen')) = n
    BY <1>1, <2>1
  <2> HIDE DEF n
  <2> QED
    BY <1>3, <2>2, <2>3, <2>4 DEF FirstOf
<1>8. seen' \in Seq(Wire)
  BY <1>1 DEF CodecInv
<1> QED
  BY <1>3, <1>5, <1>6, <1>7, <1>8 DEF CodecInv

-----------------------------------------------------------------------------
(* Every step keeps the invariant, and it holds in every execution.        *)
LEMMA CodecStep == CodecInv /\ [Next]_vars => CodecInv'
<1> SUFFICES ASSUME CodecInv, [Next]_vars PROVE CodecInv'
  OBVIOUS
<1>1. CASE UNCHANGED vars
  <2>1. UNCHANGED <<available, rows, stats, raised, seen>>
    BY <1>1 DEF vars
  <2>2. Written' = Written
    BY <2>1, SameWritten
  <2>3. FirstOf(IF raised THEN Len(seen) - 1 ELSE Len(seen))'
    <3> DEFINE n == IF raised THEN Len(seen) - 1 ELSE Len(seen)
    <3>1. n' = n /\ FirstOf(n)
      BY <2>1 DEF CodecInv
    <3>2. ASSUME NEW i PROVE Dialect(seen[i])' = Dialect(seen[i])
      BY <2>1, Zenon DEF Dialect, Grammar, Decodes
    <3>3. (IF raised' THEN Len(seen') - 1 ELSE Len(seen')) = n
      BY <2>1
    <3> HIDE DEF n
    <3> QED
      BY <2>1, <3>1, <3>2, <3>3 DEF FirstOf
  <2>4. FieldsBesideMessage' /\ StatsMatchTrace'
    BY <2>1 DEF CodecInv, FieldsBesideMessage, StatsMatchTrace, RowCount
  <2> QED
    BY <2>1, <2>2, <2>3, <2>4 DEF CodecInv
<1>2. ASSUME NEW w \in Wire, RawMessage(w) PROVE CodecInv'
  BY <1>2, CountedInv DEF RawMessage
<1>3. ASSUME NEW w \in Wire, DecodedMessage(w) PROVE CodecInv'
  BY <1>3, CountedInv DEF DecodedMessage
<1>4. ASSUME NEW w \in Wire, RefusedMessage(w) PROVE CodecInv'
  BY <1>4, RefusedInv
<1> QED
  BY <1>1, <1>2, <1>3, <1>4 DEF Next

(* Rows, counts and the reported protocol agree at every point, also where *)
(* a refused row ends the handling of a message half way.                  *)
THEOREM CodecInvariant == Spec => []CodecInv
BY CodecStep, CodecInitInv, PTL DEF Spec

(* A field row is right behind the row of its own message.                 *)
THEOREM FieldsAlwaysBesideMessage == Spec => []FieldsBesideMessage
<1>1. CodecInv => FieldsBesideMessage
  BY DEF CodecInv
<1> QED
  BY <1>1, CodecInvariant, PTL

(* The statistics count the rows, also when a row was refused.             *)
THEOREM StatsAlwaysMatchTrace == Spec => []StatsMatchTrace
<1>1. CodecInv => StatsMatchTrace
  BY DEF CodecInv
<1> QED
  BY <1>1, CodecInvariant, PTL

(* The protocol reported is that of the first message that has one.        *)
THEOREM ProtocolAlwaysFirst == Spec => []ProtocolIsFirst
<1>1. CodecInv => ProtocolIsFirst
  <2> SUFFICES ASSUME CodecInv PROVE ProtocolIsFirst
    OBVIOUS
  <2> DEFINE n == IF raised THEN Len(seen) - 1 ELSE Len(seen)
             known == {i \in Handled : Dialect(seen[i]) # NoDialect}
  <2>1. FirstOf(n) /\ Handled = 1 .. n
    BY DEF CodecInv, Handled
  <2>2. known = {i \in 1 .. n : Dialect(seen[i]) # NoDialect}
    BY <2>1
  <2> HIDE DEF n
  <2>3. CASE stats.protocol = NoDialect
    <3>1. known = {}
      BY <2>1, <2>2, <2>3 DEF FirstOf
    <3> QED
      BY <2>3, <3>1 DEF ProtocolIsFirst
  <2>4. CASE stats.protocol # NoDialect
    <3>1. PICK i \in 1 .. n : /\ stats.protocol = Dialect(seen[i])
                              /\ \A j \in 1 .. n : Dialect(seen[j]) # NoDialect => i <= j
      BY <2>1, <2>4 DEF FirstOf
    <3>2. i \in known /\ \A j \in known : i <= j
      BY <2>2, <2>4, <3>1
    <3> QED
      BY <2>4, <3>1, <3>2 DEF ProtocolIsFirst
  <2> QED
    BY <2>3, <2>4
<1> QED
  BY <1>1, CodecInvariant, PTL

-----------------------------------------------------------------------------
(* Every field that the native decoders print has a type and a unit.       *)
LEMMA TelemetryMapped ==
  ASSUME NEW t \in DOMAIN Telemetry PROVE Telemetry[t] \subseteq FieldMeta
BY DEF Telemetry, FieldMeta

LEMMA ParametersMapped ==
  ASSUME NEW t \in DOMAIN ChargeParameters, NEW fs \in ChargeParameters[t]
  PROVE  fs \subseteq FieldMeta
<1>1. CASE t = "ChargeParameterDiscoveryReq"
  <2>1. fs \in {{"requested_energy_transfer"}} \cup
               {{"requested_energy_transfer"} \cup EvLimits \cup opt : opt \in SUBSET EvOptional}
    BY <1>1 DEF ChargeParameters
  <2>2. fs \subseteq {"requested_energy_transfer"} \cup EvLimits \cup EvOptional
    BY <2>1, Zenon
  <2> QED
    BY <2>2 DEF EvLimits, EvOptional, FieldMeta
<1>2. CASE t = "ChargeParameterDiscoveryRes"
  <2>1. fs \subseteq {"response_code", "evse_processing"} \cup EvseLimits
    BY <1>2 DEF ChargeParameters
  <2> QED
    BY <2>1 DEF EvseLimits, FieldMeta
<1> QED
  BY <1>1, <1>2 DEF ChargeParameters

LEMMA FieldSetsMapped ==
  ASSUME NEW bare, NEW coded, NEW t \in DOMAIN FieldSets(bare, coded),
         NEW fs \in FieldSets(bare, coded)[t]
  PROVE  fs \subseteq FieldMeta
<1>1. CASE t \in bare
  BY <1>1 DEF FieldSets
<1>2. CASE t \notin bare /\ t \in coded
  <2>1. fs = {"response_code"}
    BY <1>2 DEF FieldSets
  <2> QED
    BY <2>1 DEF FieldMeta
<1>3. CASE t \notin bare /\ t \notin coded /\ t \in DOMAIN Telemetry
  BY <1>3, TelemetryMapped DEF FieldSets
<1>4. CASE t \notin bare /\ t \notin coded /\ t \notin DOMAIN Telemetry
  <2>1. t \in DOMAIN ChargeParameters /\ fs \in ChargeParameters[t]
    BY <1>4 DEF FieldSets
  <2> QED
    BY <2>1, ParametersMapped
<1> QED
  BY <1>1, <1>2, <1>3, <1>4

LEMMA PrintedIsMapped ==
  ASSUME NEW g \in DOMAIN Prints, NEW t \in DOMAIN Prints[g], NEW fs \in Prints[g][t]
  PROVE  fs \subseteq FieldMeta
<1>1. g \in {"din", "iso2", "sap"}
  BY DEF Prints
<1>2. ASSUME NEW prints, NEW sets,
             \A u \in DOMAIN prints : \A f \in prints[u] : f \subseteq FieldMeta,
             \A f \in sets : f \subseteq FieldMeta,
             t \in DOMAIN WithSetupRes(prints, sets), fs \in WithSetupRes(prints, sets)[t]
      PROVE  fs \subseteq FieldMeta
  BY <1>2 DEF WithSetupRes
<1>3. CASE g = "din"
  <2> DEFINE sets == {{"response_code", "evse_id", "datetime_now"}}
             prints == FieldSets(Bare \cup {"ServicePaymentSelectionReq", "ContractAuthenticationReq"},
                         CodeOnly \cup {"ServicePaymentSelectionRes", "ContractAuthenticationRes"})
  <2>1. \A f \in sets : f \subseteq FieldMeta
    BY DEF FieldMeta
  <2>2. \A u \in DOMAIN prints : \A f \in prints[u] : f \subseteq FieldMeta
    BY FieldSetsMapped
  <2>3. Prints[g] = WithSetupRes(prints, sets)
    BY <1>3 DEF Prints, DinPrints
  <2> HIDE DEF sets, prints
  <2> QED
    BY <1>2, <2>1, <2>2, <2>3
<1>4. CASE g = "iso2"
  <2> DEFINE sets == {{"response_code", "evse_id"}, {"response_code", "evse_id", "datetime_now"}}
             prints == FieldSets(Bare \cup {"PaymentServiceSelectionReq", "AuthorizationReq", "ChargingStatusReq"},
                         CodeOnly \cup {"PaymentServiceSelectionRes", "AuthorizationRes", "ChargingStatusRes"})
  <2>1. \A f \in sets : f \subseteq FieldMeta
    BY DEF FieldMeta
  <2>2. \A u \in DOMAIN prints : \A f \in prints[u] : f \subseteq FieldMeta
    BY FieldSetsMapped
  <2>3. Prints[g] = WithSetupRes(prints, sets)
    BY <1>4 DEF Prints, IsoPrints
  <2> HIDE DEF sets, prints
  <2> QED
    BY <1>2, <2>1, <2>2, <2>3
<1>5. CASE g = "sap"
  <2>1. Prints[g] = SapPrints
    BY <1>5 DEF Prints
  <2>2. ASSUME NEW u \in DOMAIN SapPrints, NEW f \in SapPrints[u] PROVE f \subseteq FieldMeta
    BY DEF SapPrints, SapOffer, FieldMeta
  <2> QED
    BY <2>1, <2>2
<1> QED
  BY <1>1, <1>3, <1>4, <1>5

-----------------------------------------------------------------------------
(* How many message rows are among the first k rows of r.                  *)
RankIn(r, k) == Cardinality({i \in 1 .. k : r[i].kind = "message"})

(* Every message row of r is named and filled after its message in s.      *)
Timeline(r, s) ==
  \A k \in 1 .. Len(r) :
    r[k].kind = "message" =>
      /\ RankIn(r, k) \in 1 .. Len(s)
      /\ r[k].fields = Layer1.message
      /\ r[k].name \in {"(exi)"} \cup {s[RankIn(r, k)][g].msg : g \in DOMAIN s[RankIn(r, k)]}

(* Message i has a field row in r.                                         *)
Logged(r, i) == \E k \in 1 .. Len(r) : r[k].kind = "fields" /\ RankIn(r, k) = i

(* The messages of which something must be logged.                         *)
Telling(w) == /\ \E g \in DOMAIN w : Decodes(w, g)
              /\ \A g \in DOMAIN w : w[g].fields # {}

TimelineInv ==
  /\ CodecInv
  /\ \A t \in DOMAIN Layer1 : t \in DOMAIN schema /\ schema[t] = Layer1[t]
  /\ RankIn(rows, Len(rows)) = Len(seen)
  /\ Timeline(rows, seen)
  /\ \A i \in 1 .. (IF raised THEN Len(seen) - 1 ELSE Len(seen)) :
       Telling(seen[i]) => Logged(rows, i)

LEMMA RankSame ==
  ASSUME NEW r, NEW q, NEW n \in Nat, \A i \in 1 .. n : q[i] = r[i],
         NEW k \in 0 .. n
  PROVE  RankIn(q, k) = RankIn(r, k)
<1>1. {i \in 1 .. k : q[i].kind = "message"} = {i \in 1 .. k : r[i].kind = "message"}
  OBVIOUS
<1> QED
  BY <1>1 DEF RankIn

LEMMA RankNext ==
  ASSUME NEW r, NEW k \in Nat
  PROVE  /\ RankIn(r, k) \in Nat
         /\ RankIn(r, k + 1) = RankIn(r, k) + (IF r[k + 1].kind = "message" THEN 1 ELSE 0)
<1> DEFINE P(j) == {i \in 1 .. j : r[i].kind = "message"}
<1>1. IsFiniteSet(P(k)) /\ Cardinality(P(k)) \in Nat
  <2>1. IsFiniteSet(1 .. k) /\ P(k) \subseteq 1 .. k
    BY FS_Interval
  <2> QED
    BY <2>1, FS_Subset, FS_CardinalityType
<1>2. CASE r[k + 1].kind = "message"
  <2>1. P(k + 1) = P(k) \cup {k + 1} /\ k + 1 \notin P(k)
    BY <1>2
  <2>2. Cardinality(P(k + 1)) = Cardinality(P(k)) + 1
    BY <1>1, <2>1, FS_AddElement
  <2> QED
    BY <1>1, <1>2, <2>2 DEF RankIn
<1>3. CASE r[k + 1].kind # "message"
  <2>1. P(k + 1) = P(k)
    BY <1>3
  <2> QED
    BY <1>1, <1>3, <2>1 DEF RankIn
<1> QED
  BY <1>2, <1>3

WithRows(r, m, f, logged) == IF logged THEN Append(Append(r, m), f) ELSE Append(r, m)

NamedAfter(m, w) == m.name \in {"(exi)"} \cup {w[g].msg : g \in DOMAIN w}

(* The row of a message, and perhaps its field row, keep the timeline.     *)
LEMMA TimelineGrows ==
  ASSUME NEW r \in Seq(Written), NEW m \in Written, NEW f \in Written,
         NEW logged \in BOOLEAN, NEW s \in Seq(Wire), NEW w \in Wire,
         m.kind = "message", f.kind = "fields", m.fields = Layer1.message,
         NamedAfter(m, w), RankIn(r, Len(r)) = Len(s), Timeline(r, s)
  PROVE  LET q == WithRows(r, m, f, logged)
             z == Append(s, w)
         IN  /\ RankIn(q, Len(q)) = Len(z)
             /\ Timeline(q, z)
             /\ logged => Logged(q, Len(z))
             /\ \A i : Logged(r, i) => Logged(q, i)
<1> PICK n, c, q, z : /\ n = Len(r) /\ c = Len(s)
                      /\ q = WithRows(r, m, f, logged) /\ z = Append(s, w)
  OBVIOUS
<1>1. /\ n \in Nat /\ Len(q) = IF logged THEN n + 2 ELSE n + 1
      /\ q[n + 1] = m /\ (logged => q[n + 2] = f)
      /\ \A i \in 1 .. n : q[i] = r[i]
  <2>1. CASE logged
    <3>1. q = Append(Append(r, m), f)
      BY <2>1 DEF WithRows
    <3>0. Append(r, m) \in Seq(Written)
      OBVIOUS
    <3> PICK a \in Seq(Written) : a = Append(r, m)
      BY <3>0, Zenon
    <3>2. n \in Nat /\ Len(a) = n + 1 /\ a[n + 1] = m /\ \A i \in 1 .. n : a[i] = r[i]
      OBVIOUS
    <3>3. /\ Len(q) = n + 2 /\ q[n + 2] = f
          /\ \A i \in 1 .. n + 1 : q[i] = a[i]
      BY <3>1, <3>2
    <3>4. q[n + 1] = m /\ \A i \in 1 .. n : q[i] = r[i]
      <4>1. n + 1 \in 1 .. n + 1 /\ \A i \in 1 .. n : i \in 1 .. n + 1
        BY <3>2
      <4> QED
        BY <3>2, <3>3, <4>1, Zenon
    <3> QED
      BY <2>1, <3>2, <3>3, <3>4, Zenon
  <2>2. CASE ~logged
    <3>1. q = Append(r, m)
      BY <2>2 DEF WithRows
    <3> QED
      BY <2>2, <3>1
  <2> QED
    BY <2>1, <2>2
<1>2. c \in Nat /\ Len(z) = c + 1 /\ z[c + 1] = w /\ \A i \in 1 .. c : z[i] = s[i]
  <2>1. z = Append(s, w)
    OBVIOUS
  <2> QED
    BY <2>1
<1>3. \A k \in 0 .. n : RankIn(q, k) = RankIn(r, k)
  BY <1>1, RankSame
<1>4. RankIn(q, n) = c
  BY <1>1, <1>3
<1>5. RankIn(q, n + 1) = c + 1
  <2>1. RankIn(q, n + 1) = RankIn(q, n) + (IF q[n + 1].kind = "message" THEN 1 ELSE 0)
    BY <1>1, RankNext
  <2> QED
    BY <1>1, <1>2, <1>4, <2>1
<1>6. logged => RankIn(q, n + 2) = c + 1
  <2>1. n + 1 \in Nat /\ (n + 1) + 1 = n + 2
    BY <1>1
  <2>2. RankIn(q, (n + 1) + 1) =
          RankIn(q, n + 1) + (IF q[(n + 1) + 1].kind = "message" THEN 1 ELSE 0)
    BY <2>1, RankNext
  <2>3. ASSUME logged PROVE RankIn(q, n + 2) = c + 1
    <3>1. q[n + 2].kind # "message"
      BY <1>1, <2>3
    <3>2. RankIn(q, n + 2) = RankIn(q, n + 1) + 0
      BY <2>1, <2>2, <3>1
    <3> QED
      BY <1>2, <1>5, <3>2
  <2> QED
    BY <2>3
<1>7. RankIn(q, Len(q)) = Len(z)
  BY <1>1, <1>2, <1>5, <1>6
<1>8. Timeline(q, z)
  <2>1. ASSUME NEW k \in 1 .. Len(q), q[k].kind = "message"
        PROVE  /\ RankIn(q, k) \in 1 .. Len(z)
               /\ q[k].fields = Layer1.message
               /\ q[k].name \in {"(exi)"} \cup
                    {z[RankIn(q, k)][g].msg : g \in DOMAIN z[RankIn(q, k)]}
    <3>1. CASE k \in 1 .. n
      <4>1. q[k] = r[k] /\ RankIn(q, k) = RankIn(r, k)
        BY <1>1, <1>3, <3>1
      <4>2. /\ RankIn(r, k) \in 1 .. c
            /\ r[k].fields = Layer1.message
            /\ r[k].name \in {"(exi)"} \cup
                 {s[RankIn(r, k)][g].msg : g \in DOMAIN s[RankIn(r, k)]}
        BY <2>1, <3>1, <4>1 DEF Timeline
      <4>3. z[RankIn(r, k)] = s[RankIn(r, k)]
        BY <1>2, <4>2
      <4>4. RankIn(q, k) \in 1 .. Len(z)
        BY <1>2, <4>1, <4>2
      <4> QED
        BY <4>1, <4>2, <4>3, <4>4, Zenon
    <3>2. CASE k = n + 1
      <4>1. q[k] = m /\ RankIn(q, k) = c + 1 /\ z[RankIn(q, k)] = w
        BY <1>1, <1>2, <1>5, <3>2
      <4>2. RankIn(q, k) \in 1 .. Len(z)
        BY <1>2, <4>1
      <4> QED
        BY <4>1, <4>2, Zenon DEF NamedAfter
    <3>3. k \in 1 .. n \/ k = n + 1
      <4>1. CASE logged /\ k = n + 2
        BY <1>1, <2>1, <4>1
      <4> QED
        BY <1>1, <4>1
    <3> QED
      BY <3>1, <3>2, <3>3
  <2> QED
    BY <2>1, Zenon DEF Timeline
<1>9. ASSUME logged PROVE Logged(q, Len(z))
  <2>1. n \in Nat /\ Len(q) = n + 2 /\ q[n + 2].kind = "fields"
    BY <1>1, <1>9, Zenon
  <2>2. RankIn(q, n + 2) = Len(z)
    BY <1>2, <1>6, <1>9, Zenon
  <2>3. n + 2 \in 1 .. Len(q)
    BY <2>1
  <2> QED
    BY <2>1, <2>2, <2>3, Zenon DEF Logged
<1>10. ASSUME NEW i, Logged(r, i) PROVE Logged(q, i)
  <2>1. PICK k \in 1 .. n : r[k].kind = "fields" /\ RankIn(r, k) = i
    BY <1>10 DEF Logged
  <2>2. k \in 1 .. Len(q) /\ q[k] = r[k] /\ RankIn(q, k) = RankIn(r, k)
    BY <1>1, <1>3
  <2> QED
    BY <2>1, <2>2 DEF Logged
<1> QED
  BY <1>7, <1>8, <1>9, <1>10, Zenon

(* A message that decodes to something with fields has an event.           *)
LEMMA TellingHasEvent ==
  ASSUME NEW w \in Wire, Telling(w)
  PROVE  Grammar(w) # "none" /\ HasEvent(w[Grammar(w)])
<1>1. DOMAIN w \subseteq {"din", "iso2", "sap"} /\ DOMAIN w \subseteq DOMAIN Prints
  <2>1. DOMAIN Prints = {"din", "iso2", "sap"}
    BY DEF Prints
  <2> QED
    BY <2>1, WireAssumption
<1>2. Grammar(w) # "none"
  BY <1>1 DEF Telling, Grammar
<1>3. Grammar(w) \in DOMAIN w
  BY <1>2 DEF Grammar, Decodes
<1> PICK g \in DOMAIN w : g = Grammar(w)
  BY <1>3
<1>4. w[g].msg \in DOMAIN Prints[g] /\ w[g].fields \in Prints[g][w[g].msg]
  BY WireAssumption DEF IsDoc
<1>5. w[g].fields \subseteq FieldMeta
  BY <1>1, <1>4, PrintedIsMapped
<1>6. w[g].fields # {}
  BY DEF Telling
<1> QED
  BY <1>2, <1>5, <1>6 DEF HasEvent, Columns

(* What holds of every message's rows holds after one more message.        *)
LEMMA TimelineStep ==
  ASSUME TimelineInv, NEW w \in Wire, Arrives(w), NEW logged \in BOOLEAN,
         logged => Grammar(w) # "none",
         rows' = rows \o Emitted(w, logged),
         \A t \in DOMAIN Layer1 : t \in DOMAIN schema' /\ schema'[t] = schema[t],
         Telling(w) => logged \/ raised',
         CodecInv'
  PROVE  TimelineInv'
<1> PICK m, f, q, z : /\ m = MessageRow(w) /\ f = FieldRow(w[Grammar(w)])
                      /\ q = rows' /\ z = seen'
  OBVIOUS
<1>1. m \in Written /\ f \in Written
  BY GrammarType DEF Written
<1>2. m.kind = "message" /\ f.kind = "fields" /\ m.fields = Layer1.message
  BY DEF MessageRow, FieldRow, Layer1
<1>3. NamedAfter(m, w)
  <2>1. CASE Grammar(w) = "none"
    BY <2>1 DEF MessageRow, NamedAfter
  <2>2. CASE Grammar(w) # "none"
    <3>1. Grammar(w) \in DOMAIN w
      BY <2>2 DEF Grammar, Decodes
    <3>2. m.name = w[Grammar(w)].msg
      BY <2>2 DEF MessageRow
    <3> QED
      BY <3>1, <3>2 DEF NamedAfter
  <2> QED
    BY <2>1, <2>2
<1>4. rows \in Seq(Written) /\ seen \in Seq(Wire)
  BY DEF TimelineInv, CodecInv
<1>5. q = WithRows(rows, m, f, logged)
  <2>1. rows \o <<m>> = Append(rows, m) /\ rows \o <<m, f>> = Append(Append(rows, m), f)
    BY <1>1, <1>4
  <2> QED
    BY <2>1 DEF Emitted, WithRows
<1>6. z = Append(seen, w) /\ ~raised /\ available' = available
  BY DEF Arrives
<1>7. RankIn(rows, Len(rows)) = Len(seen) /\ Timeline(rows, seen)
  BY DEF TimelineInv
<1>8. /\ RankIn(q, Len(q)) = Len(z)
      /\ Timeline(q, z)
      /\ logged => Logged(q, Len(z))
      /\ \A i : Logged(rows, i) => Logged(q, i)
  BY <1>1, <1>2, <1>3, <1>4, <1>5, <1>6, <1>7, TimelineGrows
<1>9. ASSUME NEW i \in 1 .. (IF raised' THEN Len(z) - 1 ELSE Len(z)), Telling(z[i])'
      PROVE  Logged(q, i)
  <2>1. /\ Len(seen) \in Nat /\ Len(z) = Len(seen) + 1 /\ z[Len(z)] = w
        /\ \A j \in 1 .. Len(seen) : z[j] = seen[j]
    <3>1. z = Append(seen, w)
      BY <1>6
    <3> QED
      BY <1>4, <3>1
  <2>2. Telling(z[i])
    BY <1>6, <1>9 DEF Telling, Decodes
  <2>3. CASE i \in 1 .. Len(seen)
    <3>1. Telling(seen[i])
      BY <2>1, <2>2, <2>3, Zenon
    <3>2. Logged(rows, i)
      BY <1>6, <2>3, <3>1 DEF TimelineInv
    <3> QED
      BY <1>8, <3>2
  <2>4. CASE i \notin 1 .. Len(seen)
    <3>1. i = Len(z) /\ ~raised'
      BY <1>9, <2>1, <2>4
    <3>2. Telling(w)
      BY <2>1, <2>2, <3>1, Zenon
    <3> QED
      BY <1>8, <3>1, <3>2
  <2> QED
    BY <2>3, <2>4
<1>10. \A t \in DOMAIN Layer1 : t \in DOMAIN schema' /\ schema'[t] = Layer1[t]
  BY DEF TimelineInv
<1> QED
  BY <1>8, <1>9, <1>10 DEF TimelineInv

LEMMA TimelineInit == Init => TimelineInv
<1> SUFFICES ASSUME Init PROVE TimelineInv
  OBVIOUS
<1>1. rows = <<>> /\ seen = <<>> /\ schema = Layer1 /\ ~raised
  BY DEF Init
<1>2. Len(rows) = 0 /\ Len(seen) = 0
  BY <1>1
<1>3. RankIn(rows, 0) = 0
  <2>1. {i \in 1 .. 0 : rows[i].kind = "message"} = {}
    OBVIOUS
  <2> QED
    BY <2>1, FS_EmptySet DEF RankIn
<1> QED
  BY <1>1, <1>2, <1>3, CodecInitInv DEF TimelineInv, Timeline

(* The timeline is complete in every execution.                            *)
THEOREM TimelineInvariant == Spec => []TimelineInv
<1>1. TimelineInv /\ [Next]_vars => TimelineInv'
  <2> SUFFICES ASSUME TimelineInv, [Next]_vars PROVE TimelineInv'
    OBVIOUS
  <2>0. CodecInv'
    BY CodecStep DEF TimelineInv
  <2>1. CASE UNCHANGED vars
    <3>1. UNCHANGED <<available, schema, rows, raised, seen>>
      BY <2>1 DEF vars
    <3>2. ASSUME NEW i PROVE Telling(seen[i])' = Telling(seen[i])
      BY <3>1, Zenon DEF Telling, Decodes
    <3> QED
      BY <2>0, <3>1, <3>2 DEF TimelineInv
  <2>2. ASSUME NEW w \in Wire, RawMessage(w) PROVE TimelineInv'
    <3>1. /\ Arrives(w) /\ rows' = rows \o Emitted(w, FALSE) /\ schema' = schema
          /\ Grammar(w) = "none" \/ ~HasEvent(w[Grammar(w)])
      BY <2>2 DEF RawMessage
    <3>2. ~Telling(w)
      BY <3>1, TellingHasEvent
    <3>3. \A t \in DOMAIN Layer1 : t \in DOMAIN schema' /\ schema'[t] = schema[t]
      BY <3>1 DEF TimelineInv
    <3> QED
      BY <2>0, <3>1, <3>2, <3>3, TimelineStep
  <2>3. ASSUME NEW d PROVE \A t \in DOMAIN Layer1 :
                             t \in DOMAIN Register(d) /\ Register(d)[t] = schema[t]
    BY DEF TimelineInv, Register
  <2>4. ASSUME NEW w \in Wire, DecodedMessage(w) PROVE TimelineInv'
    <3>1. /\ Arrives(w) /\ rows' = rows \o Emitted(w, TRUE) /\ Grammar(w) # "none"
          /\ schema' = Register(w[Grammar(w)])
      BY <2>4 DEF DecodedMessage
    <3> QED
      BY <2>0, <2>3, <3>1, TimelineStep
  <2>5. ASSUME NEW w \in Wire, RefusedMessage(w) PROVE TimelineInv'
    <3>1. /\ Arrives(w) /\ rows' = rows \o Emitted(w, FALSE) /\ raised'
          /\ schema' = Register(w[Grammar(w)])
      BY <2>5 DEF RefusedMessage
    <3> QED
      BY <2>0, <2>3, <3>1, TimelineStep
  <2> QED
    BY <2>1, <2>2, <2>4, <2>5 DEF Next
<1> QED
  BY <1>1, TimelineInit, PTL DEF Spec

(* Every message has its raw row, in order, under its own name.            *)
THEOREM EveryMessageAlwaysOnTimeline == Spec => []EveryMessageOnTimeline
<1>1. TimelineInv => EveryMessageOnTimeline
  <2> SUFFICES ASSUME TimelineInv PROVE EveryMessageOnTimeline
    OBVIOUS
  <2>1. DOMAIN rows = 1 .. Len(rows)
    BY DEF TimelineInv, CodecInv
  <2>2. RowCount("message") = Len(seen)
    BY <2>1 DEF TimelineInv, RowCount, RankIn
  <2>3. ASSUME NEW k PROVE Rank(k) = RankIn(rows, k)
    BY DEF Rank, RankIn
  <2>4. schema.message = Layer1.message
    BY DEF TimelineInv, Layer1
  <2> QED
    BY <2>2, <2>3, <2>4, Zenon DEF TimelineInv, Timeline, EveryMessageOnTimeline
<1> QED
  BY <1>1, TimelineInvariant, PTL

(* Whatever some decoder understands is logged.                            *)
THEOREM DecodedAlwaysLogged == Spec => []DecodedIsLogged
<1>1. TimelineInv => DecodedIsLogged
  <2> SUFFICES ASSUME TimelineInv PROVE DecodedIsLogged
    OBVIOUS
  <2>1. ASSUME NEW k PROVE Rank(k) = RankIn(rows, k)
    BY DEF Rank, RankIn
  <2>2. ASSUME NEW i \in Handled, Telling(seen[i])
        PROVE  \E k \in 1 .. Len(rows) : rows[k].kind = "fields" /\ Rank(k) = i
    <3>1. Logged(rows, i)
      BY <2>2, Zenon DEF TimelineInv, Handled
    <3> QED
      BY <2>1, <3>1 DEF Logged
  <2> QED
    BY <2>2, Zenon DEF DecodedIsLogged, Telling
<1> QED
  BY <1>1, TimelineInvariant, PTL

-----------------------------------------------------------------------------
(* The types: what is printed has a name, what is logged has columns.      *)

(* What a decoder found is a document of its grammar.                      *)
LEMMA FoundIsDoc ==
  ASSUME NEW w \in Wire, Grammar(w) # "none"
  PROVE  w[Grammar(w)].msg \in Names
<1>1. Grammar(w) \in DOMAIN w
  BY DEF Grammar, Decodes
<1> PICK g \in DOMAIN w : g = Grammar(w)
  BY <1>1
<1>2. g \in DOMAIN Prints /\ w[g].msg \in DOMAIN Prints[g]
  BY WireAssumption DEF IsDoc
<1> QED
  BY <1>2 DEF Names

LEMMA DialectType == ASSUME NEW w \in Wire PROVE Dialect(w) \in Dialects
<1>1. ASSUME NEW ns PROVE Label(ns) \in {"DIN 70121", "ISO 15118-2", ns}
  BY Zenon DEF Label
<1>2. CASE Grammar(w) = "din"
  <2>1. Dialect(w) = "DIN 70121"
    BY <1>2, Zenon DEF Dialect
  <2> QED
    BY <2>1 DEF Dialects
<1>3. CASE Grammar(w) = "iso2"
  <2>1. Dialect(w) = "ISO 15118-2"
    BY <1>3, Zenon DEF Dialect
  <2> QED
    BY <2>1 DEF Dialects
<1>4. CASE Grammar(w) = "sap" /\ w["sap"].offers # <<>>
  <2>1. Dialect(w) = Label(w["sap"].offers[1])
    BY <1>4, Zenon DEF Dialect
  <2>2. w \in Offering
    BY <1>4 DEF Offering, Grammar, Decodes
  <2> QED
    BY <1>1, <2>1, <2>2 DEF Dialects
<1>5. CASE Grammar(w) = "none" \/ (Grammar(w) = "sap" /\ w["sap"].offers = <<>>)
  <2>1. Dialect(w) = NoDialect
    BY <1>5, Zenon DEF Dialect
  <2> QED
    BY <2>1 DEF Dialects
<1> QED
  BY <1>2, <1>3, <1>4, <1>5, GrammarType

RowType == [kind : {"message", "fields"}, name : Names,
            fields : SUBSET (FieldMeta \cup Layer1.message)]

LEMMA RowTypes ==
  ASSUME NEW w \in Wire
  PROVE  /\ MessageRow(w) \in RowType
         /\ Grammar(w) # "none" => FieldRow(w[Grammar(w)]) \in RowType
<1>1. MessageRow(w) \in RowType
  <2>1. (IF Grammar(w) = "none" THEN "(exi)" ELSE w[Grammar(w)].msg) \in Names
    BY FoundIsDoc DEF Names
  <2>2. {"index", "direction", "payload_type", "length", "name", "exi"} = Layer1.message
    BY DEF Layer1
  <2> QED
    BY <2>1, <2>2, Zenon DEF MessageRow, RowType
<1>2. ASSUME Grammar(w) # "none" PROVE FieldRow(w[Grammar(w)]) \in RowType
  <2>1. w[Grammar(w)].msg \in Names
    BY <1>2, FoundIsDoc
  <2>2. Columns(w[Grammar(w)]) \in SUBSET (FieldMeta \cup Layer1.message)
    BY DEF Columns
  <2> QED
    BY <2>1, <2>2, Zenon DEF FieldRow, RowType
<1> QED
  BY <1>1, <1>2

SchemaType ==
  /\ DOMAIN Layer1 \subseteq DOMAIN schema
  /\ \A t \in DOMAIN schema :
       schema[t] # {} /\ (t \in DOMAIN Layer1 \/ schema[t] \subseteq FieldMeta)

LEMMA RegisterType ==
  ASSUME SchemaType, NEW d, HasEvent(d), schema' = Register(d) PROVE SchemaType'
<1>1. CASE d.msg \in DOMAIN schema
  BY <1>1 DEF Register, SchemaType
<1>2. CASE d.msg \notin DOMAIN schema
  <2>1. Columns(d) # {} /\ Columns(d) \subseteq FieldMeta
    BY <1>2 DEF HasEvent, Columns
  <2>2. /\ DOMAIN schema' = DOMAIN schema \cup {d.msg}
        /\ schema'[d.msg] = Columns(d)
        /\ \A t \in DOMAIN schema : schema'[t] = schema[t]
    BY <1>2 DEF Register
  <2> QED
    BY <2>1, <2>2 DEF SchemaType
<1> QED
  BY <1>1, <1>2

LEMMA EmittedType ==
  ASSUME rows \in Seq(RowType), NEW w \in Wire, NEW logged \in BOOLEAN,
         logged => Grammar(w) # "none"
  PROVE  rows \o Emitted(w, logged) \in Seq(RowType)
<1>1. MessageRow(w) \in RowType
  BY RowTypes
<1>2. CASE logged
  <2>1. FieldRow(w[Grammar(w)]) \in RowType
    BY <1>2, RowTypes
  <2> QED
    BY <1>1, <1>2, <2>1 DEF Emitted
<1>3. CASE ~logged
  BY <1>1, <1>3 DEF Emitted
<1> QED
  BY <1>2, <1>3

StatsType == stats.messages \in Nat /\ stats.decoded \in Nat /\ stats.protocol \in Dialects

LEMMA CountedType ==
  ASSUME StatsType, NEW w \in Wire, NEW emitted \in BOOLEAN, stats' = Counted(w, emitted)
  PROVE  StatsType'
<1>1. Dialect(w) \in Dialects
  BY DialectType
<1>2. /\ stats'.messages = stats.messages + 1
      /\ stats'.decoded = stats.decoded + (IF emitted THEN 1 ELSE 0)
      /\ stats'.protocol = IF stats.protocol = NoDialect THEN Dialect(w) ELSE stats.protocol
  BY DEF Counted
<1>3. stats'.messages \in Nat /\ stats'.decoded \in Nat
  BY <1>2 DEF StatsType
<1>4. stats'.protocol \in Dialects
  BY <1>1, <1>2 DEF StatsType
<1> QED
  BY <1>3, <1>4 DEF StatsType

CodecTypes ==
  /\ CodecInv
  /\ available \in BOOLEAN /\ strict \in BOOLEAN /\ raised \in BOOLEAN
  /\ SchemaType
  /\ rows \in Seq(RowType)
  /\ StatsType

(* Rows, columns, statistics and events are what they are taken for.       *)
THEOREM CodecTypesInvariant == Spec => []CodecTypes
<1>1. Init => CodecTypes
  <2> SUFFICES ASSUME Init PROVE CodecTypes
    OBVIOUS
  <2>1. SchemaType
    <3>1. schema = Layer1
      BY DEF Init
    <3>2. \A t \in DOMAIN Layer1 : Layer1[t] # {}
      BY DEF Layer1
    <3> QED
      BY <3>1, <3>2 DEF SchemaType
  <2>2. StatsType
    <3>1. NoDialect \in Dialects
      BY DEF Dialects
    <3> QED
      BY <3>1 DEF Init, StatsType
  <2>3. rows = <<>> /\ available \in BOOLEAN /\ strict \in BOOLEAN /\ raised \in BOOLEAN
    BY DEF Init
  <2> QED
    BY <2>1, <2>2, <2>3, CodecInitInv DEF CodecTypes
<1>2. CodecTypes /\ [Next]_vars => CodecTypes'
  <2> SUFFICES ASSUME CodecTypes, [Next]_vars PROVE CodecTypes'
    OBVIOUS
  <2>0. CodecInv'
    BY CodecStep DEF CodecTypes
  <2>1. CASE UNCHANGED vars
    BY <2>0, <2>1 DEF vars, CodecTypes, SchemaType, StatsType
  <2>2. ASSUME NEW w \in Wire, RawMessage(w) PROVE CodecTypes'
    <3>1. /\ UNCHANGED <<available, strict, schema, raised>>
          /\ rows' = rows \o Emitted(w, FALSE) /\ stats' = Counted(w, FALSE)
      BY <2>2 DEF RawMessage, Arrives
    <3>2. rows' \in Seq(RowType)
      BY <3>1, EmittedType DEF CodecTypes
    <3>3. StatsType'
      BY <3>1, CountedType DEF CodecTypes
    <3>4. SchemaType'
      BY <3>1 DEF CodecTypes, SchemaType
    <3> QED
      BY <2>0, <3>1, <3>2, <3>3, <3>4 DEF CodecTypes
  <2>3. ASSUME NEW w \in Wire, DecodedMessage(w) PROVE CodecTypes'
    <3>1. /\ UNCHANGED <<available, strict, raised>> /\ Grammar(w) # "none"
          /\ HasEvent(w[Grammar(w)]) /\ schema' = Register(w[Grammar(w)])
          /\ rows' = rows \o Emitted(w, TRUE) /\ stats' = Counted(w, TRUE)
      BY <2>3 DEF DecodedMessage, Arrives
    <3>2. rows' \in Seq(RowType)
      BY <3>1, EmittedType DEF CodecTypes
    <3>3. StatsType'
      BY <3>1, CountedType DEF CodecTypes
    <3>4. SchemaType'
      BY <3>1, RegisterType DEF CodecTypes
    <3> QED
      BY <2>0, <3>1, <3>2, <3>3, <3>4 DEF CodecTypes
  <2>4. ASSUME NEW w \in Wire, RefusedMessage(w) PROVE CodecTypes'
    <3>1. /\ UNCHANGED <<available, strict>> /\ raised' = TRUE
          /\ HasEvent(w[Grammar(w)]) /\ schema' = Register(w[Grammar(w)])
          /\ rows' = rows \o Emitted(w, FALSE)
          /\ stats' = [stats EXCEPT !.messages = stats.messages + 1]
      BY <2>4 DEF RefusedMessage, Arrives
    <3>2. rows' \in Seq(RowType)
      BY <3>1, EmittedType DEF CodecTypes
    <3>3. StatsType'
      <4>1. stats = [messages |-> stats.messages, decoded |-> stats.decoded,
                     protocol |-> stats.protocol]
        BY DEF CodecTypes, CodecInv
      <4>2. /\ stats'.messages = stats.messages + 1 /\ stats'.decoded = stats.decoded
            /\ stats'.protocol = stats.protocol
        BY <3>1, <4>1
      <4> QED
        BY <4>2 DEF CodecTypes, StatsType
    <3>4. SchemaType'
      BY <3>1, RegisterType DEF CodecTypes
    <3> QED
      BY <2>0, <3>1, <3>2, <3>3, <3>4 DEF CodecTypes
  <2> QED
    BY <2>1, <2>2, <2>3, <2>4 DEF Next
<1> QED
  BY <1>1, <1>2, PTL DEF Spec

(* Every event has a column, every row a name.                             *)
THEOREM CodecTypeCorrect == Spec => []TypeOK
<1>1. CodecTypes => TypeOK
  BY DEF CodecTypes, CodecInv, SchemaType, StatsType, RowType, TypeOK
<1> QED
  BY <1>1, CodecTypesInvariant, PTL

-----------------------------------------------------------------------------
(* The first message of a type that tells something defines its event.     *)

(* One message further on: it tells nothing, or is registered.             *)
LEMMA ColumnsGrow ==
  ASSUME seen \in Seq(Wire), ColumnsOfFirst, NEW w \in Wire, available' = available,
         seen' = Append(seen, w),
         \/ schema' = schema /\ \A t : ~Tells(w, t)
         \/ Grammar(w) # "none" /\ HasEvent(Found(w)) /\ schema' = Register(Found(w))
  PROVE  ColumnsOfFirst'
<1> PICK n : n = Len(seen)
  OBVIOUS
<1>1. /\ n \in Nat /\ Len(seen') = n + 1 /\ seen'[n + 1] = w
      /\ \A i \in 1 .. n : seen'[i] = seen[i]
  OBVIOUS
<1>2. \A i \in 1 .. n + 1 : i \in 1 .. n \/ i = n + 1
  BY <1>1
<1>3. ASSUME NEW i \in 1 .. n
      PROVE  /\ Columns(Found(seen[i]))' = Columns(Found(seen[i]))
             /\ \A t : Tells(seen[i], t)' = Tells(seen[i], t)
  <2>1. seen'[i] = seen[i]
    BY <1>1
  <2> QED
    BY <2>1, Zenon DEF Tells, Found, Grammar, Decodes, Columns
<1>4. ASSUME NEW i, i = n + 1
      PROVE  /\ Columns(Found(seen[i]))' = Columns(Found(w))
             /\ \A t : Tells(seen[i], t)' = Tells(w, t)
  <2>1. seen'[i] = w
    BY <1>1, <1>4
  <2> QED
    BY <2>1, Zenon DEF Tells, Found, Grammar, Decodes, Columns
<1>5. ASSUME NEW t \in DOMAIN schema PROVE t \in DOMAIN schema' /\ schema'[t] = schema[t]
  BY DEF Register
<1>6. ASSUME NEW t \in DOMAIN schema', t \notin DOMAIN schema
      PROVE  t \in Names /\ Tells(w, t) /\ schema'[t] = Columns(Found(w))
  <2>1. Grammar(w) # "none" /\ HasEvent(Found(w)) /\ schema' = Register(Found(w))
    BY <1>6
  <2>2. t = Found(w).msg /\ schema'[t] = Columns(Found(w))
    BY <1>6, <2>1 DEF Register
  <2>3. Columns(Found(w)) # {}
    BY <1>6, <2>1, <2>2 DEF HasEvent
  <2>4. t \in Names
    BY <2>1, <2>2, FoundIsDoc DEF Found
  <2> QED
    BY <2>1, <2>2, <2>3, <2>4 DEF Tells
<1>7. ASSUME NEW t \in DOMAIN schema' \ DOMAIN Layer1
      PROVE  \E i \in 1 .. Len(seen') :
               /\ Tells(seen[i], t)'
               /\ schema'[t] = Columns(Found(seen[i]))'
               /\ \A j \in 1 .. i - 1 : ~Tells(seen[j], t)'
  <2>1. CASE t \in DOMAIN schema
    <3>1. PICK i \in 1 .. n : /\ Tells(seen[i], t)
                              /\ schema[t] = Columns(Found(seen[i]))
                              /\ \A j \in 1 .. i - 1 : ~Tells(seen[j], t)
      BY <1>7, <2>1 DEF ColumnsOfFirst
    <3>2. i \in 1 .. Len(seen') /\ \A j \in 1 .. i - 1 : j \in 1 .. n
      BY <1>1
    <3> QED
      BY <1>3, <1>5, <2>1, <3>1, <3>2
  <2>2. CASE t \notin DOMAIN schema
    <3>1. t \in Names /\ Tells(w, t) /\ schema'[t] = Columns(Found(w))
      BY <1>6, <2>2
    <3>2. \A j \in 1 .. n : ~Tells(seen[j], t)
      BY <2>2, <3>1 DEF ColumnsOfFirst
    <3> PICK i : i = n + 1
      OBVIOUS
    <3>3. i \in 1 .. Len(seen') /\ \A j \in 1 .. i - 1 : j \in 1 .. n
      BY <1>1
    <3> QED
      BY <1>3, <1>4, <3>1, <3>2, <3>3
  <2> QED
    BY <2>1, <2>2
<1>8. ASSUME NEW i \in 1 .. Len(seen'), NEW t \in Names, Tells(seen[i], t)'
      PROVE  t \in DOMAIN schema'
  <2>1. CASE i \in 1 .. n
    BY <1>3, <1>5, <1>8, <2>1 DEF ColumnsOfFirst
  <2>2. CASE i \notin 1 .. n
    <3>1. i = n + 1
      BY <1>1, <1>2, <2>2
    <3>2. Tells(w, t)
      BY <1>4, <1>8, <3>1
    <3>3. schema' = Register(Found(w)) /\ Found(w).msg = t
      BY <3>2 DEF Tells
    <3> QED
      BY <3>3 DEF Register
  <2> QED
    BY <2>1, <2>2
<1> QED
  BY <1>7, <1>8 DEF ColumnsOfFirst

(* The columns of every event are those of the first message of its type   *)
(* with a mapped field, and every type of which there was one has an event.*)
THEOREM ColumnsAlwaysOfFirst == Spec => []ColumnsOfFirst
<1>1. Init => ColumnsOfFirst
  <2> SUFFICES ASSUME Init PROVE ColumnsOfFirst
    OBVIOUS
  <2>1. schema = Layer1 /\ Len(seen) = 0
    BY DEF Init
  <2> QED
    BY <2>1 DEF ColumnsOfFirst
<1>2. CodecInv /\ ColumnsOfFirst /\ [Next]_vars => ColumnsOfFirst'
  <2> SUFFICES ASSUME CodecInv, ColumnsOfFirst, [Next]_vars PROVE ColumnsOfFirst'
    OBVIOUS
  <2>1. seen \in Seq(Wire)
    BY DEF CodecInv
  <2>2. CASE UNCHANGED vars
    <3>1. UNCHANGED <<available, schema, seen>>
      BY <2>2 DEF vars
    <3>2. ASSUME NEW i
          PROVE  /\ Columns(Found(seen[i]))' = Columns(Found(seen[i]))
                 /\ \A t : Tells(seen[i], t)' = Tells(seen[i], t)
      BY <3>1, Zenon DEF Tells, Found, Grammar, Decodes, Columns
    <3> QED
      BY <3>1, <3>2, Zenon DEF ColumnsOfFirst
  <2>3. ASSUME NEW w \in Wire, RawMessage(w) PROVE ColumnsOfFirst'
    <3>1. \A t : ~Tells(w, t)
      BY <2>3 DEF RawMessage, Tells, Found, HasEvent
    <3> QED
      BY <2>1, <2>3, <3>1, ColumnsGrow DEF RawMessage, Arrives
  <2>4. ASSUME NEW w \in Wire, DecodedMessage(w) \/ RefusedMessage(w) PROVE ColumnsOfFirst'
    <3>1. Grammar(w) # "none" /\ HasEvent(Found(w)) /\ schema' = Register(Found(w))
      BY <2>4 DEF DecodedMessage, RefusedMessage, Found
    <3>2. available' = available /\ seen' = Append(seen, w)
      BY <2>4 DEF DecodedMessage, RefusedMessage, Arrives
    <3> QED
      BY <2>1, <3>1, <3>2, ColumnsGrow
  <2> QED
    BY <2>2, <2>3, <2>4 DEF Next
<1> QED
  BY <1>1, <1>2, CodecInvariant, PTL DEF Spec

=============================================================================
