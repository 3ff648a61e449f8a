--------------------------- MODULE GdsCodecProofs ---------------------------
(***************************************************************************)
(* Proofs about GdsCodec, for any set of messages, values nested to any    *)
(* depth and lists of any length.  Bottom up: a field value, a list, each  *)
(* structure, each body, and a whole message is unpacked as what the       *)
(* format keeps of what was packed (Kept).  The inductive invariant IInv   *)
(* then ties what has arrived to what was composed.                        *)
(***************************************************************************)
EXTENDS GdsCodec, SequenceTheorems, TLAPS

-----------------------------------------------------------------------------
(* Field values: gds_types.cpp packs and unpacks the elements of an array   *)
(* by calling itself, here once per level of nesting.                      *)

\* The packer and the unpacker of values with arrays up to n deep.
FieldPacker(n) == Packing!Rec(Scalars)[n]
FieldUnpacker(n) == Unpacking!Rec(WireScalars)[n]

\* A field value is a scalar or an array of values one level flatter.
LEMMA FieldValuesNest ==
    /\ FieldValues(0) = Scalars
    /\ \A n \in Nat : FieldValues(n + 1)
                        = Scalars \cup [type : {"ARRAY"}, value : Seq(FieldValues(n))]
BY Nesting!Recursive DEF FieldValues, Flat, OrArray

\* So is its MessagePack form.
LEMMA WireValuesNest ==
    /\ WireValues(0) = WireScalars
    /\ \A n \in Nat : WireValues(n + 1)
                        = WireScalars \cup ({"arr"} \X Seq(WireValues(n)))
BY WireNesting!Recursive DEF WireValues, Flat, WireOrArray

\* Every value that is no array comes back by its type: the tag on the wire
\* tells all eight apart.
LEMMA ScalarBack ==
    ASSUME NEW v \in Scalars
    PROVE  /\ v.type # "ARRAY"
           /\ PackScalar(v) \in WireScalars
           /\ PackScalar(v)[1] # "arr"
           /\ UnpackScalar(PackScalar(v)) = v
<1> USE DEF Scalars, WireScalars, PackScalar, UnpackScalar, TypeOfWire, TypeOf, WireOf,
            Nil, None
<1>1. CASE v \in [type : {"NIL"}, value : {None}]
  BY <1>1
<1>2. CASE v \in [type : {"BOOLEAN"}, value : BOOLEAN]
  BY <1>2
<1>3. CASE v \in [type : {"POSITIVE_INTEGER"}, value : Nat]
  BY <1>3
<1>4. CASE v \in [type : {"NEGATIVE_INTEGER"}, value : {n \in Int : n < 0}]
  BY <1>4
<1>5. CASE v \in [type : {"FLOAT32", "FLOAT64", "STR", "BIN"}, value : STRING]
  BY <1>5
<1>6. CASE v \in [type : {"MAP"}, value : MapOf(Names, STRING)]
  BY <1>6
<1>7. QED
  BY <1>1, <1>2, <1>3, <1>4, <1>5, <1>6

\* The packer of one more level packs the elements with the one below.
LEMMA FieldPackers ==
    /\ FieldPacker(0) = [v \in Scalars |-> PackScalar(v)]
    /\ \A n \in Nat :
          FieldPacker(n + 1)
            = [v \in FieldValues(n + 1) |->
                  IF v.type = "ARRAY"
                  THEN <<"arr", [i \in DOMAIN v.value |-> FieldPacker(n)[v.value[i]]]>>
                  ELSE PackScalar(v)]
BY Packing!Recursive DEF FieldPacker, PackScalars, PackOrArray, List, Arr, Each

\* So does the unpacker.
LEMMA FieldUnpackers ==
    /\ FieldUnpacker(0) = [w \in WireScalars |-> UnpackScalar(w)]
    /\ \A n \in Nat :
          FieldUnpacker(n + 1)
            = [w \in WireValues(n + 1) |->
                  IF w[1] = "arr"
                  THEN [type |-> "ARRAY",
                        value |-> [i \in DOMAIN w[2] |-> FieldUnpacker(n)[w[2][i]]]]
                  ELSE UnpackScalar(w)]
BY Unpacking!Recursive DEF FieldUnpacker, UnpackScalars, UnpackOrArray, Items, Each

\* What the unpacker makes of one value.
LEMMA UnpackedAt ==
    ASSUME NEW n \in Nat, NEW w \in WireValues(n + 1)
    PROVE  /\ w[1] # "arr" => FieldUnpacker(n + 1)[w] = UnpackScalar(w)
           /\ w[1] = "arr" =>
                FieldUnpacker(n + 1)[w]
                  = [type |-> "ARRAY", value |-> [i \in DOMAIN w[2] |-> FieldUnpacker(n)[w[2][i]]]]
<1> DEFINE array(x) == [type |-> "ARRAY",
                       value |-> [i \in DOMAIN x[2] |-> FieldUnpacker(n)[x[2][i]]]]
<1>1. FieldUnpacker(n + 1)
        = [x \in WireValues(n + 1) |-> IF x[1] = "arr" THEN array(x) ELSE UnpackScalar(x)]
  BY FieldUnpackers
<1>2. QED
  <2> HIDE DEF array
  <2>1. /\ w[1] # "arr" => FieldUnpacker(n + 1)[w] = UnpackScalar(w)
        /\ w[1] = "arr" => FieldUnpacker(n + 1)[w] = array(w)
    BY <1>1
  <2>2. QED
    BY <2>1 DEF array

\* Field values with arrays up to n deep come back.
Carried(n) ==
    \A v \in FieldValues(n) :
        FieldPacker(n)[v] \in WireValues(n) /\ FieldUnpacker(n)[FieldPacker(n)[v]] = v

\* If values n deep come back, so do values one level deeper.
LEMMA CarriedDeeper == ASSUME NEW n \in Nat, Carried(n) PROVE Carried(n + 1)
<1> SUFFICES ASSUME NEW v \in FieldValues(n + 1)
             PROVE  /\ FieldPacker(n + 1)[v] \in WireValues(n + 1)
                    /\ FieldUnpacker(n + 1)[FieldPacker(n + 1)[v]] = v
  BY DEF Carried
<1>1. CASE v \in Scalars
  <2>1. FieldPacker(n + 1)[v] = PackScalar(v)
    BY <1>1, ScalarBack, FieldPackers
  <2>2. PackScalar(v) \in WireValues(n + 1)
    BY <1>1, ScalarBack, WireValuesNest
  <2>3. FieldUnpacker(n + 1)[PackScalar(v)] = v
    BY <1>1, <2>2, ScalarBack, UnpackedAt
  <2>4. QED
    BY <2>1, <2>2, <2>3
<1>2. CASE v \in [type : {"ARRAY"}, value : Seq(FieldValues(n))]
  <2> DEFINE items == [i \in DOMAIN v.value |-> FieldPacker(n)[v.value[i]]]
  <2>1. v.type = "ARRAY" /\ v.value \in Seq(FieldValues(n))
    BY <1>2
  <2>2. FieldPacker(n + 1)[v] = <<"arr", items>>
    BY <2>1, FieldPackers
  <2>3. DOMAIN v.value = 1..Len(v.value) /\ Len(v.value) \in Nat
    BY <2>1
  <2>4. ASSUME NEW i \in DOMAIN v.value
        PROVE  items[i] \in WireValues(n) /\ FieldUnpacker(n)[items[i]] = v.value[i]
    <3>1. v.value[i] \in FieldValues(n)
      BY <2>1
    <3>2. QED
      BY <3>1 DEF Carried
  <2>5. items \in Seq(WireValues(n)) /\ DOMAIN items = DOMAIN v.value
    <3>1. items = [i \in 1..Len(v.value) |-> items[i]]
      BY <2>3
    <3>2. \A i \in 1..Len(v.value) : items[i] \in WireValues(n)
      BY <2>3, <2>4
    <3>3. DOMAIN items = DOMAIN v.value
      OBVIOUS
    <3> HIDE DEF items
    <3>4. QED
      BY <2>3, <3>1, <3>2, <3>3
  <2> HIDE DEF items
  <2>6. <<"arr", items>> \in WireValues(n + 1)
    BY <2>5, WireValuesNest
  <2>7. FieldUnpacker(n + 1)[<<"arr", items>>]
          = [type |-> "ARRAY", value |-> [i \in DOMAIN items |-> FieldUnpacker(n)[items[i]]]]
    <3> DEFINE w == <<"arr", items>>
    <3>1. w[1] = "arr" /\ w[2] = items
      OBVIOUS
    <3> HIDE DEF w
    <3>2. w \in WireValues(n + 1)
      BY <2>6 DEF w
    <3>3. FieldUnpacker(n + 1)[w]
            = [type |-> "ARRAY", value |-> [i \in DOMAIN w[2] |-> FieldUnpacker(n)[w[2][i]]]]
      BY <3>1, <3>2, UnpackedAt
    <3>4. QED
      BY <3>1, <3>3 DEF w
  <2>8. [i \in DOMAIN items |-> FieldUnpacker(n)[items[i]]] = v.value
    BY <2>1, <2>3, <2>4, <2>5
  <2>9. v = [type |-> "ARRAY", value |-> v.value]
    BY <1>2
  <2>10. FieldUnpacker(n + 1)[<<"arr", items>>] = v
    BY ONLY <2>7, <2>8, <2>9
  <2>11. QED
    BY ONLY <2>2, <2>6, <2>10
<1>3. QED
  BY <1>1, <1>2, FieldValuesNest

\* Values of any depth come back.
LEMMA AllCarried == \A n \in Nat : Carried(n)
<1> DEFINE S == {n \in Nat : Carried(n)}
<1>1. Carried(0)
  BY ScalarBack, FieldPackers, FieldUnpackers, FieldValuesNest, WireValuesNest DEF Carried
<1>2. \A n \in Nat : n \in S => n + 1 \in S
  BY CarriedDeeper
<1>3. Nat \subseteq S
  <2>1. 0 \in S
    BY <1>1
  <2> HIDE DEF S
  <2>2. QED
    BY <1>2, <2>1, Nesting!NatSetInduction
<1>4. QED
  BY <1>3

\* A field value is read as it was packed.
LEMMA ValueBack == \A v \in GdsFieldValue : UnpackValue(PackValue(v)) = v
BY AllCarried, DepthAssumption
   DEF Carried, GdsFieldValue, UnpackValue, PackValue, FieldPacker, FieldUnpacker

-----------------------------------------------------------------------------
(* Lists and optional members.                                             *)

\* An optional member is absent or has a value.
LEMMA OptCases ==
    ASSUME NEW S, NEW o \in Opt(S)
    PROVE  o = None \/ (o # None /\ o[1] \in S /\ o = Some(o[1]))
BY DEF Opt, None, Some

\* A list of strings is read as it was packed.
LEMMA StringsBack == \A s \in Strings : UnpackStrings(PackStrings(s)) = s
BY DEF Strings, UnpackStrings, PackStrings, Items, List, Arr, Each, Value, Str

\* So are the field descriptors,
LEMMA DescriptorsBack ==
    \A ds \in Seq(field_descriptor) : UnpackDescriptors(PackDescriptors(ds)) = ds
<1>1. \A d \in field_descriptor : UnpackStrings(PackStrings(d)) = d
  BY DEF field_descriptor, UnpackStrings, PackStrings, Items, List, Arr, Each, Value, Str
<1>2. QED
  BY <1>1 DEF UnpackDescriptors, PackDescriptors, Items, List, Arr, Each

\* a record of field values,
LEMMA RowBack == \A r \in Row : UnpackRow(PackRow(r)) = r
BY ValueBack DEF Row, UnpackRow, PackRow, Items, List, Arr, Each

\* and a list of records.
LEMMA RowsBack == \A rs \in Seq(Row) : UnpackRows(PackRows(rs)) = rs
BY RowBack DEF UnpackRows, PackRows, Items, List, Arr, Each

-----------------------------------------------------------------------------
(* The structures and the bodies, in the order of their numbers.           *)

\* Type 0: the cluster name before the other items and the reserved fields
\* behind them may both be absent.
LEMMA LoginBack ==
    ASSUME NEW b \in GdsLoginMessage, ValidLogin(b)
    PROVE  UnpackLogin(PackLogin(b)) = b
<1> DEFINE unit == IF b.fragmentation_supported THEN Num(b.fragment_transmission_unit[1])
                                                ELSE Nil
           middle == <<Bool(b.serve_on_the_same_connection), Num(b.protocol_version_number),
                       Bool(b.fragmentation_supported), unit>>
           name == Present(b.cluster_name, Str)
           reserved == Present(b.reserved_fields, PackStrings)
           S == {Str(b.cluster_name[1]), middle[1], middle[2], middle[3], unit,
                 PackStrings(b.reserved_fields[1])}
           d == name \o middle \o reserved
<1>1. PackLogin(b) = Arr(d)
  BY DEF PackLogin
<1>2. /\ \/ b.cluster_name = None
         \/ (b.cluster_name # None /\ b.cluster_name = Some(b.cluster_name[1]))
      /\ \/ b.fragment_transmission_unit = None
         \/ /\ b.fragment_transmission_unit # None
            /\ b.fragment_transmission_unit = Some(b.fragment_transmission_unit[1])
      /\ \/ b.reserved_fields = None
         \/ /\ b.reserved_fields # None /\ b.reserved_fields[1] \in Strings
            /\ b.reserved_fields = Some(b.reserved_fields[1])
  BY OptCases DEF GdsLoginMessage
<1>3. /\ name = IF b.cluster_name = None THEN <<>> ELSE <<Str(b.cluster_name[1])>>
      /\ reserved = IF b.reserved_fields = None THEN <<>>
                    ELSE <<PackStrings(b.reserved_fields[1])>>
  BY <1>2 DEF Present, Each, Some, None
<1>4. /\ Str(b.cluster_name[1]) \in S /\ PackStrings(b.reserved_fields[1]) \in S
      /\ Bool(b.serve_on_the_same_connection) \in S /\ Num(b.protocol_version_number) \in S
      /\ Bool(b.fragmentation_supported) \in S /\ unit \in S
  OBVIOUS
<1>5. name \in Seq(S) /\ Len(name) = IF b.cluster_name = None THEN 0 ELSE 1
  <2> HIDE DEF S
  <2>1. QED
    BY <1>3, <1>4
<1>6. reserved \in Seq(S) /\ Len(reserved) = IF b.reserved_fields = None THEN 0 ELSE 1
  <2> HIDE DEF S
  <2>1. QED
    BY <1>3, <1>4
<1>7. middle \in Seq(S) /\ Len(middle) = 4
  <2> HIDE DEF S, unit
  <2>1. QED
    BY <1>4
<1>8. /\ Len(d) = Len(name) + Len(middle) + Len(reserved)
      /\ \A i \in 1..Len(name) : d[i] = name[i]
      /\ \A i \in 1..Len(middle) : d[Len(name) + i] = middle[i]
      /\ \A i \in 1..Len(reserved) : d[Len(name) + Len(middle) + i] = reserved[i]
  <2>1. name \in Seq(S) /\ middle \in Seq(S) /\ reserved \in Seq(S)
    BY <1>5, <1>6, <1>7
  <2> HIDE DEF S, name, middle, reserved, unit
  <2>2. LET e == name \o middle \o reserved
        IN  /\ Len(e) = Len(name) + Len(middle) + Len(reserved)
            /\ \A i \in 1..Len(name) : e[i] = name[i]
            /\ \A i \in 1..Len(middle) : e[Len(name) + i] = middle[i]
            /\ \A i \in 1..Len(reserved) :
                  e[Len(name) + Len(middle) + i] = reserved[i]
    BY ONLY <2>1
  <2>3. QED
    BY ONLY <2>2
<1>9. /\ middle[1] = Bool(b.serve_on_the_same_connection)
      /\ middle[2] = Num(b.protocol_version_number)
      /\ middle[3] = Bool(b.fragmentation_supported)
      /\ middle[4] = unit
  OBVIOUS
<1>10. /\ d[Len(name) + 1] = Bool(b.serve_on_the_same_connection)
       /\ d[Len(name) + 2] = Num(b.protocol_version_number)
       /\ d[Len(name) + 3] = Bool(b.fragmentation_supported)
       /\ d[Len(name) + 4] = unit
  <2> HIDE DEF d, unit, middle, name
  <2>1. QED
    BY <1>7, <1>8, <1>9
<1>11. /\ Len(d) = Len(name) + 4 + Len(reserved)
       /\ Len(name) = 1 => d[1] = name[1]
       /\ Len(reserved) = 1 => d[Len(name) + 5] = reserved[1]
  <2> HIDE DEF d, unit, middle, name, reserved
  <2>1. QED
    BY <1>7, <1>8
<1> DEFINE idx == IF d[1][1] = "str" THEN 1 ELSE 0
<1>12. /\ idx = Len(name)
       /\ idx = 1 => /\ b.cluster_name = Some(d[1][2])
       /\ idx # 1 => b.cluster_name = None
  <2> HIDE DEF d, S, unit, middle, reserved
  <2>1. CASE b.cluster_name = None
    <3>1. Len(name) = 0
      BY <1>5, <2>1
    <3>2. d[1] = Bool(b.serve_on_the_same_connection)
      BY <1>10, <3>1
    <3>3. QED
      BY <2>1, <3>1, <3>2 DEF Bool
  <2>2. CASE b.cluster_name # None
    <3>1. Len(name) = 1
      BY <1>5, <2>2
    <3>2. name[1] = Str(b.cluster_name[1])
      BY <1>3, <2>2
    <3>3. d[1] = Str(b.cluster_name[1])
      BY <1>11, <3>1, <3>2
    <3>4. d[1][1] = "str" /\ d[1][2] = b.cluster_name[1]
      BY <3>3 DEF Str
    <3>5. QED
      BY <1>2, <2>2, <3>1, <3>4
  <2>3. QED
    BY <2>1, <2>2
<1> HIDE DEF d, S, middle, name, idx
<1>13. /\ d[idx + 1][2] = b.serve_on_the_same_connection
       /\ d[idx + 2][2] = b.protocol_version_number
       /\ d[idx + 3][2] = b.fragmentation_supported
       /\ d[idx + 4] = unit
  <2> HIDE DEF unit
  <2>1. QED
    BY <1>10, <1>12 DEF Bool, Num
<1>14. b.fragment_transmission_unit
         = IF d[idx + 3][2] THEN Some(d[idx + 4][2]) ELSE None
  BY <1>2, <1>13 DEF ValidLogin, Num, GdsLoginMessage
<1>15. b.reserved_fields
         = IF Len(d) > idx + 4 THEN Some(UnpackStrings(d[idx + 5])) ELSE None
  <2> HIDE DEF unit
  <2>1. CASE b.reserved_fields = None
    <3>1. Len(reserved) = 0
      BY <1>6, <2>1
    <3>2. idx \in Nat
      BY DEF idx
    <3>3. ~ (Len(d) > idx + 4)
      <4> HIDE DEF reserved
      <4>1. QED
        BY <1>11, <1>12, <3>1, <3>2
    <3>4. QED
      BY <2>1, <3>3
  <2>2. CASE b.reserved_fields # None
    <3>1. Len(reserved) = 1
      BY <1>6, <2>2
    <3>2. idx \in Nat
      BY DEF idx
    <3>3. reserved[1] = PackStrings(b.reserved_fields[1])
      BY <1>3, <2>2
    <3>4. Len(d) > idx + 4 /\ d[idx + 5] = PackStrings(b.reserved_fields[1])
      <4> HIDE DEF reserved
      <4>1. QED
        BY <1>11, <1>12, <3>1, <3>2, <3>3
    <3>5. UnpackStrings(d[idx + 5]) = b.reserved_fields[1]
      BY <1>2, <2>2, <3>4, StringsBack
    <3>6. QED
      BY <1>2, <2>2, <3>4, <3>5
  <2>3. QED
    BY <2>1, <2>2
<1>16. UnpackLogin(Arr(d))
         = [cluster_name |-> IF idx = 1 THEN Some(d[1][2]) ELSE None,
            serve_on_the_same_connection |-> d[idx + 1][2],
            protocol_version_number |-> d[idx + 2][2],
            fragmentation_supported |-> d[idx + 3][2],
            fragment_transmission_unit |->
               IF d[idx + 3][2] THEN Some(d[idx + 4][2]) ELSE None,
            reserved_fields |->
               IF Len(d) > idx + 4 THEN Some(UnpackStrings(d[idx + 5])) ELSE None]
  BY DEF UnpackLogin, Arr, idx
<1>17. QED
  BY <1>1, <1>12, <1>13, <1>14, <1>15, <1>16 DEF GdsLoginMessage

\* Type 2, an event with its attachments and its priority levels.
LEMMA EventBack == \A b \in GdsEventMessage : UnpackEvent(PackEvent(b)) = b
<1> SUFFICES ASSUME NEW b \in GdsEventMessage PROVE UnpackEvent(PackEvent(b)) = b
  OBVIOUS
<1>1. ASSUME NEW m \in MapOf(Names, STRING)
      PROVE  LET packed == [k \in DOMAIN m |-> Present(m[k], Bin)]
             IN  [k \in DOMAIN packed |-> Each(packed[k], Value)] = m
  <2>1. \A k \in Names : m[k] = None \/ m[k] = Some(m[k][1])
    BY OptCases DEF MapOf
  <2>2. \A k \in Names : Each(Present(m[k], Bin), Value) = m[k]
    <3> SUFFICES ASSUME NEW k \in Names PROVE Each(Present(m[k], Bin), Value) = m[k]
      OBVIOUS
    <3>1. CASE m[k] = None
      BY <3>1 DEF Each, Present, None
    <3>2. CASE m[k] = Some(m[k][1])
      <4> DEFINE x == m[k][1]
      <4>1. Present(Some(x), Bin) = Some(Bin(x))
        BY DEF Present, Each, Some
      <4>2. Each(Some(Bin(x)), Value) = Some(x)
        BY DEF Each, Some, Value, Bin
      <4>3. QED
        BY <3>2, <4>1, <4>2
    <3>3. QED
      BY <2>1, <3>1, <3>2
  <2>3. QED
    BY <2>2 DEF MapOf
<1>2. \A l \in Seq(Seq(MapOf(Indexes, BOOLEAN))) :
         [i \in DOMAIN l |-> [j \in DOMAIN l[i] |-> Map(l[i][j])[2]]] = l
  BY DEF Map
<1>3. QED
  BY <1>1, <1>2
     DEF GdsEventMessage, UnpackEvent, PackEvent, Arr, Str, Map, List, Items, Each, Value

\* Type 7.
LEMMA AttachmentResponseBack ==
    \A b \in GdsAttachmentResponseResultMessage :
        UnpackAttachmentResponseResult(PackAttachmentResponseResult(b)) = b
<1> SUFFICES ASSUME NEW b \in GdsAttachmentResponseResultMessage
             PROVE  UnpackAttachmentResponseResult(PackAttachmentResponseResult(b)) = b
  OBVIOUS
<1>1. \A r \in AttachmentResponse : UnpackAttachmentResponse(PackAttachmentResponse(r)) = r
  BY StringsBack
     DEF AttachmentResponse, UnpackAttachmentResponse, PackAttachmentResponse, Map, Str
<1>2. \A r \in AttachmentResponseBody :
         UnpackAttachmentResponseBody(PackAttachmentResponseBody(r)) = r
  BY <1>1 DEF AttachmentResponseBody, UnpackAttachmentResponseBody,
              PackAttachmentResponseBody, Arr, Num
<1>3. \A x : PackAttachmentResponseBody(x) # Nil /\ Str(x) # Nil
  BY DEF PackAttachmentResponseBody, Nil, Arr, Str
<1>4. /\ \/ b.ackException = None
         \/ (b.ackException # None /\ b.ackException = Some(b.ackException[1]))
      /\ b.response = None \/ (b.response # None /\ b.response[1] \in AttachmentResponseBody
                                                /\ b.response = Some(b.response[1]))
  BY OptCases DEF GdsAttachmentResponseResultMessage
<1>5. QED
  BY <1>2, <1>3, <1>4
     DEF GdsAttachmentResponseResultMessage, UnpackAttachmentResponseResult,
         PackAttachmentResponseResult, Arr, Num, OrNil, UnlessNil, Some, Value, Str

\* The attachment in types 5 and 6, with meta, ttl and binary present or not.
LEMMA AttachmentResultBack ==
    \A r \in AttachmentResult : UnpackAttachmentResult(PackAttachmentResult(r)) = r
<1> SUFFICES ASSUME NEW r \in AttachmentResult
             PROVE  UnpackAttachmentResult(PackAttachmentResult(r)) = r
  OBVIOUS
<1>1. /\ r.meta = None \/ (r.meta # None /\ r.meta = Some(r.meta[1]))
      /\ r.ttl = None \/ (r.ttl # None /\ r.ttl = Some(r.ttl[1]))
      /\ r.to_valid = None \/ (r.to_valid # None /\ r.to_valid = Some(r.to_valid[1]))
      /\ r.attachment = None \/ (r.attachment # None /\ r.attachment = Some(r.attachment[1]))
  BY OptCases DEF AttachmentResult
<1> DEFINE pairs == [requestids |-> Some(PackStrings(r.requestIDs)),
                     ownertable |-> Some(Str(r.ownerTable)),
                     attachmentid |-> Some(Str(r.attachmentID)),
                     ownerids |-> Some(PackStrings(r.ownerIDs)),
                     meta |-> Present(r.meta, Str),
                     ttl |-> Present(r.ttl, Num),
                     to_valid |-> Present(r.to_valid, Num),
                     attachment |-> Present(r.attachment, Bin)]
           m == [k \in {x \in DOMAIN pairs : pairs[x] # None} |-> pairs[k][1]]
           Find(k) == IF k \in DOMAIN m THEN Some(m[k][2]) ELSE None
<1>2. PackAttachmentResult(r) = Map(m)
  BY DEF PackAttachmentResult
<1>3. \A k \in {"requestids", "ownertable", "attachmentid", "ownerids", "meta", "ttl",
               "to_valid", "attachment"} :
         /\ k \in DOMAIN m <=> pairs[k] # None
         /\ pairs[k] # None => m[k] = pairs[k][1]
  OBVIOUS
<1>4. /\ pairs["requestids"] = Some(PackStrings(r.requestIDs))
      /\ pairs["ownertable"] = Some(Str(r.ownerTable))
      /\ pairs["attachmentid"] = Some(Str(r.attachmentID))
      /\ pairs["ownerids"] = Some(PackStrings(r.ownerIDs))
      /\ pairs["meta"] = IF r.meta = None THEN None ELSE Some(Str(r.meta[1]))
      /\ pairs["ttl"] = IF r.ttl = None THEN None ELSE Some(Num(r.ttl[1]))
      /\ pairs["to_valid"] = IF r.to_valid = None THEN None ELSE Some(Num(r.to_valid[1]))
      /\ pairs["attachment"] = IF r.attachment = None THEN None ELSE Some(Bin(r.attachment[1]))
  BY <1>1 DEF Present, Each, Some, None
<1> HIDE DEF m, pairs
<1>5. /\ m["requestids"] = PackStrings(r.requestIDs) /\ m["ownertable"] = Str(r.ownerTable)
      /\ m["attachmentid"] = Str(r.attachmentID) /\ m["ownerids"] = PackStrings(r.ownerIDs)
  BY <1>3, <1>4 DEF Some, None
<1>6. /\ Find("meta") = r.meta /\ Find("ttl") = r.ttl
      /\ Find("to_valid") = r.to_valid /\ Find("attachment") = r.attachment
  BY <1>1, <1>3, <1>4 DEF Some, None, Str, Num, Bin
<1>7. QED
  BY <1>2, <1>5, <1>6, StringsBack DEF AttachmentResult, UnpackAttachmentResult, Map, Str

\* Type 1: the second item is the login or the error details, as the status says.
LEMMA LoginReplyBack ==
    ASSUME NEW b \in GdsLoginReplyMessage, ValidLoginReply(b)
    PROVE  UnpackLoginReply(PackLoginReply(b)) = KeptLoginReply(b)
<1>1. /\ \/ b.ackException = None
         \/ (b.ackException # None /\ b.ackException = Some(b.ackException[1]))
      /\ \/ b.loginReply = None
         \/ /\ b.loginReply # None /\ b.loginReply[1] \in GdsLoginMessage
            /\ b.loginReply = Some(b.loginReply[1])
      /\ \/ b.errorDetails = None
         \/ (b.errorDetails # None /\ b.errorDetails = Some(b.errorDetails[1]))
  BY OptCases DEF GdsLoginReplyMessage
<1>2. b.loginReply # None =>
         /\ UnpackLogin(PackLogin(b.loginReply[1])) = b.loginReply[1]
         /\ b.errorDetails = None
  BY <1>1, LoginBack DEF ValidLoginReply
<1> DEFINE body == IF b.loginReply # None THEN PackLogin(b.loginReply[1])
                   ELSE OrNil(b.errorDetails, Map)
           reply == IF b.ackStatus = 200 /\ body[1] = "arr" THEN Some(UnpackLogin(body)) ELSE None
           details == IF b.ackStatus = 401 /\ body[1] = "map" THEN Some(body[2]) ELSE None
<1>3. /\ b.loginReply # None =>
            body[1] = "arr" /\ UnpackLogin(body) = b.loginReply[1] /\ b.errorDetails = None
      /\ (b.loginReply = None /\ b.errorDetails # None) =>
            body[1] = "map" /\ body[2] = b.errorDetails[1]
      /\ (b.loginReply = None /\ b.errorDetails = None) => body[1] = "nil"
  <2>1. CASE b.loginReply # None
    BY <1>2, <2>1 DEF PackLogin, Arr
  <2>2. CASE b.loginReply = None
    BY <2>2 DEF OrNil, Map, Nil
  <2>3. QED
    BY <2>1, <2>2
<1>4. /\ reply = IF b.ackStatus = 200 THEN b.loginReply ELSE None
      /\ details = IF b.ackStatus = 401 THEN b.errorDetails ELSE None
  <2> HIDE DEF body
  <2>1. CASE b.loginReply # None
    BY <1>1, <1>3, <2>1
  <2>2. CASE b.loginReply = None /\ b.errorDetails # None
    BY <1>1, <1>3, <2>2
  <2>3. CASE b.loginReply = None /\ b.errorDetails = None
    BY <1>3, <2>3
  <2>4. QED
    BY <2>1, <2>2, <2>3
<1> HIDE DEF body
<1>5. UnlessNil(OrNil(b.ackException, Str), Value) = b.ackException
  BY <1>1 DEF UnlessNil, OrNil, Str, Value, Nil
<1>6. PackLoginReply(b) = Arr(<<Num(b.ackStatus), body, OrNil(b.ackException, Str)>>)
  BY DEF PackLoginReply, body
<1>7. UnpackLoginReply(Arr(<<Num(b.ackStatus), body, OrNil(b.ackException, Str)>>))
        = [ackStatus |-> b.ackStatus, loginReply |-> reply, errorDetails |-> details,
           ackException |-> UnlessNil(OrNil(b.ackException, Str), Value)]
  BY DEF UnpackLoginReply, Arr, Num
<1> HIDE DEF reply, details
<1>8. QED
  BY <1>4, <1>5, <1>6, <1>7 DEF KeptLoginReply

\* Type 5.
LEMMA AttachmentReplyBack ==
    ASSUME NEW b \in GdsAttachmentRequestReplyMessage, ValidAttachmentRequestReply(b)
    PROVE  UnpackAttachmentRequestReply(PackAttachmentRequestReply(b)) = b
<1>1. \A r \in AttachmentRequestBody :
         UnpackAttachmentRequestBody(PackAttachmentRequestBody(r)) = r
  <2> SUFFICES ASSUME NEW r \in AttachmentRequestBody
               PROVE  UnpackAttachmentRequestBody(PackAttachmentRequestBody(r)) = r
    OBVIOUS
  <2>1. r.waitTime = None \/ (r.waitTime # None /\ r.waitTime = Some(r.waitTime[1]))
    BY OptCases DEF AttachmentRequestBody
  <2>2. QED
    BY <2>1, AttachmentResultBack
       DEF AttachmentRequestBody, UnpackAttachmentRequestBody, PackAttachmentRequestBody,
           OrNil, UnlessNil, Value, Arr, Num, Nil, Some
<1>2. /\ \/ b.ackException = None
         \/ (b.ackException # None /\ b.ackException = Some(b.ackException[1]))
      /\ \/ b.request = None
         \/ /\ b.request # None /\ b.request[1] \in AttachmentRequestBody
            /\ b.request = Some(b.request[1])
  BY OptCases DEF GdsAttachmentRequestReplyMessage
<1>3. \A x : PackAttachmentRequestBody(x) # Nil
  BY DEF PackAttachmentRequestBody, Nil, Arr
<1>4. QED
  BY <1>1, <1>2, <1>3
     DEF GdsAttachmentRequestReplyMessage, UnpackAttachmentRequestReply,
         PackAttachmentRequestReply, ValidAttachmentRequestReply, OrNil, UnlessNil, Value,
         Arr, Num, Str, Nil, Some

\* Type 8, without its returnings.
LEMMA EventDocumentBack ==
    \A b \in GdsEventDocumentMessage :
        UnpackEventDocument(PackEventDocument(b)) = KeptEventDocument(b)
BY DescriptorsBack, RowsBack
   DEF GdsEventDocumentMessage, UnpackEventDocument, PackEventDocument, KeptEventDocument,
       Arr, Str

\* Type 9, its results without their returnings.
LEMMA EventDocumentReplyBack ==
    ASSUME NEW b \in GdsEventDocumentReplyMessage
    PROVE  UnpackEventDocumentReply(PackEventDocumentReply(b)) = KeptEventDocumentReply(b)
<1>1. \A r \in EventDocumentResult :
         UnpackEventDocumentResult(PackEventDocumentResult(r)) = KeptDocumentResult(r)
  <2> SUFFICES ASSUME NEW r \in EventDocumentResult
               PROVE  UnpackEventDocumentResult(PackEventDocumentResult(r))
                        = KeptDocumentResult(r)
    OBVIOUS
  <2>1. r.notification = None \/ (r.notification # None /\ r.notification = Some(r.notification[1]))
    BY OptCases DEF EventDocumentResult
  <2>2. QED
    BY <2>1
       DEF EventDocumentResult, UnpackEventDocumentResult, PackEventDocumentResult,
           KeptDocumentResult, OrNil, UnlessNil, Value, Arr, Num, Str, Nil, Some
<1> DEFINE Results(rs) == [i \in DOMAIN rs |-> KeptDocumentResult(rs[i])]
           Packed(rs) == [i \in DOMAIN rs |-> PackEventDocumentResult(rs[i])]
<1>2. \A rs \in Seq(EventDocumentResult) :
         [i \in DOMAIN Packed(rs) |-> UnpackEventDocumentResult(Packed(rs)[i])] = Results(rs)
  BY <1>1
<1>3. /\ \/ b.ackException = None
         \/ (b.ackException # None /\ b.ackException = Some(b.ackException[1]))
      /\ \/ b.results = None
         \/ /\ b.results # None /\ b.results[1] \in Seq(EventDocumentResult)
            /\ b.results = Some(b.results[1])
  BY OptCases DEF GdsEventDocumentReplyMessage
<1> DEFINE kept == IF b.results = None THEN None ELSE Some(Results(b.results[1]))
<1>4. KeptEventDocumentReply(b) = [b EXCEPT !.results = kept]
  BY <1>3 DEF KeptEventDocumentReply, Each, Some, None, GdsEventDocumentReplyMessage
<1> HIDE DEF Results
<1>5. UnpackEventDocumentReply(PackEventDocumentReply(b))
        = [ackStatus |-> b.ackStatus, results |-> kept, ackException |-> b.ackException]
  BY <1>2, <1>3
     DEF UnpackEventDocumentReply, PackEventDocumentReply, Items, List, Each, OrNil,
         UnlessNil, Value, Arr, Num, Str, Nil, Some
<1>6. QED
  BY <1>4, <1>5 DEF GdsEventDocumentReplyMessage

\* Type 10: the two optional items are both there or neither.
LEMMA QueryBack ==
    ASSUME NEW b \in GdsQueryRequestMessage, ValidQueryRequest(b)
    PROVE  UnpackQueryRequest(PackQueryRequest(b)) = b
<1>1. /\ \/ b.queryPageSize = None
         \/ (b.queryPageSize # None /\ b.queryPageSize = Some(b.queryPageSize[1]))
      /\ b.queryType = None \/ (b.queryType # None /\ b.queryType = Some(b.queryType[1]))
  BY OptCases DEF GdsQueryRequestMessage
<1>2. QED
  BY <1>1
     DEF GdsQueryRequestMessage, UnpackQueryRequest, PackQueryRequest, ValidQueryRequest,
         Arr, Str, Num, Some

\* The context of types 11 and 12, without its field values.
LEMMA ContextBack ==
    \A c \in QueryContextDescriptor : UnpackContext(PackContext(c)) = KeptContext(c)
<1>1. \A s \in [1..2 -> STRING] : UnpackStrings(PackStrings(s)) = s
  BY DEF UnpackStrings, PackStrings, Items, List, Arr, Each, Value, Str
<1>2. QED
  BY <1>1, StringsBack
     DEF QueryContextDescriptor, UnpackContext, PackContext, KeptContext, FieldValuesRead,
         Arr, Str, Num

\* Type 12.
LEMMA NextQueryBack ==
    \A b \in GdsNextQueryRequestMessage : UnpackNextQuery(PackNextQuery(b)) = KeptNextQuery(b)
BY ContextBack DEF GdsNextQueryRequestMessage, UnpackNextQuery, PackNextQuery, KeptNextQuery,
                   Arr, Num

\* A sub-result of an event, with each of its members present or not.
LEMMA SubResultBack ==
    ASSUME NEW s \in EventSubResult
    PROVE  UnpackSubResult(PackSubResult(s)) = s
<1>1. /\ s.id = None \/ (s.id # None /\ s.id = Some(s.id[1]))
      /\ s.tableName = None \/ (s.tableName # None /\ s.tableName = Some(s.tableName[1]))
      /\ s.created = None \/ (s.created # None /\ s.created = Some(s.created[1]))
      /\ s.version = None \/ (s.version # None /\ s.version = Some(s.version[1]))
      /\ s.values = None \/ (s.values # None /\ s.values[1] \in Row /\ s.values = Some(s.values[1]))
  BY OptCases DEF EventSubResult
<1>2. \A x : Str(x) # Nil /\ Bool(x) # Nil /\ PackRow(x) # Nil /\ Str(x)[2] = x /\ Bool(x)[2] = x
  BY DEF Str, Bool, PackRow, List, Arr, Nil
<1>3. /\ UnlessNil(OrNil(s.id, Str), Value) = s.id
      /\ UnlessNil(OrNil(s.tableName, Str), Value) = s.tableName
      /\ UnlessNil(OrNil(s.created, Bool), Value) = s.created
      /\ UnlessNil(OrNil(s.version, Str), Value) = s.version
  BY <1>1, <1>2 DEF UnlessNil, OrNil, Value
<1>4. UnlessNil(OrNil(s.values, PackRow), UnpackRow) = s.values
  BY <1>1, <1>2, RowBack DEF UnlessNil, OrNil
<1> DEFINE items == <<Num(s.status), OrNil(s.id, Str), OrNil(s.tableName, Str),
                      OrNil(s.created, Bool), OrNil(s.version, Str), OrNil(s.values, PackRow)>>
<1>5. PackSubResult(s) = Arr(items) /\ Len(items) = 6
  BY DEF PackSubResult
<1>6. UnpackSubResult(Arr(items)) = s
  BY <1>3, <1>4 DEF UnpackSubResult, Arr, Num, EventSubResult
<1>7. QED
  BY <1>5, <1>6

\* A result of an event, with those of its sub-results that are stored.
LEMMA EventResultBack ==
    ASSUME NEW r \in GdsEventResult
    PROVE  UnpackEventResult(PackEventResult(r)) = KeptEventResult(r)
<1> DEFINE Store(s) == IF Len(s[2]) > 5 /\ s[2][6] # Nil THEN Some(UnpackSubResult(s)) ELSE None
           Packed == [i \in DOMAIN r.subResults |-> PackSubResult(r.subResults[i])]
<1>1. \A s \in EventSubResult : Store(PackSubResult(s)) = KeptSubResult(s)
  <2> SUFFICES ASSUME NEW s \in EventSubResult
               PROVE  Store(PackSubResult(s)) = KeptSubResult(s)
    OBVIOUS
  <2>1. Len(PackSubResult(s)[2]) = 6 /\ PackSubResult(s)[2][6] = OrNil(s.values, PackRow)
    BY DEF PackSubResult, Arr
  <2>2. OrNil(s.values, PackRow) = Nil <=> s.values = None
    BY DEF OrNil, PackRow, List, Arr, Nil
  <2>3. QED
    BY <2>1, <2>2, SubResultBack DEF KeptSubResult
<1> HIDE DEF Store
<1>2. [i \in DOMAIN Packed |-> Store(Packed[i])]
        = [i \in DOMAIN r.subResults |-> KeptSubResult(r.subResults[i])]
  BY <1>1 DEF GdsEventResult
<1>3. UnpackEventResult(PackEventResult(r))
        = [status |-> r.status, notification |-> r.notification,
           fieldDescriptor |-> r.fieldDescriptor,
           subResults |-> Stored([i \in DOMAIN Packed |-> Store(Packed[i])])]
  BY DescriptorsBack
     DEF UnpackEventResult, PackEventResult, GdsEventResult, Arr, Num, Str, Nil, List, Items,
         Each, Store
<1>4. KeptEventResult(r)
        = [r EXCEPT !.subResults =
              Stored([i \in DOMAIN r.subResults |-> KeptSubResult(r.subResults[i])])]
  BY DEF KeptEventResult, Each
<1> HIDE DEF Packed
<1>5. QED
  BY <1>2, <1>3, <1>4 DEF GdsEventResult

\* Type 3 as a GDS packs it.
LEMMA EventReplyBack ==
    ASSUME NEW b \in GdsEventReplyMessage
    PROVE  UnpackEventReply(GdsEventReply(b)) = KeptEventReply(b)
<1> DEFINE Results(rs) == [i \in DOMAIN rs |-> KeptEventResult(rs[i])]
           Packed(rs) == [i \in DOMAIN rs |-> PackEventResult(rs[i])]
<1>1. \A rs \in Seq(GdsEventResult) :
         [i \in DOMAIN Packed(rs) |-> UnpackEventResult(Packed(rs)[i])] = Results(rs)
  BY EventResultBack
<1>2. /\ \/ b.ackException = None
         \/ (b.ackException # None /\ b.ackException = Some(b.ackException[1]))
      /\ \/ b.reply = None
         \/ /\ b.reply # None /\ b.reply[1] \in Seq(GdsEventResult)
            /\ b.reply = Some(b.reply[1])
  BY OptCases DEF GdsEventReplyMessage
<1> DEFINE kept == IF b.reply = None THEN None ELSE Some(Results(b.reply[1]))
<1>3. KeptEventReply(b) = [b EXCEPT !.reply = kept]
  BY <1>2 DEF KeptEventReply, Each, Some, None, GdsEventReplyMessage
<1> HIDE DEF Results
<1>4. UnpackEventReply(GdsEventReply(b))
        = [ackStatus |-> b.ackStatus, reply |-> kept, ackException |-> b.ackException]
  BY <1>1, <1>2
     DEF UnpackEventReply, GdsEventReply, Items, List, Each, OrNil, UnlessNil, Value, Arr,
         Num, Str, Nil, Some
<1>5. QED
  BY <1>3, <1>4 DEF GdsEventReplyMessage

\* Type 11: the total of a page without hits is what the memory held.
LEMMA QueryReplyBack ==
    ASSUME NEW b \in GdsQueryReplyMessage, NEW memory
    PROVE  UnpackQueryReply(PackQueryReply(b), memory) = KeptQueryReply(b, memory)
<1>1. ASSUME NEW p \in QueryReplyBody
      PROVE  UnpackQueryReplyBody(PackQueryReplyBody(p), memory) = KeptPage(p, memory)
  <2> DEFINE d == <<Num(p.numberOfHits), Num(p.filteredHits), Bool(p.hasMorePages),
                    PackContext(p.queryContextDescriptor),
                    PackDescriptors(p.fieldDescriptors), PackRows(p.hits),
                    Num(p.totalNumberOfHits)>>
  <2>1. PackQueryReplyBody(p) = Arr(d) /\ Len(d) = 7
    BY DEF PackQueryReplyBody
  <2>2. PackRows(p.hits) = Arr(<<>>) <=> p.hits = <<>>
    BY DEF PackRows, List, Each, Arr, QueryReplyBody
  <2>3. /\ UnpackContext(PackContext(p.queryContextDescriptor))
              = KeptContext(p.queryContextDescriptor)
        /\ UnpackDescriptors(PackDescriptors(p.fieldDescriptors)) = p.fieldDescriptors
        /\ UnpackRows(PackRows(p.hits)) = p.hits
    BY ContextBack, DescriptorsBack, RowsBack DEF QueryReplyBody
  <2>4. UnpackQueryReplyBody(Arr(d), memory)
          = [numberOfHits |-> p.numberOfHits, filteredHits |-> p.filteredHits,
             hasMorePages |-> p.hasMorePages,
             queryContextDescriptor |-> KeptContext(p.queryContextDescriptor),
             fieldDescriptors |-> p.fieldDescriptors, hits |-> p.hits,
             totalNumberOfHits |-> IF p.hits = <<>> THEN memory ELSE p.totalNumberOfHits]
    BY <2>2, <2>3 DEF UnpackQueryReplyBody, Arr, Num, Bool
  <2> DEFINE context == KeptContext(p.queryContextDescriptor)
             total == IF p.hits = <<>> THEN memory ELSE p.totalNumberOfHits
             counted == [p EXCEPT !.totalNumberOfHits = total]
  <2>5. KeptPage(p, memory) = [counted EXCEPT !.queryContextDescriptor = context]
    <3>1. /\ KeptTotal(p, memory) = counted
          /\ counted.queryContextDescriptor = p.queryContextDescriptor
      BY DEF KeptTotal, QueryReplyBody
    <3> HIDE DEF counted
    <3>2. QED
      BY <3>1 DEF KeptPage
  <2> HIDE DEF d, context, total
  <2>6. counted
          = [numberOfHits |-> p.numberOfHits, filteredHits |-> p.filteredHits,
             hasMorePages |-> p.hasMorePages,
             queryContextDescriptor |-> p.queryContextDescriptor,
             fieldDescriptors |-> p.fieldDescriptors, hits |-> p.hits,
             totalNumberOfHits |-> total]
    BY DEF QueryReplyBody
  <2> HIDE DEF counted
  <2>7. [counted EXCEPT !.queryContextDescriptor = context]
          = [numberOfHits |-> p.numberOfHits, filteredHits |-> p.filteredHits,
             hasMorePages |-> p.hasMorePages, queryContextDescriptor |-> context,
             fieldDescriptors |-> p.fieldDescriptors, hits |-> p.hits,
             totalNumberOfHits |-> total]
    BY <2>6
  <2>8. QED
    BY <2>1, <2>4, <2>5, <2>7 DEF context, total
<1>2. /\ \/ b.ackException = None
         \/ (b.ackException # None /\ b.ackException = Some(b.ackException[1]))
      /\ \/ b.response = None
         \/ /\ b.response # None /\ b.response[1] \in QueryReplyBody
            /\ b.response = Some(b.response[1])
  BY OptCases DEF GdsQueryReplyMessage
<1> DEFINE kept == IF b.response = None THEN None ELSE Some(KeptPage(b.response[1], memory))
<1>3. KeptQueryReply(b, memory) = [b EXCEPT !.response = kept]
  <2>1. [i \in DOMAIN b.response |-> KeptPage(b.response[i], memory)] = kept
    BY <1>2 DEF Some, None
  <2>2. QED
    BY <2>1 DEF KeptQueryReply, Each
<1>4. \A x : PackQueryReplyBody(x) # Nil
  BY DEF PackQueryReplyBody, Arr, Nil
<1>5. UnpackQueryReply(PackQueryReply(b), memory)
        = [ackStatus |-> b.ackStatus, response |-> kept, ackException |-> b.ackException]
  BY <1>1, <1>2, <1>4
     DEF UnpackQueryReply, PackQueryReply, OrNil, UnlessNil, Value, Arr, Num, Str, Nil, Some
<1>6. QED
  BY <1>3, <1>5 DEF GdsQueryReplyMessage

-----------------------------------------------------------------------------
(* Any body.                                                               *)

\* Types 4 and 6.
LEMMA RequestBack ==
    /\ \A b \in GdsAttachmentRequestMessage : [request |-> Str(b.request)[2]] = b
    /\ \A b \in GdsAttachmentResponseMessage :
          [result |-> UnpackAttachmentResult(Arr(<<PackAttachmentResult(b.result)>>)[2][1])] = b
BY AttachmentResultBack DEF GdsAttachmentRequestMessage, GdsAttachmentResponseMessage, Str, Arr

\* Every body is read as what is kept of it.
LEMMA BodyBack ==
    ASSUME NEW type \in 0..12, NEW b \in BodyOf(type), NEW memory, ValidBody(type, b),
           type = 3 => ~GdsIsOurs
    PROVE  UnpackBody(type, PackBody(type, b), memory) = KeptBody(type, b, memory)
<1> USE DEF BodyOf, PackBody, UnpackBody, ValidBody, KeptBody
<1>0. CASE type = 0
  BY <1>0, LoginBack
<1>1. CASE type = 1
  BY <1>1, LoginReplyBack
<1>2. CASE type = 2
  BY <1>2, EventBack
<1>3. CASE type = 3
  BY <1>3, EventReplyBack
<1>4. CASE type = 4
  BY <1>4, RequestBack
<1>5. CASE type = 5
  BY <1>5, AttachmentReplyBack
<1>6. CASE type = 6
  BY <1>6, RequestBack
<1>7. CASE type = 7
  BY <1>7, AttachmentResponseBack
<1>8. CASE type = 8
  BY <1>8, EventDocumentBack
<1>9. CASE type = 9
  BY <1>9, EventDocumentReplyBack
<1>10. CASE type = 10
  BY <1>10, QueryBack
<1>11. CASE type = 11
  BY <1>11, QueryReplyBack
<1>12. CASE type = 12
  BY <1>12, NextQueryBack
<1> HIDE DEF BodyOf, PackBody, UnpackBody, ValidBody, KeptBody
<1>13. QED
  BY <1>0, <1>1, <1>2, <1>3, <1>4, <1>5, <1>6, <1>7, <1>8, <1>9, <1>10, <1>11, <1>12

-----------------------------------------------------------------------------
(* What is kept is a body of the same type, and as valid.                  *)

\* An absent member is one.
LEMMA NoneIsOptional == ASSUME NEW S PROVE None \in Opt(S)
BY DEF Opt

\* So is a present one.
LEMMA SomeIsOptional == ASSUME NEW S, NEW x \in S PROVE Some(x) \in Opt(S)
BY DEF Opt, Some

\* What the loop over the sub-results stores is a list of those present.
LEMMA StoredTyped ==
    ASSUME NEW S, NEW subs, Len(subs) \in Nat, \A i \in 1..Len(subs) : subs[i] \in Opt(S)
    PROVE  Stored(subs) \in Seq(S)
<1> DEFINE R(n) == Storing!Rec(subs)[n]
           T == {n \in Nat : n <= Len(subs) => R(n) \in Seq(S)}
<1>1. /\ R(0) = <<>>
      /\ \A n \in Nat : R(n + 1) = R(n) \o subs[n + 1]
  BY Storing!Recursive DEF NothingStored, StoreNext
<1> HIDE DEF R
<1>2. 0 \in T
  <2>1. <<>> \in Seq(S)
    OBVIOUS
  <2>2. QED
    BY <1>1, <2>1
<1>3. ASSUME NEW n \in Nat, n \in T PROVE n + 1 \in T
  <2>1. SUFFICES ASSUME n + 1 <= Len(subs) PROVE R(n + 1) \in Seq(S)
    OBVIOUS
  <2>2. n + 1 \in 1..Len(subs) /\ R(n) \in Seq(S)
    BY <1>3, <2>1
  <2>3. subs[n + 1] \in Seq(S)
    <3>1. \/ subs[n + 1] = None
          \/ subs[n + 1][1] \in S /\ subs[n + 1] = Some(subs[n + 1][1])
      BY <2>2, OptCases
    <3>2. <<>> \in Seq(S) /\ \A x \in S : <<x>> \in Seq(S)
      OBVIOUS
    <3> HIDE DEF T
    <3>3. CASE subs[n + 1] = None
      BY <3>2, <3>3 DEF None
    <3>4. CASE subs[n + 1][1] \in S /\ subs[n + 1] = Some(subs[n + 1][1])
      <4> DEFINE x == subs[n + 1][1]
      <4>1. x \in S /\ subs[n + 1] = <<x>>
        BY <3>4 DEF Some
      <4> HIDE DEF x
      <4>2. QED
        BY <3>2, <4>1
    <3>5. QED
      BY <3>1, <3>3, <3>4
  <2>4. R(n) \o subs[n + 1] \in Seq(S)
    BY <2>2, <2>3
  <2>5. QED
    BY <1>1, <2>4
<1>4. Nat \subseteq T
  <2> HIDE DEF T
  <2>1. QED
    BY <1>2, <1>3, Storing!NatSetInduction
<1>5. QED
  BY <1>4 DEF Stored, R

\* What is kept of an event reply is one.
LEMMA KeptEventReplyTyped ==
    ASSUME NEW b \in GdsEventReplyMessage
    PROVE  KeptEventReply(b) \in GdsEventReplyMessage
<1>1. ASSUME NEW r \in GdsEventResult PROVE KeptEventResult(r) \in GdsEventResult
  <2> DEFINE subs == [i \in DOMAIN r.subResults |-> KeptSubResult(r.subResults[i])]
  <2>1. r.subResults \in Seq(EventSubResult)
    BY DEF GdsEventResult
  <2>2. \A i \in 1..Len(r.subResults) : KeptSubResult(r.subResults[i]) \in Opt(EventSubResult)
    BY <2>1, NoneIsOptional, SomeIsOptional DEF KeptSubResult
  <2>3. subs \in Seq(Opt(EventSubResult))
    BY <2>1, <2>2
  <2> HIDE DEF subs
  <2>4. Stored(subs) \in Seq(EventSubResult)
    BY <2>3, StoredTyped
  <2>5. KeptEventResult(r) = [r EXCEPT !.subResults = Stored(subs)]
    BY DEF KeptEventResult, Each, subs
  <2>6. QED
    BY <2>4, <2>5 DEF GdsEventResult
<1>2. \A rs \in Seq(GdsEventResult) :
         [i \in DOMAIN rs |-> KeptEventResult(rs[i])] \in Seq(GdsEventResult)
  BY <1>1
<1> DEFINE kept == [i \in DOMAIN b.reply |->
                       [j \in DOMAIN b.reply[i] |-> KeptEventResult(b.reply[i][j])]]
<1>3. kept \in Opt(Seq(GdsEventResult))
  BY <1>2 DEF GdsEventReplyMessage, Opt, None
<1>4. KeptEventReply(b) = [b EXCEPT !.reply = kept]
  BY DEF KeptEventReply, Each
<1> HIDE DEF kept
<1>5. QED
  BY <1>3, <1>4 DEF GdsEventReplyMessage

\* The empty map is a map.
LEMMA EmptyMapTyped == ASSUME NEW K, NEW S PROVE EmptyMap(K) \in MapOf(K, S)
BY NoneIsOptional DEF EmptyMap, MapOf

\* What is kept of a document reply is one.
LEMMA KeptEventDocumentReplyTyped ==
    ASSUME NEW b \in GdsEventDocumentReplyMessage
    PROVE  KeptEventDocumentReply(b) \in GdsEventDocumentReplyMessage
<1>1. \A r \in EventDocumentResult : KeptDocumentResult(r) \in EventDocumentResult
  BY EmptyMapTyped DEF KeptDocumentResult, EventDocumentResult
<1>2. \A rs \in Seq(EventDocumentResult) :
         [i \in DOMAIN rs |-> KeptDocumentResult(rs[i])] \in Seq(EventDocumentResult)
  BY <1>1
<1> DEFINE kept == [i \in DOMAIN b.results |->
                       [j \in DOMAIN b.results[i] |-> KeptDocumentResult(b.results[i][j])]]
<1>3. kept \in Opt(Seq(EventDocumentResult))
  BY <1>2 DEF GdsEventDocumentReplyMessage, Opt, None
<1>4. KeptEventDocumentReply(b) = [b EXCEPT !.results = kept]
  BY DEF KeptEventDocumentReply, Each
<1> HIDE DEF kept
<1>5. QED
  BY <1>3, <1>4 DEF GdsEventDocumentReplyMessage

\* What is kept of a context is one.
LEMMA KeptContextTyped ==
    \A c \in QueryContextDescriptor : KeptContext(c) \in QueryContextDescriptor
<1>1. <<>> \in Row
  BY DEF Row
<1>2. QED
  BY <1>1 DEF KeptContext, QueryContextDescriptor

\* The hits stay, and with them their number.
LEMMA KeptPageTyped ==
    ASSUME NEW p \in QueryReplyBody, NEW memory \in Int
    PROVE  /\ KeptPage(p, memory) \in QueryReplyBody
           /\ KeptPage(p, memory).hits = p.hits
           /\ KeptPage(p, memory).numberOfHits = p.numberOfHits
           /\ KeptPage(p, memory).hasMorePages = p.hasMorePages
           /\ KeptPage(p, memory).queryContextDescriptor = KeptContext(p.queryContextDescriptor)
<1>1. /\ KeptTotal(p, memory) \in QueryReplyBody
      /\ KeptTotal(p, memory).hits = p.hits
      /\ KeptTotal(p, memory).numberOfHits = p.numberOfHits
      /\ KeptTotal(p, memory).hasMorePages = p.hasMorePages
      /\ KeptTotal(p, memory).queryContextDescriptor = p.queryContextDescriptor
  BY DEF KeptTotal, QueryReplyBody
<1>2. KeptContext(p.queryContextDescriptor) \in QueryContextDescriptor
  BY KeptContextTyped DEF QueryReplyBody
<1>3. QED
  BY <1>1, <1>2 DEF KeptPage, QueryReplyBody

\* What is kept of a query reply is one, with a page where there was one.
LEMMA KeptQueryReplyTyped ==
    ASSUME NEW b \in GdsQueryReplyMessage, NEW memory \in Int
    PROVE  /\ KeptQueryReply(b, memory) \in GdsQueryReplyMessage
           /\ KeptQueryReply(b, memory).response = None <=> b.response = None
           /\ b.response # None =>
                KeptQueryReply(b, memory).response[1] = KeptPage(b.response[1], memory)
<1> DEFINE kept == [i \in DOMAIN b.response |-> KeptPage(b.response[i], memory)]
<1>1. \/ b.response = None
      \/ /\ b.response # None /\ b.response[1] \in QueryReplyBody
         /\ b.response = Some(b.response[1])
  BY OptCases DEF GdsQueryReplyMessage
<1>2. /\ b.response = None => kept = None
      /\ b.response # None => kept = Some(KeptPage(b.response[1], memory))
  BY <1>1 DEF None, Some
<1>3. KeptQueryReply(b, memory) = [b EXCEPT !.response = kept]
  BY DEF KeptQueryReply, Each
<1> HIDE DEF kept
<1>4. kept \in Opt(QueryReplyBody)
  BY <1>1, <1>2, KeptPageTyped, NoneIsOptional, SomeIsOptional
<1>5. QED
  BY <1>2, <1>3, <1>4 DEF GdsQueryReplyMessage, None, Some

\* What is kept of a body is a body of that type, and valid if that was.
LEMMA KeptBodyTyped ==
    ASSUME NEW type \in 0..12, NEW b \in BodyOf(type), NEW memory \in Int
    PROVE  /\ KeptBody(type, b, memory) \in BodyOf(type)
           /\ ValidBody(type, b) => ValidBody(type, KeptBody(type, b, memory))
<1> USE DEF BodyOf, ValidBody, KeptBody
<1>1. CASE type = 1
  <2>1. KeptLoginReply(b) \in GdsLoginReplyMessage
    <3>1. None \in Opt(GdsLoginMessage) /\ None \in Opt(MapOf(Indexes, STRING))
      BY NoneIsOptional
    <3>2. QED
      BY <1>1, <3>1 DEF KeptLoginReply, GdsLoginReplyMessage
  <2>2. ValidLoginReply(b) => ValidLoginReply(KeptLoginReply(b))
    BY <1>1 DEF KeptLoginReply, ValidLoginReply, GdsLoginReplyMessage
  <2>3. QED
    BY <1>1, <2>1, <2>2
<1>3. CASE type = 3
  BY <1>3, KeptEventReplyTyped
<1>8. CASE type = 8
  <2>1. KeptEventDocument(b) \in GdsEventDocumentMessage
    BY <1>8, EmptyMapTyped DEF KeptEventDocument, GdsEventDocumentMessage
  <2>2. ValidEventDocument(b) => ValidEventDocument(KeptEventDocument(b))
    BY <1>8 DEF KeptEventDocument, ValidEventDocument, GdsEventDocumentMessage
  <2>3. QED
    BY <1>8, <2>1, <2>2
<1>9. CASE type = 9
  BY <1>9, KeptEventDocumentReplyTyped
<1>11. CASE type = 11
  <2>1. b.response # None => b.response[1] \in QueryReplyBody
    BY <1>11, OptCases DEF GdsQueryReplyMessage
  <2>2. ValidQueryReply(b) => ValidQueryReply(KeptQueryReply(b, memory))
    BY <1>11, <2>1, KeptQueryReplyTyped, KeptPageTyped DEF ValidQueryReply
  <2>3. QED
    BY <1>11, <2>2, KeptQueryReplyTyped
<1>12. CASE type = 12
  <2>1. KeptNextQuery(b) \in GdsNextQueryRequestMessage
    BY <1>12, KeptContextTyped DEF KeptNextQuery, GdsNextQueryRequestMessage
  <2>2. QED
    BY <1>12, <2>1
<1>13. CASE type \notin {1, 3, 8, 9, 11, 12}
  BY <1>13
<1>14. QED
  BY <1>1, <1>3, <1>8, <1>9, <1>11, <1>12, <1>13

-----------------------------------------------------------------------------
(* A message.                                                              *)

\* Of the event replies this library packs itself only those without a result
\* are read as the arrays they should be.
LEMMA OursWithoutResults ==
    ASSUME NEW b \in GdsEventReplyMessage, PackEventReply(b) # Garbled,
           LET reply == PackEventReply(b)[2][2]
           IN  reply # Nil => \A i \in DOMAIN reply[2] : reply[2][i][1] = "arr"
    PROVE  PackEventReply(b) = GdsEventReply(b)
<1> DEFINE Reply(body) == Arr(<<Num(b.ackStatus), body, OrNil(b.ackException, Str)>>)
<1>1. CASE b.reply = None
  BY <1>1 DEF PackEventReply, GdsEventReply, OrNil
<1>2. CASE b.reply # None
  <2> DEFINE result == PackEventResult(b.reply[1][1])
  <2>1. PackEventReply(b) = Reply(result)
    BY <1>2 DEF PackEventReply
  <2>2. PackEventReply(b)[2][2] = result
    BY <2>1 DEF Arr
  <2>3. result # Nil /\ 1 \in DOMAIN result[2] /\ result[2][1][1] = "int"
    BY DEF PackEventResult, Arr, Nil, Num
  <2>4. QED
    BY <2>2, <2>3
<1>3. QED
  BY <1>1, <1>2

\* A body that is there is packed as an array or a string, never as nil.
LEMMA PackedBody ==
    ASSUME NEW type \in 0..12, NEW b \in BodyOf(type), ~GdsIsOurs
    PROVE  /\ PackBody(type, b) # Nil
           /\ PackBody(type, b) # Garbled
<1>1. \A x : /\ PackLogin(x)[1] = "arr"
           /\ PackLoginReply(x)[1] = "arr"
           /\ PackEvent(x)[1] = "arr"
           /\ GdsEventReply(x)[1] = "arr"
           /\ Str(x)[1] = "str"
           /\ PackAttachmentRequestReply(x)[1] = "arr"
           /\ Arr(x)[1] = "arr"
           /\ PackAttachmentResponseResult(x)[1] = "arr"
           /\ PackEventDocument(x)[1] = "arr"
           /\ PackEventDocumentReply(x)[1] = "arr"
           /\ PackQueryRequest(x)[1] = "arr"
           /\ PackQueryReply(x)[1] = "arr"
           /\ PackNextQuery(x)[1] = "arr"
  <2>1. \A x : Arr(x)[1] = "arr" /\ Str(x)[1] = "str"
    BY DEF Arr, Str
  <2> SUFFICES ASSUME NEW x PROVE /\ PackLogin(x)[1] = "arr"
                                 /\ PackLoginReply(x)[1] = "arr"
                                 /\ PackEvent(x)[1] = "arr"
                                 /\ GdsEventReply(x)[1] = "arr"
                                 /\ PackAttachmentRequestReply(x)[1] = "arr"
                                 /\ PackAttachmentResponseResult(x)[1] = "arr"
                                 /\ PackEventDocument(x)[1] = "arr"
                                 /\ PackEventDocumentReply(x)[1] = "arr"
                                 /\ PackQueryRequest(x)[1] = "arr"
                                 /\ PackQueryReply(x)[1] = "arr"
                                 /\ PackNextQuery(x)[1] = "arr"
    BY <2>1
  <2>2. PackLogin(x)[1] = "arr" /\ PackLoginReply(x)[1] = "arr" /\ PackEvent(x)[1] = "arr"
    BY <2>1 DEF PackLogin, PackLoginReply, PackEvent
  <2>3. /\ GdsEventReply(x)[1] = "arr" /\ PackAttachmentRequestReply(x)[1] = "arr"
        /\ PackAttachmentResponseResult(x)[1] = "arr"
    BY <2>1 DEF GdsEventReply, PackAttachmentRequestReply, PackAttachmentResponseResult
  <2>4. PackEventDocument(x)[1] = "arr" /\ PackEventDocumentReply(x)[1] = "arr"
    BY <2>1 DEF PackEventDocument, PackEventDocumentReply
  <2>5. /\ PackQueryRequest(x)[1] = "arr" /\ PackQueryReply(x)[1] = "arr"
        /\ PackNextQuery(x)[1] = "arr"
    BY <2>1 DEF PackQueryRequest, PackQueryReply, PackNextQuery
  <2>6. QED
    BY <2>2, <2>3, <2>4, <2>5
<1>2. PackBody(type, b)[1] \in {"arr", "str"}
  <2>1. CASE type \in {0, 1, 2, 3}
    BY <1>1, <2>1 DEF PackBody
  <2>2. CASE type \in {4, 5, 6, 7}
    BY <1>1, <2>2 DEF PackBody
  <2>3. CASE type \in {8, 9, 10, 11, 12}
    BY <1>1, <2>3 DEF PackBody
  <2>4. QED
    BY <2>1, <2>2, <2>3
<1>3. QED
  BY <1>2 DEF Nil, Garbled

\* The results of an event reply of a GDS are arrays.
LEMMA GdsReplyResults ==
    ASSUME NEW b \in GdsEventReplyMessage, GdsEventReply(b)[2][2] # Nil
    PROVE  \A i \in DOMAIN GdsEventReply(b)[2][2][2] : GdsEventReply(b)[2][2][2][i][1] = "arr"
<1>1. GdsEventReply(b)[2][2] = OrNil(b.reply, LAMBDA rs : List(rs, PackEventResult))
  BY DEF GdsEventReply, Arr
<1>2. b.reply # None
  BY <1>1 DEF OrNil
<1>3. GdsEventReply(b)[2][2][2] = [i \in DOMAIN b.reply[1] |-> PackEventResult(b.reply[1][i])]
  BY <1>1, <1>2 DEF OrNil, List, Each, Arr
<1>4. \A r : PackEventResult(r)[1] = "arr"
  BY DEF PackEventResult, Arr
<1>5. QED
  BY <1>3, <1>4

\* What there is of a body comes back, if the message is read at all.
LEMMA BodyReadBack ==
    ASSUME NEW type \in 0..12, NEW b \in BodyOf(type), NEW memory, ValidBody(type, b),
           LET body == PackBody(type, b)
           IN  /\ body # Garbled
               /\ (type = 3 /\ body[2][2] # Nil) =>
                     \A i \in DOMAIN body[2][2][2] : body[2][2][2][i][1] = "arr"
    PROVE  UnpackBody(type, PackBody(type, b), memory) = KeptBody(type, b, memory)
<1>1. CASE type = 3 /\ GdsIsOurs
  <2>1. b \in GdsEventReplyMessage /\ PackBody(type, b) = PackEventReply(b)
    BY <1>1 DEF BodyOf, PackBody
  <2>2. PackEventReply(b) = GdsEventReply(b)
    BY <1>1, <2>1, OursWithoutResults
  <2>3. UnpackEventReply(PackEventReply(b)) = KeptEventReply(b)
    BY <2>1, <2>2, EventReplyBack
  <2>4. QED
    BY <1>1, <2>1, <2>3 DEF UnpackBody, KeptBody
<1>2. CASE ~(type = 3 /\ GdsIsOurs)
  BY <1>2, BodyBack
<1>3. QED
  BY <1>1, <1>2

\* The last of the eleven items of a packed message.
PackedBodyOf(m) == IF m.messageBody = None THEN Nil ELSE PackBody(m.dataType, m.messageBody[1])

\* The eleven items of a packed message.
LEMMA PackedMessage ==
    ASSUME NEW m
    PROVE  LET d == PackMessage(m)[2]
           IN  /\ d[1] = Str(m.userName) /\ d[2] = Str(m.messageId)
               /\ d[3] = Num(m.createTime) /\ d[4] = Num(m.requestTime)
               /\ d[5] = Bool(m.isFragmented)
               /\ d[6] = IF m.isFragmented THEN Str(m.firstFragment[1]) ELSE Nil
               /\ d[7] = IF m.isFragmented THEN Str(m.lastFragment[1]) ELSE Nil
               /\ d[8] = IF m.isFragmented THEN Num(m.offset[1]) ELSE Nil
               /\ d[9] = IF m.isFragmented THEN Num(m.fds[1]) ELSE Nil
               /\ d[10] = Num(m.dataType)
               /\ d[11] = PackedBodyOf(m)
BY DEF PackMessage, Arr, OrNil, PackedBodyOf

\* A body is of its message's type, and types without one have none.
LEMMA BodyCases ==
    ASSUME NEW m, m \in GdsMessage(m.dataType)
    PROVE  /\ m.messageBody # None =>
                /\ m.dataType \in 0..12
                /\ m.messageBody[1] \in BodyOf(m.dataType)
                /\ m.messageBody = Some(m.messageBody[1])
           /\ ~HasBody(m.dataType) => m.messageBody = None
<1>1. CASE HasBody(m.dataType)
  <2>1. m.messageBody \in Opt(BodyOf(m.dataType))
    BY <1>1 DEF GdsMessage
  <2>2. QED
    BY <1>1, <2>1, OptCases DEF HasBody
<1>2. CASE ~HasBody(m.dataType)
  BY <1>2 DEF GdsMessage
<1>3. QED
  BY <1>1, <1>2

\* Of a message all but the body is kept.
LEMMA KeptMessage ==
    ASSUME NEW m, m \in GdsMessage(m.dataType), NEW memory
    PROVE  Kept(m, memory)
             = [m EXCEPT !.messageBody =
                   IF m.messageBody = None THEN None
                   ELSE Some(KeptBody(m.dataType, m.messageBody[1], memory))]
<1> DEFINE body == IF m.messageBody = None THEN None
                   ELSE Some(KeptBody(m.dataType, m.messageBody[1], memory))
<1>1. [i \in DOMAIN m.messageBody |-> KeptBody(m.dataType, m.messageBody[i], memory)] = body
  BY BodyCases DEF None, Some
<1>2. QED
  BY <1>1 DEF Kept, Each

\* What is kept of a message is one of the same type, and as valid.
LEMMA KeptTyped ==
    ASSUME NEW m, m \in GdsMessage(m.dataType), NEW memory \in Int
    PROVE  /\ Kept(m, memory) \in GdsMessage(m.dataType)
           /\ Kept(m, memory).dataType = m.dataType
           /\ Valid(m) => Valid(Kept(m, memory))
<1> DEFINE body == IF m.messageBody = None THEN None
                   ELSE Some(KeptBody(m.dataType, m.messageBody[1], memory))
           kept == [m EXCEPT !.messageBody = body]
<1>1. Kept(m, memory) = kept
  BY KeptMessage
<1>2. m.messageBody # None =>
         /\ KeptBody(m.dataType, m.messageBody[1], memory) \in BodyOf(m.dataType)
         /\ ValidBody(m.dataType, m.messageBody[1]) =>
               ValidBody(m.dataType, KeptBody(m.dataType, m.messageBody[1], memory))
  BY BodyCases, KeptBodyTyped
<1>3. body \in IF HasBody(m.dataType) THEN Opt(BodyOf(m.dataType)) ELSE {None}
  BY <1>2, BodyCases, NoneIsOptional, SomeIsOptional
<1>4. /\ body # None => m.messageBody # None
      /\ body # None => body[1] = KeptBody(m.dataType, m.messageBody[1], memory)
  BY DEF Some, None
<1> HIDE DEF body
<1>5. kept \in GdsMessage(m.dataType)
  BY <1>3 DEF GdsMessage
<1>6. /\ kept.dataType = m.dataType /\ kept.createTime = m.createTime
      /\ kept.isFragmented = m.isFragmented /\ FragmentFields(kept) = FragmentFields(m)
      /\ kept.messageBody = body
  BY DEF GdsMessage, FragmentFields
<1> HIDE DEF kept
<1>7. Valid(m) => Valid(kept)
  BY <1>2, <1>4, <1>6 DEF Valid, ValidHeader
<1>8. QED
  BY <1>1, <1>5, <1>6, <1>7

\* The four fragment fields are there just when the message is fragmented.
LEMMA FragmentsBack ==
    ASSUME NEW m, m \in GdsMessage(m.dataType), Valid(m)
    PROVE  LET d == PackMessage(m)[2]
               Field(i) == IF d[5][2] THEN Some(d[i][2]) ELSE None
           IN  /\ m.firstFragment = Field(6) /\ m.lastFragment = Field(7)
               /\ m.offset = Field(8) /\ m.fds = Field(9)
<1>1. /\ (m.firstFragment # None) = m.isFragmented /\ (m.lastFragment # None) = m.isFragmented
      /\ (m.offset # None) = m.isFragmented /\ (m.fds # None) = m.isFragmented
  <2>1. \A i \in 1..4 : (FragmentFields(m)[i] # None) = m.isFragmented
    BY DEF Valid, ValidHeader
  <2>2. /\ FragmentFields(m)[1] = m.firstFragment /\ FragmentFields(m)[2] = m.lastFragment
        /\ FragmentFields(m)[3] = m.offset /\ FragmentFields(m)[4] = m.fds
    BY DEF FragmentFields
  <2> HIDE DEF FragmentFields
  <2>3. QED
    BY <2>1, <2>2
<1>2. m.isFragmented \in BOOLEAN
  BY DEF GdsMessage
<1>3. /\ m.firstFragment \in Opt(STRING) /\ m.lastFragment \in Opt(STRING)
      /\ m.offset \in Opt(Int) /\ m.fds \in Opt(Int)
  BY DEF GdsMessage
<1>4. /\ m.firstFragment = None \/ m.firstFragment = Some(m.firstFragment[1])
      /\ m.lastFragment = None \/ m.lastFragment = Some(m.lastFragment[1])
      /\ m.offset = None \/ m.offset = Some(m.offset[1])
      /\ m.fds = None \/ m.fds = Some(m.fds[1])
  BY <1>3, OptCases
<1> DEFINE d == PackMessage(m)[2]
<1>5. /\ d[5][2] = m.isFragmented
      /\ m.isFragmented => /\ d[6][2] = m.firstFragment[1] /\ d[7][2] = m.lastFragment[1]
                           /\ d[8][2] = m.offset[1] /\ d[9][2] = m.fds[1]
  <2>1. /\ d[5] = Bool(m.isFragmented)
        /\ m.isFragmented => /\ d[6] = Str(m.firstFragment[1]) /\ d[7] = Str(m.lastFragment[1])
                             /\ d[8] = Num(m.offset[1]) /\ d[9] = Num(m.fds[1])
    BY PackedMessage
  <2> HIDE DEF d
  <2>2. QED
    BY <2>1 DEF Bool, Str, Num
<1> HIDE DEF d
<1>6. CASE m.isFragmented
  BY <1>1, <1>4, <1>5, <1>6 DEF d
<1>7. CASE ~m.isFragmented
  BY <1>1, <1>5, <1>7 DEF d
<1>8. QED
  BY <1>2, <1>6, <1>7

\* A valid message that is read at all is read as what is kept of it.
LEMMA MessageBack ==
    ASSUME NEW m, m \in GdsMessage(m.dataType), Valid(m), NEW memory,
           WellTyped(PackMessage(m))
    PROVE  /\ UnpackMessage(PackMessage(m), memory) = Kept(m, memory)
           /\ HasBody(m.dataType) => m.messageBody # None
<1> DEFINE d == PackMessage(m)[2]
           Field(i) == IF d[5][2] THEN Some(d[i][2]) ELSE None
           type == m.dataType
           body == IF HasBody(type) THEN Some(UnpackBody(type, d[11], memory)) ELSE None
<1>1. /\ d[1][2] = m.userName /\ d[2][2] = m.messageId /\ d[3][2] = m.createTime
      /\ d[4][2] = m.requestTime /\ d[5][2] = m.isFragmented /\ d[10][2] = type
      /\ d[11] = PackedBodyOf(m)
  <2>1. /\ d[1] = Str(m.userName) /\ d[2] = Str(m.messageId) /\ d[3] = Num(m.createTime)
        /\ d[4] = Num(m.requestTime) /\ d[5] = Bool(m.isFragmented) /\ d[10] = Num(type)
        /\ d[11] = PackedBodyOf(m)
    BY PackedMessage
  <2> HIDE DEF d
  <2>2. QED
    BY <2>1 DEF Str, Num, Bool
<1>2. HasBody(type) =>
         /\ d[11] # Nil /\ d[11] # Garbled
         /\ (type = 3 /\ d[11][2][2] # Nil) =>
               \A i \in DOMAIN d[11][2][2][2] : d[11][2][2][2][i][1] = "arr"
  <2>1. PackMessage(m)[2][10][2] = type
    BY <1>1
  <2>2. QED
    BY <2>1 DEF WellTyped
<1>3. HasBody(type) => m.messageBody # None
  BY <1>1, <1>2 DEF PackedBodyOf
<1>4. HasBody(type) => UnpackBody(type, d[11], memory) = KeptBody(type, m.messageBody[1], memory)
  <2>1. SUFFICES ASSUME HasBody(type)
                 PROVE  UnpackBody(type, d[11], memory) = KeptBody(type, m.messageBody[1], memory)
    OBVIOUS
  <2>2. /\ type \in 0..12 /\ m.messageBody[1] \in BodyOf(type)
        /\ ValidBody(type, m.messageBody[1])
    BY <1>3, <2>1, BodyCases DEF Valid
  <2>3. d[11] = PackBody(type, m.messageBody[1])
    BY <1>1, <1>3, <2>1 DEF PackedBodyOf
  <2> HIDE DEF d, type
  <2>4. QED
    BY <1>2, <2>1, <2>2, <2>3, BodyReadBack
<1>5. body = IF m.messageBody = None THEN None
             ELSE Some(KeptBody(type, m.messageBody[1], memory))
  BY <1>3, <1>4, BodyCases
<1>6. /\ m.firstFragment = Field(6) /\ m.lastFragment = Field(7)
      /\ m.offset = Field(8) /\ m.fds = Field(9)
  BY FragmentsBack
<1>7. UnpackMessage(PackMessage(m), memory)
        = [userName |-> m.userName, messageId |-> m.messageId, createTime |-> m.createTime,
           requestTime |-> m.requestTime, isFragmented |-> m.isFragmented,
           firstFragment |-> m.firstFragment, lastFragment |-> m.lastFragment,
           offset |-> m.offset, fds |-> m.fds, dataType |-> type, messageBody |-> body]
  BY <1>1, <1>6 DEF UnpackMessage
<1> HIDE DEF body
<1>8. Kept(m, memory) = [m EXCEPT !.messageBody = body]
  BY <1>5, KeptMessage
<1>9. QED
  BY <1>3, <1>7, <1>8 DEF GdsMessage

\* What a GDS packs with a body in it is read.
LEMMA BodyIsWellTyped ==
    ASSUME NEW m, m \in GdsMessage(m.dataType), ~GdsIsOurs, m.messageBody # None
    PROVE  WellTyped(PackMessage(m))
<1> DEFINE type == m.dataType
           body == PackBody(type, m.messageBody[1])
<1>1. PackMessage(m)[2][10][2] = type /\ PackMessage(m)[2][11] = body
  <2>1. PackMessage(m)[2][10] = Num(type) /\ PackMessage(m)[2][11] = body
    BY PackedMessage DEF PackedBodyOf
  <2>2. QED
    BY <2>1 DEF Num
<1>2. type \in 0..12 /\ m.messageBody[1] \in BodyOf(type)
  BY BodyCases
<1>3. body # Nil /\ body # Garbled
  BY <1>2, PackedBody
<1>4. (type = 3 /\ body[2][2] # Nil) =>
         \A i \in DOMAIN body[2][2][2] : body[2][2][2][i][1] = "arr"
  <2>1. type = 3 => body = GdsEventReply(m.messageBody[1])
                    /\ m.messageBody[1] \in GdsEventReplyMessage
    BY <1>2 DEF PackBody, BodyOf
  <2> HIDE DEF body
  <2>2. QED
    BY <2>1, GdsReplyResults
<1> HIDE DEF body, type
<1>5. QED
  BY <1>1, <1>3, <1>4 DEF WellTyped

-----------------------------------------------------------------------------
(* The request for the next page.                                          *)

\* The message m has a page of a result, and the page's context.
HasPage(m) == /\ m.dataType = 11 /\ m.messageBody # None
              /\ m.messageBody[1].response # None
PageOf(m) == m.messageBody[1].response[1].queryContextDescriptor

\* The request for a next page is a message of type 12.
LEMMA NextQueryTyped ==
    ASSUME NEW c \in QueryContextDescriptor
    PROVE  /\ GetNextQuery(c) \in GdsMessage(12)
           /\ GetNextQuery(c).dataType = 12
           /\ GetNextQuery(c).messageBody = Some([contextDescriptor |-> c, timeout |-> 0])
<1> DEFINE body == [contextDescriptor |-> c, timeout |-> 0]
<1>1. Some(body) \in Opt(BodyOf(12))
  <2>1. body \in GdsNextQueryRequestMessage
    BY DEF GdsNextQueryRequestMessage
  <2> HIDE DEF body
  <2>2. QED
    BY <2>1, SomeIsOptional DEF BodyOf
<1>2. None \in Opt(STRING) /\ None \in Opt(Int)
  BY NoneIsOptional
<1> HIDE DEF body
<1>3. DefaultMessage(12, body) \in GdsMessage(12)
  <2> DEFINE some == Some(body)
             none == None
             bodies == IF HasBody(12) THEN Opt(BodyOf(12)) ELSE {None}
             strings == Opt(STRING)
             numbers == Opt(Int)
  <2>1. some \in bodies
    BY <1>1 DEF HasBody
  <2>2. none \in strings /\ none \in numbers
    BY <1>2
  <2>3. DefaultMessage(12, body)
          = [userName |-> User, messageId |-> Uuid, createTime |-> 0, requestTime |-> 0,
             isFragmented |-> FALSE, firstFragment |-> none, lastFragment |-> none,
             offset |-> none, fds |-> none, dataType |-> 12, messageBody |-> some]
    BY DEF DefaultMessage
  <2>4. GdsMessage(12)
          = [userName : STRING, messageId : STRING, createTime : Int, requestTime : Int,
             isFragmented : BOOLEAN, firstFragment : strings, lastFragment : strings,
             offset : numbers, fds : numbers, dataType : {12}, messageBody : bodies]
    BY DEF GdsMessage
  <2> HIDE DEF some, none, bodies, strings, numbers
  <2>5. User \in STRING /\ Uuid \in STRING
    BY HeaderAssumption
  <2>6. [userName |-> User, messageId |-> Uuid, createTime |-> 0, requestTime |-> 0,
         isFragmented |-> FALSE, firstFragment |-> none, lastFragment |-> none,
         offset |-> none, fds |-> none, dataType |-> 12, messageBody |-> some]
          \in [userName : STRING, messageId : STRING, createTime : Int, requestTime : Int,
               isFragmented : BOOLEAN, firstFragment : strings, lastFragment : strings,
               offset : numbers, fds : numbers, dataType : {12}, messageBody : bodies]
    BY <2>1, <2>2, <2>5
  <2>7. QED
    BY <2>3, <2>4, <2>6, Zenon
<1>4. QED
  BY <1>3 DEF GetNextQuery, DefaultMessage, body

\* The context of a page as it is read, and as it is sent.
LEMMA PageKept ==
    ASSUME NEW m, m \in GdsMessage(m.dataType), NEW memory \in Int, m.dataType = 11,
           m.messageBody # None, NEW r, r = Kept(m, memory).messageBody[1].response, r # None
    PROVE  /\ HasPage(m)
           /\ PageOf(m) \in QueryContextDescriptor
           /\ r[1].queryContextDescriptor = KeptContext(PageOf(m))
<1> DEFINE b == m.messageBody[1]
<1>1. b \in GdsQueryReplyMessage
  BY BodyCases DEF BodyOf
<1>2. Kept(m, memory).messageBody = Some(KeptQueryReply(b, memory))
  <2>1. m.dataType = 11 => KeptBody(m.dataType, b, memory) = KeptQueryReply(b, memory)
    BY DEF KeptBody
  <2> HIDE DEF b
  <2>2. QED
    BY <2>1, KeptMessage DEF b, GdsMessage
<1>3. r = KeptQueryReply(b, memory).response
  BY <1>2 DEF Some
<1>4. b.response # None /\ r[1] = KeptPage(b.response[1], memory)
  BY <1>1, <1>3, KeptQueryReplyTyped
<1>5. b.response[1] \in QueryReplyBody
  BY <1>1, <1>4, OptCases DEF GdsQueryReplyMessage
<1>6. /\ r[1].queryContextDescriptor = KeptContext(b.response[1].queryContextDescriptor)
      /\ b.response[1].queryContextDescriptor \in QueryContextDescriptor
  <2> DEFINE p == b.response[1]
  <2>1. p \in QueryReplyBody /\ r[1] = KeptPage(p, memory)
    BY <1>4, <1>5
  <2> HIDE DEF p
  <2>2. p.queryContextDescriptor \in QueryContextDescriptor
    BY <2>1 DEF QueryReplyBody
  <2>3. KeptPage(p, memory).queryContextDescriptor = KeptContext(p.queryContextDescriptor)
    BY <2>1, KeptPageTyped
  <2>4. QED
    BY <2>1, <2>2, <2>3 DEF p
<1>7. QED
  BY <1>4, <1>6 DEF HasPage, PageOf

-----------------------------------------------------------------------------
(* The inductive invariant: the message on its way is one of Messages or   *)
(* the request for a next page, the wire has what it was packed into, and  *)
(* the receiver has what is kept of it.                                    *)

Stages == {"idle", "composed", "sent", "received", "refused", "rejected"}

\* What is composed is one of Messages, or asks for what follows a page of one.
Composed ==
    IF stage = "idle" THEN msg = None /\ page = None
    ELSE /\ \E m : msg = Some(m) /\ m \in GdsMessage(m.dataType)
         /\ page = None => msg[1] \in Messages
         /\ page # None =>
               \E m \in Messages :
                  /\ HasPage(m)
                  /\ PageOf(m) \in QueryContextDescriptor
                  /\ page = Some(PageOf(m))
                  /\ msg = Some(GetNextQuery(KeptContext(PageOf(m))))

\* The bytes are those of the valid message on its way.
Carries ==
    IF stage \in {"sent", "received", "rejected"}
    THEN Valid(msg[1]) /\ wire = PackMessage(msg[1])
    ELSE wire = Nil

\* What has arrived is what is kept of that message.
Arrived ==
    IF stage = "received"
    THEN /\ WellTyped(wire)
         /\ \E memory \in Memory : got = Some(Kept(msg[1], memory))
    ELSE got = None

\* What unpack has thrown away could not be read, whatever the memory held.
Thrown == stage = "rejected" => \A memory \in Memory : ~Readable(wire, memory)

IInv == stage \in Stages /\ Composed /\ Carries /\ Arrived /\ Thrown

\* Before the first message IInv holds.
LEMMA InitInv == Init => IInv
BY DEF Init, IInv, Stages, Composed, Carries, Arrived, Thrown

\* A message of Messages is typed.
LEMMA ComposeInv == IInv /\ Compose => IInv'
<1> SUFFICES ASSUME IInv, Compose PROVE IInv'
  OBVIOUS
<1>1. PICK m \in Messages : msg' = Some(m)
  BY DEF Compose
<1>2. /\ stage = "idle" /\ stage' = "composed" /\ page = None /\ page' = None
      /\ wire = Nil /\ wire' = Nil /\ got = None /\ got' = None
  BY DEF Compose, IInv, Composed, Carries, Arrived
<1>3. Composed'
  <2>1. msg'[1] = m
    BY <1>1 DEF Some
  <2>2. QED
    BY <1>1, <1>2, <2>1, MessagesAssumption DEF Composed
<1>4. QED
  BY <1>2, <1>3 DEF IInv, Stages, Carries, Arrived, Thrown

\* pack writes the bytes of a valid message.
LEMMA PackInv == IInv /\ Pack => IInv'
<1> SUFFICES ASSUME IInv, Pack PROVE IInv'
  OBVIOUS
<1>1. /\ stage = "composed" /\ stage' = "sent" /\ Valid(msg[1])
      /\ wire' = PackMessage(msg[1]) /\ msg' = msg /\ page' = page
      /\ got = None /\ got' = None
  BY DEF Pack, Sendable, IInv, Arrived
<1>2. Composed'
  BY <1>1 DEF IInv, Composed
<1>3. QED
  BY <1>1, <1>2 DEF IInv, Stages, Carries, Arrived, Thrown

\* validate leaves an invalid one where it is.
LEMMA RefuseInv == IInv /\ Refuse => IInv'
<1> SUFFICES ASSUME IInv, Refuse PROVE IInv'
  OBVIOUS
<1>1. /\ stage = "composed" /\ stage' = "refused" /\ msg' = msg /\ page' = page
      /\ wire = Nil /\ wire' = Nil /\ got = None /\ got' = None
  BY DEF Refuse, IInv, Carries, Arrived
<1>2. Composed'
  BY <1>1 DEF IInv, Composed
<1>3. QED
  BY <1>1, <1>2 DEF IInv, Stages, Carries, Arrived, Thrown

\* unpack makes what is kept of the message out of its bytes.
LEMMA UnpackInv == IInv /\ Unpack => IInv'
<1> SUFFICES ASSUME IInv, Unpack PROVE IInv'
  OBVIOUS
<1>1. PICK memory \in Memory : /\ Readable(wire, memory)
                               /\ got' = Some(UnpackMessage(wire, memory))
  BY DEF Unpack
<1>2. /\ stage = "sent" /\ stage' = "received" /\ msg' = msg /\ page' = page
      /\ wire' = wire /\ wire = PackMessage(msg[1]) /\ Valid(msg[1])
  BY DEF Unpack, IInv, Carries
<1>3. Composed'
  BY <1>2 DEF IInv, Composed
<1>4. msg[1] \in GdsMessage(msg[1].dataType)
  BY <1>2 DEF IInv, Composed, Some
<1>5. WellTyped(wire) /\ UnpackMessage(wire, memory) = Kept(msg[1], memory)
  BY <1>1, <1>2, <1>4, MessageBack DEF Readable
<1>6. Arrived'
  BY <1>1, <1>2, <1>5 DEF Arrived
<1>7. QED
  BY <1>2, <1>3, <1>6 DEF IInv, Stages, Carries, Thrown

\* It throws only what cannot be read.
LEMMA RejectInv == IInv /\ Reject => IInv'
<1> SUFFICES ASSUME IInv, Reject PROVE IInv'
  OBVIOUS
<1>1. /\ stage = "sent" /\ stage' = "rejected" /\ msg' = msg /\ page' = page
      /\ wire' = wire /\ wire = PackMessage(msg[1]) /\ Valid(msg[1])
      /\ got = None /\ got' = None
      /\ \A memory \in Memory : ~Readable(wire, memory)
  BY DEF Reject, IInv, Carries, Arrived
<1>2. Composed'
  BY <1>1 DEF IInv, Composed
<1>3. QED
  BY <1>1, <1>2 DEF IInv, Stages, Carries, Arrived, Thrown

\* The page that is continued came in a message of Messages, not in an answer.
LEMMA NextPageInv == IInv /\ NextPage => IInv'
<1> SUFFICES ASSUME IInv, NextPage PROVE IInv'
  OBVIOUS
<1> DEFINE m == msg[1]
           r == got[1].messageBody[1].response
<1>1. /\ stage = "received" /\ got[1].dataType = 11 /\ r # None
      /\ msg' = Some(GetNextQuery(r[1].queryContextDescriptor))
      /\ page' = Some(PageOf(m))
      /\ stage' = "composed" /\ wire' = Nil /\ got' = None
  BY DEF NextPage, PageOf
<1>2. m \in GdsMessage(m.dataType) /\ WellTyped(wire) /\ wire = PackMessage(m) /\ Valid(m)
  BY <1>1 DEF IInv, Composed, Carries, Arrived, Some
<1>3. PICK memory \in Memory : got = Some(Kept(m, memory))
  BY <1>1 DEF IInv, Arrived
<1>4. memory \in Int /\ got[1] = Kept(m, memory)
  BY <1>3, MemoryAssumption DEF Some
<1>5. m.dataType = 11
  <2> HIDE DEF m
  <2>1. QED
    BY <1>1, <1>2, <1>4, KeptTyped
<1>6. m.messageBody # None
  <2>1. HasBody(m.dataType)
    BY <1>5 DEF HasBody
  <2> HIDE DEF m
  <2>2. QED
    BY <1>2, <2>1, MessageBack
<1>7. /\ HasPage(m) /\ PageOf(m) \in QueryContextDescriptor
      /\ r[1].queryContextDescriptor = KeptContext(PageOf(m))
  <2>1. r = Kept(m, memory).messageBody[1].response
    BY <1>4
  <2> HIDE DEF m, r
  <2>2. QED
    BY <1>1, <1>2, <1>4, <1>5, <1>6, <2>1, PageKept
<1>8. m \in Messages
  <2>1. page # None => \E c \in QueryContextDescriptor : m = GetNextQuery(c)
    BY <1>1, KeptContextTyped DEF IInv, Composed, Some
  <2>2. page # None => m.dataType = 12
    BY <2>1, NextQueryTyped
  <2>3. QED
    BY <1>1, <1>5, <2>2 DEF IInv, Composed
<1> HIDE DEF m, r
<1>9. KeptContext(PageOf(m)) \in QueryContextDescriptor
  BY <1>7, KeptContextTyped
<1>10. /\ GetNextQuery(KeptContext(PageOf(m))) \in GdsMessage(12)
       /\ GetNextQuery(KeptContext(PageOf(m))).dataType = 12
  BY <1>9, NextQueryTyped
<1>11. Composed'
  <2>1. page' # None
    BY <1>1 DEF Some, None
  <2>2. msg' = Some(GetNextQuery(KeptContext(PageOf(m))))
    BY <1>1, <1>7
  <2>3. \E x : msg' = Some(x) /\ x \in GdsMessage(x.dataType)
    BY <1>10, <2>2
  <2>4. QED
    BY <1>1, <1>7, <1>8, <2>1, <2>2, <2>3 DEF Composed
<1>12. QED
  BY <1>1, <1>11 DEF IInv, Stages, Carries, Arrived, Thrown

\* The next message starts anew.
LEMMA ForgetInv == IInv /\ Forget => IInv'
BY DEF IInv, Forget, Stages, Composed, Carries, Arrived, Thrown

\* IInv is about the state alone.
LEMMA StutterInv == IInv /\ UNCHANGED vars => IInv'
BY DEF IInv, vars, Composed, Carries, Arrived, Thrown

\* IInv holds in every state of every message's way.
LEMMA Invariance == Spec => []IInv
<1>1. IInv /\ [Next]_vars => IInv'
  BY ComposeInv, PackInv, RefuseInv, UnpackInv, RejectInv, NextPageInv, ForgetInv, StutterInv
     DEF Next
<1>2. QED
  BY InitInv, <1>1, PTL DEF Spec

-----------------------------------------------------------------------------
(* The invariants of GdsCodec.                                             *)

\* What is on its way is typed, and so is what arrives.
LEMMA OnItsWay ==
    ASSUME IInv, stage # "idle"
    PROVE  /\ msg # None
           /\ msg[1] \in GdsMessage(msg[1].dataType)
           /\ stage = "received" =>
                \E memory \in Memory : got # None /\ got[1] = Kept(msg[1], memory)
           /\ page # None => /\ msg[1].dataType = 12
                             /\ page[1] \in QueryContextDescriptor
                             /\ msg[1] = GetNextQuery(KeptContext(page[1]))
                             /\ \E m \in Messages : HasPage(m) /\ page[1] = PageOf(m)
<1>1. msg # None /\ msg[1] \in GdsMessage(msg[1].dataType)
  BY DEF IInv, Composed, Some, None
<1>2. ASSUME stage = "received"
      PROVE  \E memory \in Memory : got # None /\ got[1] = Kept(msg[1], memory)
  BY <1>2 DEF IInv, Arrived, Some, None
<1>3. ASSUME page # None
      PROVE  /\ msg[1].dataType = 12
             /\ page[1] \in QueryContextDescriptor
             /\ msg[1] = GetNextQuery(KeptContext(page[1]))
             /\ \E m \in Messages : HasPage(m) /\ page[1] = PageOf(m)
  <2>1. PICK m \in Messages : /\ HasPage(m)
                              /\ PageOf(m) \in QueryContextDescriptor
                              /\ page = Some(PageOf(m))
                              /\ msg = Some(GetNextQuery(KeptContext(PageOf(m))))
    BY <1>3 DEF IInv, Composed
  <2>2. page[1] = PageOf(m) /\ msg[1] = GetNextQuery(KeptContext(PageOf(m)))
    BY <2>1 DEF Some
  <2>3. GetNextQuery(KeptContext(PageOf(m))).dataType = 12
    BY <2>1, KeptContextTyped, NextQueryTyped
  <2>4. QED
    BY <2>1, <2>2, <2>3
<1>4. QED
  BY <1>1, <1>2, <1>3

\* In every stage the message is where the stage says, and what is composed or
\* has arrived is one of the structures of gds_types.hpp.
THEOREM Types == Spec => []TypeOK
<1>1. IInv => TypeOK
  <2> SUFFICES ASSUME IInv PROVE TypeOK
    OBVIOUS
  <2>1. stage \in {"idle", "composed", "sent", "received", "refused", "rejected"}
    BY DEF IInv, Stages
  <2>2. (msg = None) = (stage = "idle")
    <3>1. stage = "idle" => msg = None
      BY DEF IInv, Composed
    <3>2. QED
      BY <3>1, OnItsWay
  <2>3. (wire = Nil) = (stage \in {"idle", "composed", "refused"})
    <3>1. \A m : PackMessage(m) # Nil
      BY DEF PackMessage, Arr, Nil
    <3>2. QED
      BY <2>1, <3>1 DEF IInv, Carries
  <2>4. (got = None) = (stage # "received")
    <3>1. stage = "received" => got # None
      BY OnItsWay
    <3>2. stage # "received" => got = None
      BY DEF IInv, Arrived
    <3>3. QED
      BY <3>1, <3>2
  <2>5. page # None => stage # "idle"
    BY DEF IInv, Composed
  <2>6. page # None => msg[1].dataType = 12 /\ page[1] \in QueryContextDescriptor
    BY <2>5, OnItsWay
  <2>7. msg # None => msg[1] \in GdsMessage(msg[1].dataType)
    BY <2>2, OnItsWay
  <2>8. got # None => got[1] \in GdsMessage(got[1].dataType)
    <3> SUFFICES ASSUME got # None PROVE got[1] \in GdsMessage(got[1].dataType)
      OBVIOUS
    <3>1. stage = "received"
      BY <2>4
    <3>2. PICK memory \in Memory : got[1] = Kept(msg[1], memory)
      BY <3>1, OnItsWay
    <3>3. msg[1] \in GdsMessage(msg[1].dataType) /\ memory \in Int
      BY <3>1, OnItsWay, MemoryAssumption
    <3>4. QED
      BY <3>2, <3>3, KeptTyped
  <2>9. QED
    BY <2>1, <2>2, <2>3, <2>4, <2>5, <2>6, <2>7, <2>8 DEF TypeOK
<1>2. QED
  BY <1>1, Invariance, PTL

\* Whatever message is sent, what unpack makes of it is what was packed, but
\* for the losses that Kept names: over all values, arrays nested to any
\* depth, and every number of items in every list.
THEOREM ReadAsSent == Spec => []RoundTrip
<1>1. IInv => RoundTrip
  BY OnItsWay DEF RoundTrip
<1>2. QED
  BY <1>1, Invariance, PTL

\* A message with a body that a GDS or a client sends is never thrown away by
\* the unpack at the other end.  (This library's own event replies are: see
\* PackEventReply.)
THEOREM SentIsRead == ASSUME ~GdsIsOurs PROVE Spec => []SentIsReadable
<1>1. IInv => SentIsReadable
  <2> SUFFICES ASSUME IInv, stage = "rejected", msg[1].messageBody # None
               PROVE  FALSE
    BY DEF SentIsReadable
  <2>1. msg[1] \in GdsMessage(msg[1].dataType)
    BY OnItsWay
  <2>2. /\ Valid(msg[1]) /\ wire = PackMessage(msg[1])
        /\ \A memory \in Memory : ~Readable(wire, memory)
    BY DEF IInv, Carries, Thrown
  <2>3. WellTyped(wire)
    BY <2>1, <2>2, BodyIsWellTyped
  <2>4. PICK memory \in Memory : memory \in Int
    BY MemoryAssumption
  <2>5. UnpackMessage(wire, memory) = Kept(msg[1], memory)
    BY <2>1, <2>2, <2>3, MessageBack
  <2>6. Valid(Kept(msg[1], memory))
    BY <2>1, <2>2, <2>4, KeptTyped
  <2>7. QED
    BY <2>2, <2>3, <2>5, <2>6 DEF Readable
<1>2. QED
  BY <1>1, Invariance, PTL

\* As long as the GDS puts no field values into its contexts, it gets each of
\* them back as it was.
THEOREM ContextComesBack ==
    ASSUME \A m \in Messages : HasPage(m) => PageOf(m).field_values = <<>>
    PROVE  Spec => []ContextReturned
<1>1. IInv => ContextReturned
  <2> SUFFICES ASSUME IInv, stage = "received", page # None
               PROVE  got[1].messageBody[1].contextDescriptor = page[1]
    BY DEF ContextReturned
  <2> DEFINE c == page[1]
             body == [contextDescriptor |-> c, timeout |-> 0]
  <2>1. c \in QueryContextDescriptor /\ c.field_values = <<>>
    BY OnItsWay
  <2>2. KeptContext(c) = c
    <3> HIDE DEF c
    <3>1. QED
      BY <2>1 DEF KeptContext, QueryContextDescriptor
  <2>3. msg[1] = GetNextQuery(c)
    BY <2>2, OnItsWay
  <2>4. PICK memory \in Memory : got[1] = Kept(msg[1], memory)
    BY OnItsWay
  <2>5. msg[1] \in GdsMessage(msg[1].dataType)
    BY OnItsWay
  <2> HIDE DEF c
  <2>6. /\ GetNextQuery(c) \in GdsMessage(GetNextQuery(c).dataType)
        /\ GetNextQuery(c).dataType = 12 /\ GetNextQuery(c).messageBody = Some(body)
    BY <2>1, NextQueryTyped
  <2>7. KeptBody(12, body, memory) = body
    BY <2>2 DEF KeptBody, KeptNextQuery
  <2>8. Kept(GetNextQuery(c), memory).messageBody = Some(body)
    <3> DEFINE m == GetNextQuery(c)
    <3>1. m.messageBody # None /\ m.messageBody[1] = body
      BY <2>6 DEF Some, None
    <3> HIDE DEF body, m
    <3>2. Kept(m, memory) = [m EXCEPT !.messageBody = Some(body)]
      BY <2>6, <2>7, <3>1, KeptMessage DEF m
    <3>3. QED
      BY <2>6, <3>2 DEF GdsMessage, m
  <2>9. QED
    BY <2>3, <2>4, <2>8 DEF Some, c
<1>2. QED
  BY <1>1, Invariance, PTL
=============================================================================
