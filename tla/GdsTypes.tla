------------------------------ MODULE GdsTypes ------------------------------
(***************************************************************************)
(* The messages of gds_types.cpp and their MessagePack form: what pack     *)
(* writes, what unpack reads back and what validate refuses.               *)
(*                                                                         *)
(* A MessagePack object is a tuple that starts with its type.              *)
(***************************************************************************)
EXTENDS GdsStructures

CONSTANT GdsIsOurs  \* event replies are packed by this library, not by a GDS

ASSUME GdsIsOursAssumption == GdsIsOurs \in BOOLEAN

Nil == <<"nil">>
Bool(b) == <<"bool", b>>
Num(n) == <<"int", n>>
Str(s) == <<"str", s>>
Bin(b) == <<"bin", b>>
Arr(items) == <<"arr", items>>
Map(f) == <<"map", f>>

\* pack_array(n) followed by other than n objects leaves the stream out of step.
Garbled == <<"garbled">>
Each(seq, f(_)) == [i \in DOMAIN seq |-> f(seq[i])]
List(seq, f(_)) == Arr(Each(seq, f))
Items(w, f(_)) == Each(w[2], f)
Value(w) == w[2]
OrNil(opt, f(_)) == IF opt = None THEN Nil ELSE f(opt[1])
UnlessNil(w, f(_)) == IF w = Nil THEN None ELSE Some(f(w))
Present(opt, f(_)) == Each(opt, f)

-----------------------------------------------------------------------------
(* GdsFieldValue: the type tag chooses how value is packed.                *)

WireOf == [NIL |-> "nil", BOOLEAN |-> "bool", POSITIVE_INTEGER |-> "int",
           NEGATIVE_INTEGER |-> "int", FLOAT32 |-> "float", FLOAT64 |-> "double",
           STR |-> "str", BIN |-> "bin", ARRAY |-> "arr", MAP |-> "map"]

TypeOf == [nil |-> "NIL", bool |-> "BOOLEAN", float |-> "FLOAT32",
           double |-> "FLOAT64", str |-> "STR", bin |-> "BIN", map |-> "MAP"]

PackScalar(v) == IF v.type = "NIL" THEN Nil ELSE <<WireOf[v.type], v.value>>

PackScalars(scalars) == [v \in scalars |-> PackScalar(v)]
PackOrArray(scalars, n, below) ==
    LET Inner(v) == below[v]
    IN  [v \in FieldValues(n) |-> IF v.type = "ARRAY" THEN List(v.value, Inner)
                                  ELSE PackScalar(v)]
Packing == INSTANCE Recursion WITH Base <- PackScalars, Step <- PackOrArray

PackValue(v) == Packing!Rec(Scalars)[Depth][v]

\* The objects a field value is read from, arrays nested as deep.
WireScalars ==
    {Nil} \cup ({"bool"} \X BOOLEAN) \cup ({"int"} \X Int)
    \cup ({"float", "double", "str", "bin"} \X STRING)
    \cup ({"map"} \X MapOf(Names, STRING))

WireOrArray(scalars, n, below) == scalars \cup ({"arr"} \X Seq(below))
WireNesting == INSTANCE Recursion WITH Base <- Flat, Step <- WireOrArray
WireValues(n) == WireNesting!Rec(WireScalars)[n]

\* MessagePack types a number by its sign, whatever the sender called it.
MutantTypeOfWire(w) == IF w[1] = "int" THEN "POSITIVE_INTEGER" ELSE TypeOf[w[1]]

TypeOfWire(w) ==
    IF w[1] = "int" THEN IF w[2] >= 0 THEN "POSITIVE_INTEGER" ELSE "NEGATIVE_INTEGER"
    ELSE TypeOf[w[1]]

UnpackScalar(w) ==
    [type |-> TypeOfWire(w), value |-> IF w = Nil THEN None ELSE w[2]]

UnpackScalars(scalars) == [w \in scalars |-> UnpackScalar(w)]
UnpackOrArray(scalars, n, below) ==
    LET Inner(w) == below[w]
    IN  [w \in WireValues(n) |->
            IF w[1] = "arr" THEN [type |-> "ARRAY", value |-> Items(w, Inner)]
            ELSE UnpackScalar(w)]
Unpacking == INSTANCE Recursion WITH Base <- UnpackScalars, Step <- UnpackOrArray

UnpackValue(w) == Unpacking!Rec(WireScalars)[Depth][w]

PackRow(row) == List(row, PackValue)
UnpackRow(w) == Items(w, UnpackValue)
PackRows(rows) == List(rows, PackRow)
UnpackRows(w) == Items(w, UnpackRow)
PackStrings(strs) == List(strs, Str)
UnpackStrings(w) == Items(w, Value)
PackDescriptors(descriptors) == List(descriptors, PackStrings)
UnpackDescriptors(w) == Items(w, UnpackStrings)

-----------------------------------------------------------------------------
(* 0 and 1: the login.                                                     *)

PackLogin(b) ==
    Arr(Present(b.cluster_name, Str)
        \o <<Bool(b.serve_on_the_same_connection),
             Num(b.protocol_version_number), Bool(b.fragmentation_supported),
             IF b.fragmentation_supported
             THEN Num(b.fragment_transmission_unit[1]) ELSE Nil>>
        \o Present(b.reserved_fields, PackStrings))

\* A leading string is the cluster name and shifts everything behind it.
UnpackLogin(w) ==
    LET d == w[2]
        idx == IF d[1][1] = "str" THEN 1 ELSE 0
    IN  [cluster_name |-> IF idx = 1 THEN Some(d[1][2]) ELSE None,
         serve_on_the_same_connection |-> d[idx + 1][2],
         protocol_version_number |-> d[idx + 2][2],
         fragmentation_supported |-> d[idx + 3][2],
         fragment_transmission_unit |->
            IF d[idx + 3][2] THEN Some(d[idx + 4][2]) ELSE None,
         reserved_fields |->
            IF Len(d) > idx + 4 THEN Some(UnpackStrings(d[idx + 5])) ELSE None]

ValidLogin(b) ==
    /\ b.fragmentation_supported = (b.fragment_transmission_unit # None)
    /\ b.reserved_fields # Some(<<>>)

PackLoginReply(b) ==
    Arr(<<Num(b.ackStatus),
          IF b.loginReply # None THEN PackLogin(b.loginReply[1])
                                 ELSE OrNil(b.errorDetails, Map),
          OrNil(b.ackException, Str)>>)

UnpackLoginReply(w) ==
    LET d == w[2]
    IN  [ackStatus |-> d[1][2],
         loginReply |-> IF d[1][2] = 200 /\ d[2][1] = "arr"
                        THEN Some(UnpackLogin(d[2])) ELSE None,
         errorDetails |-> IF d[1][2] = 401 /\ d[2][1] = "map"
                          THEN Some(d[2][2]) ELSE None,
         ackException |-> UnlessNil(d[3], Value)]

\* The login inside is validated by its own pack and unpack.
ValidLoginReply(b) ==
    /\ b.loginReply = None \/ b.errorDetails = None
    /\ b.loginReply # None => ValidLogin(b.loginReply[1])

-----------------------------------------------------------------------------
(* 2 and 3: events.                                                        *)

PackEvent(b) ==
    LET Level(l) == List(l, Map)
        Contents(m) == [k \in DOMAIN m |-> Present(m[k], Bin)]
    IN  Arr(<<Str(b.operations), Map(Contents(b.binaryContents)),
              List(b.priorityLevels, Level)>>)

UnpackEvent(w) ==
    LET Level(l) == Items(l, Value)
        m == w[2][2][2]
    IN  [operations |-> w[2][1][2],
         binaryContents |-> [k \in DOMAIN m |-> Each(m[k], Value)],
         priorityLevels |-> Items(w[2][3], Level)]

PackSubResult(s) ==
    Arr(<<Num(s.status), OrNil(s.id, Str), OrNil(s.tableName, Str),
          OrNil(s.created, Bool), OrNil(s.version, Str), OrNil(s.values, PackRow)>>)

PackEventResult(r) ==
    Arr(<<Num(r.status), Str(r.notification),
          PackDescriptors(r.fieldDescriptor), List(r.subResults, PackSubResult)>>)

\* EventReplyBody::pack has no array around the results: they follow the
\* status one by one, in the place of the one object the message announces.
PackEventReply(b) ==
    LET Reply(body) == Arr(<<Num(b.ackStatus), body, OrNil(b.ackException, Str)>>)
    IN  IF b.reply = None THEN Reply(Nil)
        ELSE IF Len(b.reply[1]) = 1 THEN Reply(PackEventResult(b.reply[1][1]))
        ELSE Garbled

\* What the GDS sends, as EventReplyBody::unpack expects it.
GdsEventReply(b) ==
    LET Body(rs) == List(rs, PackEventResult)
    IN  Arr(<<Num(b.ackStatus), OrNil(b.reply, Body), OrNil(b.ackException, Str)>>)

UnpackSubResult(w) ==
    LET At(i) == IF Len(w[2]) >= i THEN UnlessNil(w[2][i], Value) ELSE None
    IN  [status |-> w[2][1][2], id |-> At(2), tableName |-> At(3),
         created |-> At(4), version |-> At(5),
         values |-> IF Len(w[2]) > 5 THEN UnlessNil(w[2][6], UnpackRow) ELSE None]

\* What the loop over the sub-results has stored after the first n: each of
\* them is none or one.
NothingStored(subs) == <<>>
StoreNext(subs, n, stored) == stored \o subs[n]
Storing == INSTANCE Recursion WITH Base <- NothingStored, Step <- StoreNext
Stored(subs) == Storing!Rec(subs)[Len(subs)]

\* A sub-result is stored inside the branch that read its values.
UnpackEventResult(w) ==
    LET Store(s) == IF Len(s[2]) > 5 /\ s[2][6] # Nil THEN Some(UnpackSubResult(s))
                    ELSE None
    IN  [status |-> w[2][1][2],
         notification |-> IF w[2][2] = Nil THEN "" ELSE w[2][2][2],
         fieldDescriptor |-> UnpackDescriptors(w[2][3]),
         subResults |-> Stored(Items(w[2][4], Store))]

UnpackEventReply(w) ==
    LET Body(rs) == Items(rs, UnpackEventResult)
    IN  [ackStatus |-> w[2][1][2], reply |-> UnlessNil(w[2][2], Body),
         ackException |-> UnlessNil(w[2][3], Value)]

-----------------------------------------------------------------------------
(* 4 to 7: attachments.                                                    *)

PackAttachmentResult(r) ==
    LET pairs == [requestids |-> Some(PackStrings(r.requestIDs)),
                  ownertable |-> Some(Str(r.ownerTable)),
                  attachmentid |-> Some(Str(r.attachmentID)),
                  ownerids |-> Some(PackStrings(r.ownerIDs)),
                  meta |-> Present(r.meta, Str),
                  ttl |-> Present(r.ttl, Num),
                  to_valid |-> Present(r.to_valid, Num),
                  attachment |-> Present(r.attachment, Bin)]
    IN  Map([k \in {x \in DOMAIN pairs : pairs[x] # None} |-> pairs[k][1]])

UnpackAttachmentResult(w) ==
    LET m == w[2]
        Find(k) == IF k \in DOMAIN m THEN Some(m[k][2]) ELSE None
    IN  [requestIDs |-> UnpackStrings(m["requestids"]),
         ownerTable |-> m["ownertable"][2],
         attachmentID |-> m["attachmentid"][2],
         ownerIDs |-> UnpackStrings(m["ownerids"]),
         meta |-> Find("meta"), ttl |-> Find("ttl"),
         to_valid |-> Find("to_valid"), attachment |-> Find("attachment")]

PackAttachmentRequestBody(b) ==
    Arr(<<Num(b.status), PackAttachmentResult(b.result), OrNil(b.waitTime, Num)>>)

UnpackAttachmentRequestBody(w) ==
    [status |-> w[2][1][2], result |-> UnpackAttachmentResult(w[2][2]),
     waitTime |-> UnlessNil(w[2][3], Value)]

\* The body is written when the status is OK, not when there is one.
PackAttachmentRequestReply(b) ==
    Arr(<<Num(b.ackStatus),
          IF b.ackStatus = 200 THEN PackAttachmentRequestBody(b.request[1])
                               ELSE Nil,
          OrNil(b.ackException, Str)>>)

UnpackAttachmentRequestReply(w) ==
    [ackStatus |-> w[2][1][2],
     request |-> UnlessNil(w[2][2], UnpackAttachmentRequestBody),
     ackException |-> UnlessNil(w[2][3], Value)]

ValidAttachmentRequestReply(b) == (b.ackStatus = 200) = (b.request # None)

PackAttachmentResponse(r) ==
    Map([requestids |-> PackStrings(r.requestIDs),
         ownertable |-> Str(r.ownerTable), attachmentid |-> Str(r.attachmentID)])

UnpackAttachmentResponse(w) ==
    [requestIDs |-> UnpackStrings(w[2]["requestids"]),
     ownerTable |-> w[2]["ownertable"][2], attachmentID |-> w[2]["attachmentid"][2]]

PackAttachmentResponseBody(b) ==
    Arr(<<Num(b.status), PackAttachmentResponse(b.result)>>)

UnpackAttachmentResponseBody(w) ==
    [status |-> w[2][1][2], result |-> UnpackAttachmentResponse(w[2][2])]

PackAttachmentResponseResult(b) ==
    Arr(<<Num(b.ackStatus), OrNil(b.response, PackAttachmentResponseBody),
          OrNil(b.ackException, Str)>>)

UnpackAttachmentResponseResult(w) ==
    [ackStatus |-> w[2][1][2],
     response |-> UnlessNil(w[2][2], UnpackAttachmentResponseBody),
     ackException |-> UnlessNil(w[2][3], Value)]

-----------------------------------------------------------------------------
(* 8 and 9: event documents.  The maps of returnings are written empty and *)
(* never read, whatever the sender put there.                              *)

PackEventDocument(b) ==
    Arr(<<Str(b.tableName), PackDescriptors(b.fieldDescriptors),
          PackRows(b.records), Map(EmptyMap(Indexes))>>)

UnpackEventDocument(w) ==
    [tableName |-> w[2][1][2], fieldDescriptors |-> UnpackDescriptors(w[2][2]),
     records |-> UnpackRows(w[2][3]), returnings |-> EmptyMap(Indexes)]

ValidEventDocument(b) ==
    \A i \in DOMAIN b.records : Len(b.records[i]) = Len(b.fieldDescriptors)

PackEventDocumentResult(r) ==
    Arr(<<Num(r.status_code), OrNil(r.notification, Str), Map(EmptyMap(Names))>>)

UnpackEventDocumentResult(w) ==
    [status_code |-> w[2][1][2], notification |-> UnlessNil(w[2][2], Value),
     returnings |-> EmptyMap(Names)]

PackEventDocumentReply(b) ==
    LET Results(rs) == List(rs, PackEventDocumentResult)
    IN  Arr(<<Num(b.ackStatus), OrNil(b.results, Results), OrNil(b.ackException, Str)>>)

UnpackEventDocumentReply(w) ==
    LET Results(rs) == Items(rs, UnpackEventDocumentResult)
    IN  [ackStatus |-> w[2][1][2], results |-> UnlessNil(w[2][2], Results),
         ackException |-> UnlessNil(w[2][3], Value)]

-----------------------------------------------------------------------------
(* 10 to 12: queries and their pages.                                      *)

PackQueryRequest(b) ==
    IF b.queryPageSize # None /\ b.queryType # None
    THEN Arr(<<Str(b.selectString), Str(b.consistency), Num(b.timeout),
               Num(b.queryPageSize[1]), Num(b.queryType[1])>>)
    ELSE Arr(<<Str(b.selectString), Str(b.consistency), Num(b.timeout)>>)

UnpackQueryRequest(w) ==
    LET Extra(i) == IF Len(w[2]) = 5 THEN Some(w[2][i][2]) ELSE None
    IN  [selectString |-> w[2][1][2], consistency |-> w[2][2][2],
         timeout |-> w[2][3][2], queryPageSize |-> Extra(4), queryType |-> Extra(5)]

ValidQueryRequest(b) == (b.queryPageSize # None) = (b.queryType # None)

PackContext(c) ==
    Arr(<<Str(c.scroll_id), Str(c.select_query), Num(c.delivered_hits),
          Num(c.query_start_time), Str(c.consistency_type), Str(c.last_bucket_id),
          PackStrings(c.gds_holder), PackRow(c.field_values),
          PackStrings(c.partition_names)>>)

\* The objects of the eighth member are cleared before they are unpacked.
FieldValuesRead(w) == <<>>

UnpackContext(w) ==
    LET d == w[2]
    IN  [scroll_id |-> d[1][2], select_query |-> d[2][2],
         delivered_hits |-> d[3][2], query_start_time |-> d[4][2],
         consistency_type |-> d[5][2], last_bucket_id |-> d[6][2],
         gds_holder |-> UnpackStrings(d[7]), field_values |-> FieldValuesRead(d[8]),
         partition_names |-> UnpackStrings(d[9])]

PackQueryReplyBody(b) ==
    Arr(<<Num(b.numberOfHits), Num(b.filteredHits), Bool(b.hasMorePages),
          PackContext(b.queryContextDescriptor),
          PackDescriptors(b.fieldDescriptors), PackRows(b.hits),
          Num(b.totalNumberOfHits)>>)

\* The total is read inside the loop over the hits: without a hit it keeps
\* what the memory held.
UnpackQueryReplyBody(w, memory) ==
    LET d == w[2]
    IN  [numberOfHits |-> d[1][2], filteredHits |-> d[2][2],
         hasMorePages |-> d[3][2], queryContextDescriptor |-> UnpackContext(d[4]),
         fieldDescriptors |-> UnpackDescriptors(d[5]), hits |-> UnpackRows(d[6]),
         totalNumberOfHits |->
            IF Len(d) > 6 /\ d[6] # Arr(<<>>) THEN d[7][2] ELSE memory]

ValidQueryReply(b) ==
    b.response # None => Len(b.response[1].hits) = b.response[1].numberOfHits

PackQueryReply(b) ==
    Arr(<<Num(b.ackStatus), OrNil(b.response, PackQueryReplyBody),
          OrNil(b.ackException, Str)>>)

UnpackQueryReply(w, memory) ==
    LET Body(d) == UnpackQueryReplyBody(d, memory)
    IN  [ackStatus |-> w[2][1][2], response |-> UnlessNil(w[2][2], Body),
         ackException |-> UnlessNil(w[2][3], Value)]

PackNextQuery(b) == Arr(<<PackContext(b.contextDescriptor), Num(b.timeout)>>)

UnpackNextQuery(w) ==
    [contextDescriptor |-> UnpackContext(w[2][1]), timeout |-> w[2][2][2]]

-----------------------------------------------------------------------------
(* GdsMessage: the header of eleven members around any body.               *)

PackBody(type, b) ==
    CASE type = 0 -> PackLogin(b)
      [] type = 1 -> PackLoginReply(b)
      [] type = 2 -> PackEvent(b)
      [] type = 3 -> IF GdsIsOurs THEN PackEventReply(b) ELSE GdsEventReply(b)
      [] type = 4 -> Str(b.request)
      [] type = 5 -> PackAttachmentRequestReply(b)
      [] type = 6 -> Arr(<<PackAttachmentResult(b.result)>>)
      [] type = 7 -> PackAttachmentResponseResult(b)
      [] type = 8 -> PackEventDocument(b)
      [] type = 9 -> PackEventDocumentReply(b)
      [] type = 10 -> PackQueryRequest(b)
      [] type = 11 -> PackQueryReply(b)
      [] type = 12 -> PackNextQuery(b)

UnpackBody(type, w, memory) ==
    CASE type = 0 -> UnpackLogin(w)
      [] type = 1 -> UnpackLoginReply(w)
      [] type = 2 -> UnpackEvent(w)
      [] type = 3 -> UnpackEventReply(w)
      [] type = 4 -> [request |-> w[2]]
      [] type = 5 -> UnpackAttachmentRequestReply(w)
      [] type = 6 -> [result |-> UnpackAttachmentResult(w[2][1])]
      [] type = 7 -> UnpackAttachmentResponseResult(w)
      [] type = 8 -> UnpackEventDocument(w)
      [] type = 9 -> UnpackEventDocumentReply(w)
      [] type = 10 -> UnpackQueryRequest(w)
      [] type = 11 -> UnpackQueryReply(w, memory)
      [] type = 12 -> UnpackNextQuery(w)

ValidBody(type, b) ==
    CASE type = 0 -> ValidLogin(b)
      [] type = 1 -> ValidLoginReply(b)
      [] type = 5 -> ValidAttachmentRequestReply(b)
      [] type = 8 -> ValidEventDocument(b)
      [] type = 10 -> ValidQueryRequest(b)
      [] type = 11 -> ValidQueryReply(b)
      [] OTHER -> TRUE

FragmentFields(m) == <<m.firstFragment, m.lastFragment, m.offset, m.fds>>

ValidHeader(m) ==
    /\ m.createTime >= 0
    /\ \A i \in 1..4 : (FragmentFields(m)[i] # None) = m.isFragmented
    /\ m.dataType \in 0..14

Valid(m) ==
    ValidHeader(m) /\ (m.messageBody # None => ValidBody(m.dataType, m.messageBody[1]))

PackMessage(m) ==
    LET Body(b) == PackBody(m.dataType, b)
        Fragment(opt, f(_)) == IF m.isFragmented THEN f(opt[1]) ELSE Nil
    IN  Arr(<<Str(m.userName), Str(m.messageId), Num(m.createTime),
              Num(m.requestTime), Bool(m.isFragmented),
              Fragment(m.firstFragment, Str), Fragment(m.lastFragment, Str),
              Fragment(m.offset, Num), Fragment(m.fds, Num),
              Num(m.dataType), OrNil(m.messageBody, Body)>>)

\* Types 13 and 14 have no body, whatever stands in its place.
UnpackMessage(w, memory) ==
    LET d == w[2]
        Field(i) == IF d[5][2] THEN Some(d[i][2]) ELSE None
        type == d[10][2]
    IN  [userName |-> d[1][2], messageId |-> d[2][2], createTime |-> d[3][2],
         requestTime |-> d[4][2], isFragmented |-> d[5][2],
         firstFragment |-> Field(6), lastFragment |-> Field(7),
         offset |-> Field(8), fds |-> Field(9), dataType |-> type,
         messageBody |-> IF HasBody(type) THEN Some(UnpackBody(type, d[11], memory))
                                          ELSE None]

\* as<vector> finds an array wherever unpack looks for one.
WellTyped(w) ==
    LET type == w[2][10][2]
        body == w[2][11]
    IN  HasBody(type) =>
            /\ body \notin {Nil, Garbled}
            /\ (type = 3 /\ body[2][2] # Nil) =>
                    \A i \in DOMAIN body[2][2][2] : body[2][2][2][i][1] = "arr"

\* unpack returns instead of throwing.
Readable(w, memory) == WellTyped(w) /\ Valid(UnpackMessage(w, memory))
=============================================================================
