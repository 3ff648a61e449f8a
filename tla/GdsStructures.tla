--------------------------- MODULE GdsStructures ---------------------------
(***************************************************************************)
(* The structures of gds_types.hpp: which members a message, its body and  *)
(* their parts have, and of what type.  A structure is a record with the   *)
(* members' names; strings, byte arrays and floats are strings.            *)
(***************************************************************************)
EXTENDS Integers, Sequences

CONSTANTS Depth,   \* how deep the arrays among the field values are nested
          Names,   \* the keys of maps with names
          Indexes  \* the keys of maps with numbers

ASSUME DepthAssumption == Depth \in Nat

None == <<>>
Some(x) == <<x>>

\* A std::optional is a sequence of at most one element, a map a function to
\* what it holds of each key.
Opt(S) == {None} \cup [{1} -> S]
MapOf(K, S) == [K -> Opt(S)]
EmptyMap(K) == [k \in K |-> None]
Strings == Seq(STRING)
field_descriptor == [1..3 -> STRING]

-----------------------------------------------------------------------------
(* GdsFieldValue: an array holds values of any type, arrays included, and  *)
(* the type of a number tells its sign.                                    *)

Scalars ==
    [type : {"NIL"}, value : {None}]
    \cup [type : {"BOOLEAN"}, value : BOOLEAN]
    \cup [type : {"POSITIVE_INTEGER"}, value : Nat]
    \cup [type : {"NEGATIVE_INTEGER"}, value : {n \in Int : n < 0}]
    \cup [type : {"FLOAT32", "FLOAT64", "STR", "BIN"}, value : STRING]
    \cup [type : {"MAP"}, value : MapOf(Names, STRING)]

Flat(scalars) == scalars
OrArray(scalars, n, below) == scalars \cup [type : {"ARRAY"}, value : Seq(below)]
Nesting == INSTANCE Recursion WITH Base <- Flat, Step <- OrArray

\* The field values whose arrays are nested up to n deep.
FieldValues(n) == Nesting!Rec(Scalars)[n]
GdsFieldValue == FieldValues(Depth)
Row == Seq(GdsFieldValue)

-----------------------------------------------------------------------------

EventSubResult ==
    [status : Int, id : Opt(STRING), tableName : Opt(STRING), created : Opt(BOOLEAN),
     version : Opt(STRING), values : Opt(Row)]

GdsEventResult ==
    [status : Int, notification : STRING, fieldDescriptor : Seq(field_descriptor),
     subResults : Seq(EventSubResult)]

AttachmentResult ==
    [requestIDs : Strings, ownerTable : STRING, attachmentID : STRING, ownerIDs : Strings,
     meta : Opt(STRING), ttl : Opt(Int), to_valid : Opt(Int), attachment : Opt(STRING)]

AttachmentRequestBody ==
    [status : Int, result : AttachmentResult, waitTime : Opt(Int)]

AttachmentResponse ==
    [requestIDs : Strings, ownerTable : STRING, attachmentID : STRING]

AttachmentResponseBody == [status : Int, result : AttachmentResponse]

EventDocumentResult ==
    [status_code : Int, notification : Opt(STRING),
     returnings : MapOf(Names, GdsFieldValue)]

QueryContextDescriptor ==
    [scroll_id : STRING, select_query : STRING, delivered_hits : Int,
     query_start_time : Int, consistency_type : STRING, last_bucket_id : STRING,
     gds_holder : [1..2 -> STRING], field_values : Row, partition_names : Strings]

QueryReplyBody ==
    [numberOfHits : Int, filteredHits : Int, hasMorePages : BOOLEAN,
     queryContextDescriptor : QueryContextDescriptor,
     fieldDescriptors : Seq(field_descriptor), hits : Seq(Row), totalNumberOfHits : Int]

-----------------------------------------------------------------------------
(* The bodies, by their GdsMsgType.                                        *)

GdsLoginMessage ==
    [cluster_name : Opt(STRING), serve_on_the_same_connection : BOOLEAN,
     protocol_version_number : Int, fragmentation_supported : BOOLEAN,
     fragment_transmission_unit : Opt(Int), reserved_fields : Opt(Strings)]

GdsLoginReplyMessage ==
    [ackStatus : Int, ackException : Opt(STRING), loginReply : Opt(GdsLoginMessage),
     errorDetails : Opt(MapOf(Indexes, STRING))]

GdsEventMessage ==
    [operations : STRING, binaryContents : MapOf(Names, STRING),
     priorityLevels : Seq(Seq(MapOf(Indexes, BOOLEAN)))]

GdsEventReplyMessage ==
    [ackStatus : Int, ackException : Opt(STRING), reply : Opt(Seq(GdsEventResult))]

GdsAttachmentRequestMessage == [request : STRING]

GdsAttachmentRequestReplyMessage ==
    [ackStatus : Int, ackException : Opt(STRING), request : Opt(AttachmentRequestBody)]

GdsAttachmentResponseMessage == [result : AttachmentResult]

GdsAttachmentResponseResultMessage ==
    [ackStatus : Int, ackException : Opt(STRING), response : Opt(AttachmentResponseBody)]

GdsEventDocumentMessage ==
    [tableName : STRING, fieldDescriptors : Seq(field_descriptor), records : Seq(Row),
     returnings : MapOf(Indexes, Strings)]

GdsEventDocumentReplyMessage ==
    [ackStatus : Int, ackException : Opt(STRING),
     results : Opt(Seq(EventDocumentResult))]

GdsQueryRequestMessage ==
    [selectString : STRING, consistency : STRING, timeout : Int,
     queryPageSize : Opt(Int), queryType : Opt(Int)]

GdsQueryReplyMessage ==
    [ackStatus : Int, ackException : Opt(STRING), response : Opt(QueryReplyBody)]

GdsNextQueryRequestMessage ==
    [contextDescriptor : QueryContextDescriptor, timeout : Int]

\* The other types have no body.
HasBody(type) == type \in 0..12

BodyOf(type) ==
    CASE type = 0 -> GdsLoginMessage
      [] type = 1 -> GdsLoginReplyMessage
      [] type = 2 -> GdsEventMessage
      [] type = 3 -> GdsEventReplyMessage
      [] type = 4 -> GdsAttachmentRequestMessage
      [] type = 5 -> GdsAttachmentRequestReplyMessage
      [] type = 6 -> GdsAttachmentResponseMessage
      [] type = 7 -> GdsAttachmentResponseResultMessage
      [] type = 8 -> GdsEventDocumentMessage
      [] type = 9 -> GdsEventDocumentReplyMessage
      [] type = 10 -> GdsQueryRequestMessage
      [] type = 11 -> GdsQueryReplyMessage
      [] type = 12 -> GdsNextQueryRequestMessage

\* The header, around the body its dataType announces.
GdsMessage(type) ==
    [userName : STRING, messageId : STRING, createTime : Int, requestTime : Int,
     isFragmented : BOOLEAN, firstFragment : Opt(STRING), lastFragment : Opt(STRING),
     offset : Opt(Int), fds : Opt(Int), dataType : {type},
     messageBody : IF HasBody(type) THEN Opt(BodyOf(type)) ELSE {None}]
=============================================================================
