----------------------------- MODULE MCGdsCodec -----------------------------
(* Bounded messages for GdsCodec: every optional member present and absent,  *)
(* every list empty and not, one or two values of what is only carried.     *)
EXTENDS GdsCodec

Entry(keys, k, v) == [EmptyMap(keys) EXCEPT ![k] = Some(v)]
Field(t, v) == [type |-> t, value |-> v]
Yes == Field("BOOLEAN", TRUE)
Three == Field("POSITIVE_INTEGER", 3)
Sample == <<Yes, Field("NIL", None), Three, Field("NEGATIVE_INTEGER", -1),
         Field("STR", "a"), Field("FLOAT64", "1.5"), Field("BIN", "b"),
         Field("ARRAY", <<Yes, Field("ARRAY", <<Three>>)>>), Field("MAP", Entry(Names, "k", "v"))>>
Descriptor(name) == <<name, "KEYWORD", "">>

Logins ==
    [cluster_name : Opt({"c"}), serve_on_the_same_connection : {TRUE},
     protocol_version_number : {1}, fragmentation_supported : BOOLEAN,
     fragment_transmission_unit : Opt({7}), reserved_fields : Opt({<<>>, <<"p">>})]

LoginReplies ==
    [ackStatus : {200, 401, 500}, loginReply : Opt(Logins),
     errorDetails : Opt({Entry(Indexes, 4, "bad")}), ackException : Opt({"e"})]

Events ==
    [operations : {"INSERT"}, binaryContents : {EmptyMap(Names), Entry(Names, "f", "b")},
     priorityLevels : {<<>>, <<<<Entry(Indexes, 1, TRUE)>>, <<>>>>}]

SubResults ==
    [status : {201}, id : Opt({"i"}), tableName : {None}, created : Opt({FALSE}),
     version : Opt({"v"}), values : Opt({<<>>, Sample})]

EventReplies(subs) ==
    [ackStatus : {200}, ackException : {None},
     reply : {Some(<<[status |-> 200, notification |-> "n",
                      fieldDescriptor |-> <<Descriptor("f")>>, subResults |-> s]>>)
              : s \in subs}]
    \cup [ackStatus : {500}, ackException : {Some("e")}, reply : {None, Some(<<>>)}]

Attachments ==
    [requestIDs : {<<"r", "s">>}, ownerTable : {"t"}, attachmentID : {"a"},
     ownerIDs : {<<"o">>}, meta : Opt({"png"}), ttl : {None}, to_valid : Opt({9}),
     attachment : Opt({"b"})]

AttachmentReplies ==
    [ackStatus : {200}, ackException : {None},
     request : Opt([status : {1}, result : Attachments, waitTime : Opt({5})])]
    \cup [ackStatus : {404}, ackException : Opt({"e"}), request : {None}]

AttachmentAcks ==
    [ackStatus : {200}, ackException : {None},
     response : Opt({[status |-> 201,
                      result |-> [requestIDs |-> <<"r">>, ownerTable |-> "t",
                                  attachmentID |-> "a"]]})]

Documents ==
    [tableName : {"t"}, fieldDescriptors : {<<>>, <<Descriptor("f"), Descriptor("g")>>},
     records : {<<>>, <<<<Yes, Three>>>>, <<<<Yes, Three>>, <<Yes>>>>, <<<<>>>>},
     returnings : {EmptyMap(Indexes), Entry(Indexes, 1, <<"t">>)}]

DocumentReplies ==
    [ackStatus : {200}, ackException : Opt({"e"}),
     results : Opt({<<>>, <<[status_code |-> 201, notification |-> None,
                             returnings |-> EmptyMap(Names)],
                            [status_code |-> 200, notification |-> Some("n"),
                             returnings |-> Entry(Names, "f", Three)]>>})]

Queries ==
    [selectString : {"SELECT"}, consistency : {"PAGES"}, timeout : {0},
     queryPageSize : Opt({300}), queryType : Opt({1})]

Contexts(values) ==
    [scroll_id : {"id"}, select_query : {"SELECT"}, delivered_hits : {1, 2},
     query_start_time : {8}, consistency_type : {"PAGES"}, last_bucket_id : {"bucket"},
     gds_holder : {<<"g", "h">>}, field_values : values,
     partition_names : {<<>>, <<"p", "q">>}]

QueryReplies(hits, values) ==
    [ackStatus : {200}, ackException : {None},
     response : Opt([numberOfHits : {1, 2}, filteredHits : {0}, hasMorePages : BOOLEAN,
                     queryContextDescriptor : Contexts(values),
                     fieldDescriptors : {<<Descriptor("f")>>},
                     hits : hits, totalNumberOfHits : {6}])]

Pages(values) ==
    {DefaultMessage(11, b) : b \in QueryReplies({<<Sample>>, <<<<>>, Sample>>}, values)}

Headers(type, bodies) == {DefaultMessage(type, b) : b \in bodies}

WithValues == {s \in SubResults : s.values # None}

TwoSubResults == {<<s, t>> : s \in SubResults, t \in WithValues}

Bodies ==
    Headers(0, Logins) \cup Headers(1, LoginReplies) \cup Headers(2, Events)
    \cup Headers(3, EventReplies({<<>>} \cup TwoSubResults))
    \cup Headers(4, [request : {"r"}]) \cup Headers(5, AttachmentReplies)
    \cup Headers(6, [result : Attachments]) \cup Headers(7, AttachmentAcks)
    \cup Headers(8, Documents) \cup Headers(9, DocumentReplies)
    \cup Headers(10, Queries) \cup Pages({<<>>})
    \cup Headers(12, [contextDescriptor : Contexts({<<>>, <<Three>>}), timeout : {0}])

Fragmented ==
    {[DefaultMessage(4, [request |-> "r"]) EXCEPT
        !.isFragmented = b, !.firstFragment = f, !.lastFragment = l,
        !.offset = o, !.fds = d] :
     b \in BOOLEAN, f \in Opt({"m"}), l \in Opt({"n"}), o \in Opt({0}), d \in Opt({2})}

Between ==
    {[m EXCEPT !.dataType = type, !.createTime = t, !.messageBody = None] :
     m \in Headers(13, {0}), type \in {13, 14, 15}, t \in {-1, 0}}

\* Sub-results that have field values beside some that have none.
SomeSubResults == Headers(3, EventReplies(TwoSubResults))

EmptyPages ==
    {DefaultMessage(11, [b EXCEPT !.response[1].numberOfHits = 0]) :
     b \in {b \in QueryReplies({<<>>}, {<<>>}) : b.response # None}}

\* Type 4 to 14 with no body: 13 and 14 are read, the others are not.
Bodyless == {[DefaultMessage(type, 0) EXCEPT !.messageBody = None] : type \in 4..14}

\* Pages whose context has field values are left to a set of their own.
AllMessages == Bodies \cup Fragmented \cup Between \cup EmptyPages \cup Bodyless

\* Pages whose context carries the field value it is continued from.
FieldValuePages == Pages({<<>>, <<Three>>})
=============================================================================
