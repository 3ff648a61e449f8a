------------------------------ MODULE GdsCodec ------------------------------
(***************************************************************************)
(* One message at a time on its way from one peer of a connection to the   *)
(* other: composed, packed (GDSBaseClient::send, login and the GDS),       *)
(* carried as MessagePack bytes, unpacked (onMessageReceived).  A client   *)
(* that was sent one page of a result may answer with the request for the  *)
(* next page, made from the context descriptor it has read.                *)
(***************************************************************************)
EXTENDS GdsTypes

CONSTANTS Messages,  \* the messages the peers compose
          Memory,    \* what an uninitialised int64_t may hold
          User,      \* the name the client was given
          Uuid       \* the id of a message of the client

ASSUME MessagesAssumption == \A m \in Messages : m \in GdsMessage(m.dataType)
ASSUME MemoryAssumption == Memory \subseteq Int /\ Memory # {}
ASSUME HeaderAssumption == User \in STRING /\ Uuid \in STRING

VARIABLES stage,     \* where the message is
          msg,       \* the message as the sender composed it
          wire,      \* its bytes
          got,       \* the message as the receiver has it
          page       \* the context of the page being continued

vars == <<stage, msg, wire, got, page>>

Init ==
    /\ stage = "idle" /\ msg = None /\ wire = Nil /\ got = None /\ page = None

Compose ==
    /\ stage = "idle"
    /\ \E m \in Messages : msg' = Some(m)
    /\ stage' = "composed"
    /\ UNCHANGED <<wire, got, page>>

MutantSendable(m) == ValidHeader(m) /\ (m.dataType # 8 => Valid(m))

\* pack begins with validate.
Sendable(m) == Valid(m)

Pack ==
    /\ stage = "composed"
    /\ Sendable(msg[1])
    /\ wire' = PackMessage(msg[1])
    /\ stage' = "sent"
    /\ UNCHANGED <<msg, got, page>>

\* invalid_message_error, before a byte is sent.
Refuse ==
    /\ stage = "composed"
    /\ ~Sendable(msg[1])
    /\ stage' = "refused"
    /\ UNCHANGED <<msg, wire, got, page>>

Unpack ==
    /\ stage = "sent"
    /\ \E memory \in Memory :
          /\ Readable(wire, memory)
          /\ got' = Some(UnpackMessage(wire, memory))
    /\ stage' = "received"
    /\ UNCHANGED <<msg, wire, page>>

\* unpack throws, a type_error or at its closing validate.
Reject ==
    /\ stage = "sent"
    /\ \A memory \in Memory : ~Readable(wire, memory)
    /\ stage' = "rejected"
    /\ UNCHANGED <<msg, wire, got, page>>

\* The header every client writes; the two times are the same reading.
DefaultMessage(type, body) ==
    [userName |-> User, messageId |-> Uuid, createTime |-> 0, requestTime |-> 0,
     isFragmented |-> FALSE, firstFragment |-> None, lastFragment |-> None,
     offset |-> None, fds |-> None, dataType |-> type, messageBody |-> Some(body)]

MutantNextType(context) ==
    DefaultMessage(10, [contextDescriptor |-> context, timeout |-> 0])

MutantFirstPage(context) ==
    DefaultMessage(12, [contextDescriptor |-> [context EXCEPT !.delivered_hits = 0],
                        timeout |-> 0])

GetNextQuery(context) ==
    DefaultMessage(12, [contextDescriptor |-> context, timeout |-> 0])

\* on_query_request_ack11 keeps the context of a page with more behind it,
\* send_next_query puts it into a message of type 12.
NextPage ==
    /\ stage = "received"
    /\ got[1].dataType = 11
    /\ \E response \in {got[1].messageBody[1].response} :
          /\ response # None
          /\ response[1].hasMorePages
          /\ msg' = Some(GetNextQuery(response[1].queryContextDescriptor))
    /\ page' = Some(msg[1].messageBody[1].response[1].queryContextDescriptor)
    /\ stage' = "composed" /\ wire' = Nil /\ got' = None

\* The next message has nothing to do with this one.
Forget ==
    /\ stage \in {"received", "refused", "rejected"}
    /\ stage' = "idle" /\ msg' = None /\ wire' = Nil /\ got' = None /\ page' = None

Next == Compose \/ Pack \/ Refuse \/ Unpack \/ Reject \/ NextPage \/ Forget

Spec == Init /\ [][Next]_vars

-----------------------------------------------------------------------------
(* Properties.                                                             *)

\* The message is where the stage says, and nowhere further; every structure that is
\* composed, or unpacked, has the members and types of gds_types.hpp.
TypeOK ==
    /\ stage \in {"idle", "composed", "sent", "received", "refused", "rejected"}
    /\ (msg = None) = (stage = "idle")
    /\ (wire = Nil) = (stage \in {"idle", "composed", "refused"})
    /\ (got = None) = (stage # "received")
    /\ (page # None) => (stage # "idle" /\ msg[1].dataType = 12)
    /\ \A m \in {msg, got} \ {None} : m[1] \in GdsMessage(m[1].dataType)
    /\ (page # None) => page[1] \in QueryContextDescriptor

\* What the format keeps of a body: all but the members named here.
\* Of the answer to a login, what its status announces.
KeptLoginReply(b) ==
    [ackStatus |-> b.ackStatus, ackException |-> b.ackException,
     loginReply |-> IF b.ackStatus = 200 THEN b.loginReply ELSE None,
     errorDetails |-> IF b.ackStatus = 401 THEN b.errorDetails ELSE None]

\* Of an event's result, the sub-results with field values.
KeptSubResult(s) == IF s.values = None THEN None ELSE Some(s)
KeptEventResult(r) == [r EXCEPT !.subResults = Stored(Each(@, KeptSubResult))]
KeptEventReply(b) ==
    LET Results(rs) == Each(rs, KeptEventResult)
    IN  [b EXCEPT !.reply = Each(@, Results)]

\* The returnings of documents are lost.
KeptEventDocument(b) == [b EXCEPT !.returnings = EmptyMap(Indexes)]
KeptDocumentResult(r) == [r EXCEPT !.returnings = EmptyMap(Names)]
KeptEventDocumentReply(b) ==
    LET Results(rs) == Each(rs, KeptDocumentResult)
    IN  [b EXCEPT !.results = Each(@, Results)]

\* So are the field values of a context, and the total of a page without hits
\* is whatever the memory held.
KeptContext(c) == [c EXCEPT !.field_values = <<>>]
KeptTotal(p, memory) ==
    IF p.hits = <<>> THEN [p EXCEPT !.totalNumberOfHits = memory] ELSE p
KeptPage(p, memory) ==
    [KeptTotal(p, memory) EXCEPT !.queryContextDescriptor = KeptContext(@)]
KeptQueryReply(b, memory) ==
    LET Page(p) == KeptPage(p, memory)
    IN  [b EXCEPT !.response = Each(@, Page)]
KeptNextQuery(b) == [b EXCEPT !.contextDescriptor = KeptContext(@)]

KeptBody(type, b, memory) ==
    CASE type = 1 -> KeptLoginReply(b)
      [] type = 3 -> KeptEventReply(b)
      [] type = 8 -> KeptEventDocument(b)
      [] type = 9 -> KeptEventDocumentReply(b)
      [] type = 11 -> KeptQueryReply(b, memory)
      [] type = 12 -> KeptNextQuery(b)
      [] OTHER -> b

Kept(m, memory) ==
    LET Body(b) == KeptBody(m.dataType, b, memory)
    IN  [m EXCEPT !.messageBody = Each(@, Body)]

\* What unpack makes of a message is what its sender packed: every member of
\* the header and of every body, absent ones included, in its place, but for
\* the losses that Kept names.
RoundTrip == stage = "received" => \E memory \in Memory : got[1] = Kept(msg[1], memory)

\* The checks before pack are at least those after unpack: a message with a
\* body that send lets out is never thrown away by the library on the other
\* side.  (Without a body pack lets every type out, unpack only two.)
SentIsReadable == stage = "rejected" => msg[1].messageBody = None

\* The request for the next page brings the GDS the context it has sent with
\* the page before, all of it.
ContextReturned ==
    stage = "received" /\ page # None => got[1].messageBody[1].contextDescriptor = page[1]

\* An event reply is read with as many sub-results as the GDS has put in.
SubResultsKept ==
    LET SubResults(m) ==
            Each(m[1].messageBody[1].reply[1],
                 LAMBDA r : Len(r.subResults))
    IN  stage = "received" /\ msg[1].dataType = 3 /\ msg[1].messageBody[1].reply # None
            => SubResults(got) = SubResults(msg)
=============================================================================
