---------------------------- MODULE MCCommandLine ----------------------------
EXTENDS CommandLine, SequencesExt

\* Bytes of each width that to_hex makes, and the delimiter.
Bytes == {59, 1, 27, 127, 129, 255}
AbbreviatesValue == [w \in {"e", "q", "bogus"} |-> IF w = "e" THEN "event" ELSE "?"]

\* Command lines of up to three parts, whole options or single words ...
Parts == {<<o, "v">> : o \in {"event", "query", "queryall", "attachment", "attachments",
                               "hex", "username"}}
         \cup {<<w>> : w \in {"event", "help", "v", "e", "q", "--"}}
         \cup {<<"username", "w">>, <<"e", "w">>}
Mixed == {[argv |-> FlattenSeq(p), text |-> [w \in {"v", "w"} |-> <<118>>],
           seconds |-> <<>>] : p \in BoundedSeq(Parts, 3)}

\* ... every number that means something else as a timeout ...
Timeouts == {[argv |-> <<"timeout", "v", "query", "w">>,
              text |-> [w \in {"v", "w"} |-> <<118>>],
              seconds |-> f] :
             f \in {<<>>} \cup [{"v"} -> {-8192, -8191, -5, -1, 0, 4, 5, 8, 9, 4096, 8191,
                                        8192}]}

\* ... certificates, with both words or without ...
Tls == {[argv |-> a \o <<"query", "v">>,
         text |-> [v |-> <<118>>, w |-> <<>>],
         seconds |-> [v |-> 1]] :
        a \in {<<"cert", x, "secret", y, "cert", z>> : x, y, z \in {"v", "w"}}
             \cup {<<"secret", x, "password", y>> : x, y \in {"v", "w"}}}

\* ... and lists of names, to print and to attach.
Lists == {[argv |-> a, text |-> [v |-> t, w |-> <<118>>], seconds |-> [v |-> 1]] :
          a \in {<<"hex", "v">>, <<"event", "w", "attachments", "v">>},
          t \in BoundedSeq(Bytes, 4)}

AllLines == Mixed \cup Timeouts \cup Tls \cup Lists
==============================================================================
