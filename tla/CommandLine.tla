---------------------------- MODULE CommandLine ----------------------------
(***************************************************************************)
(* From the command line to the first request: ArgParser::parse of         *)
(* arg_parse.hpp, main(), which picks a mode, and what the console client  *)
(* makes of the options it is given.  A command line is a sequence of      *)
(* words; an option is named without its dash, other words are values.     *)
(* ConsoleClient goes on with the command that is found here.              *)
(***************************************************************************)
EXTENDS Integers, Sequences, FileNames

CONSTANTS
    Values,       \* words that do not begin with a dash
    Abbreviates,  \* words that are no option's name: the option they begin, or "?"
    Lines,        \* command lines, and what their values mean as text and number
    Modulus       \* 2^64: how many values unsigned long and int64_t have

Commands == {"event", "query", "queryall", "attachment"}
Settings == {"username", "password", "url", "timeout", "hex", "cert", "secret",
             "attachments"}
Options == Commands \cup Settings \cup {"help"}
Keys == Commands \cup (Settings \ {"attachments"}) \cup {"files", "help"}
Words == Options \cup Values \cup DOMAIN Abbreviates \cup {"--"}

ASSUME WordsAssumption ==
    /\ Values \cap (Options \cup DOMAIN Abbreviates \cup {"--", "default", "none"}) = {}
    /\ DOMAIN Abbreviates \cap (Options \cup {"--", "default", "none"}) = {}
    /\ \A w \in DOMAIN Abbreviates : Abbreviates[w] \in Options \cup {"?"}
ASSUME LinesAssumption ==
    \A l \in Lines :
        /\ l.argv \in Seq(Words)
        /\ \A w \in DOMAIN l.text : l.text[w] \in Seq(Byte)
        /\ \A w \in DOMAIN l.seconds : l.seconds[w] \in Int
ASSUME ModulusAssumption == Modulus \in Nat /\ Modulus > 1

VARIABLES
    line,        \* the command line
    optind,      \* the next word getopt looks at
    seen,        \* history: the options it has returned, with their values
    m_values,    \* per key: a word, "default", or "none"
    ok,          \* "unset", "yes", "no"
    main,        \* where main() is
    timeout,     \* of the console client, in milliseconds
    connection,  \* the client built: "none", "secure", "insecure"
    request,     \* the command that was sent
    ids          \* files printed, or attached to an event, with their ids

parser == <<optind, seen, m_values, ok>>
client == <<timeout, connection, request, ids>>
vars == <<line, main, parser, client>>

\* An option or a "--" may be a value, too: a text that is no number.
Text(w) == IF w \in DOMAIN line.text THEN line.text[w] ELSE <<45>>
IsNumber(w) == w \in {"default"} \cup DOMAIN line.seconds
Seconds(w) == IF w = "default" THEN 3 ELSE line.seconds[w]

Default(key) == IF key \in {"username", "timeout", "url"} THEN "default" ELSE "none"

Init ==
    /\ line \in Lines
    /\ optind = 1 /\ seen = <<>>
    /\ m_values = [k \in Keys |-> Default(k)]
    /\ ok = "unset" /\ main = "parse"
    /\ timeout = 0 /\ connection = "none" /\ request = "none" /\ ids = {}

has_arg(key) == m_values[key] # "none"

MutantCommands == has_arg("attachment") \/ has_arg("event") \/ has_arg("query")
has_commands == \E c \in Commands : has_arg(c)

MutantKey(o) == IF o = "attachments" THEN "attachment" ELSE o
Key(o) == IF o = "attachments" THEN "files" ELSE o

-----------------------------------------------------------------------------
(* parse(): one action per round of its loop.                              *)

More == optind <= Len(line.argv) /\ line.argv[optind] # "--"
Word == line.argv[optind]
HasValue == optind < Len(line.argv)
Value == line.argv[optind + 1]

\* What getopt makes of a word.  long_options has no terminating entry: an
\* option that is none of its names is looked up past its end, so it may be
\* refused, taken for the one it begins, or be the end of the process.
Reads == IF Word \in Options THEN {Word}
         ELSE IF Word \in DOMAIN Abbreviates THEN {Abbreviates[Word], "?", "dies"}
         ELSE {}

Parsing == main = "parse" /\ ok = "unset"
See(o, v) == seen' = Append(seen, [option |-> o, value |-> v])
Stop(verdict) == ok' = verdict /\ main' = "main" /\ UNCHANGED <<line, client>>

\* getopt moves the words that are no options behind the others.
SkipValue ==
    /\ Parsing /\ More /\ Word \in Values
    /\ optind' = optind + 1
    /\ UNCHANGED <<line, main, seen, m_values, ok, client>>

\* The value is the next word, whatever it looks like.
TakeSetting(o) ==
    /\ Parsing /\ More /\ o \in Reads \cap Settings /\ HasValue
    /\ m_values' = [m_values EXCEPT ![Key(o)] = Value]
    /\ See(o, Value)
    /\ optind' = optind + 2
    /\ UNCHANGED <<line, main, ok, client>>

TakeCommand(o) ==
    /\ Parsing /\ More /\ o \in Reads \cap Commands /\ HasValue
    /\ See(o, Value)
    /\ optind' = optind + 2
    /\ \/ has_commands /\ Stop("no") /\ UNCHANGED m_values
       \/ /\ ~has_commands
          /\ m_values' = [m_values EXCEPT ![o] = Value]
          /\ UNCHANGED <<line, main, ok, client>>

TakeHelp ==
    /\ Parsing /\ More /\ "help" \in Reads
    /\ m_values' = [m_values EXCEPT !.help = "empty"]
    /\ See("help", "empty")
    /\ optind' = optind + 1
    /\ Stop("yes")

\* '?': no such option, or one that lacks its value.
BadOption ==
    /\ Parsing /\ More
    /\ "?" \in Reads \/ (~HasValue /\ Reads \cap (Settings \cup Commands) # {})
    /\ See("?", "empty")
    /\ optind' = optind + 1
    /\ Stop("no")
    /\ UNCHANGED m_values

Overrun ==
    /\ Parsing /\ More /\ "dies" \in Reads
    /\ main' = "dead"
    /\ UNCHANGED <<line, parser, client>>

EndOfOptions ==
    /\ Parsing /\ ~More
    /\ Stop(IF has_commands \/ has_arg("hex") \/ has_arg("help") THEN "yes" ELSE "no")
    /\ UNCHANGED <<optind, seen, m_values>>

parse == \/ SkipValue \/ TakeHelp \/ BadOption \/ Overrun \/ EndOfOptions
         \/ \E o \in Options : TakeSetting(o) \/ TakeCommand(o)

-----------------------------------------------------------------------------
(* main(), and the client that it may come to.                             *)

Goto(l) == main' = l /\ UNCHANGED <<line, parser>>

Refuse ==
    /\ main = "main" /\ ok = "no"
    /\ Goto("refused") /\ UNCHANGED client

PrintHex ==
    /\ main = "main" /\ ok = "yes" /\ has_arg("hex")
    /\ ids' = Ids(Text(m_values.hex))
    /\ Goto("printed") /\ UNCHANGED <<timeout, connection, request>>

PrintHelp ==
    /\ main = "main" /\ ok = "yes" /\ ~has_arg("hex") /\ has_arg("help")
    /\ Goto("helped") /\ UNCHANGED client

MutantWide(seconds) == (seconds % Modulus) * 1000
MutantNarrow(seconds) == (seconds * 1000) % (Modulus \div 4)
Millis(seconds) == ((seconds % Modulus) * 1000) % Modulus

\* stoul takes a minus sign, and throws on what is no number or too big for one.
Stoul(w) == IsNumber(w) /\ Seconds(w) \in (1 - Modulus)..(Modulus - 1)

\* The constructor.
Construct ==
    /\ main = "main" /\ ok = "yes" /\ ~has_arg("hex") /\ ~has_arg("help")
    /\ has_commands
    /\ IF Stoul(m_values.timeout)
       THEN /\ timeout' = Millis(Seconds(m_values.timeout))
            /\ Goto("run") /\ UNCHANGED <<connection, request, ids>>
       ELSE Goto("thrown") /\ UNCHANGED client

Filled(key) == has_arg(key) /\ Text(m_values[key]) # <<>>

MutantSecure == Filled("cert")
SecureGiven == Filled("cert") /\ Filled("secret")

\* with_tls and build(): both strings, or no TLS at all.
build ==
    /\ main = "run"
    /\ connection' = IF SecureGiven THEN "secure" ELSE "insecure"
    /\ Goto("ready") /\ UNCHANGED <<timeout, request, ids>>

\* run() looks for the commands in this order.
SendQuery ==
    /\ main = "ready" /\ (has_arg("query") \/ has_arg("queryall"))
    /\ request' = IF has_arg("queryall") THEN "queryall" ELSE "query"
    /\ Goto("sent") /\ UNCHANGED <<timeout, connection, ids>>

SendEvent ==
    /\ main = "ready" /\ ~has_arg("query") /\ ~has_arg("queryall")
    /\ has_arg("event")
    /\ request' = "event"
    /\ ids' = IF Filled("files") THEN Ids(Text(m_values.files)) ELSE {}
    /\ Goto("sent") /\ UNCHANGED <<timeout, connection>>

SendAttachmentRequest ==
    /\ main = "ready" /\ ~has_arg("query") /\ ~has_arg("queryall")
    /\ ~has_arg("event") /\ has_arg("attachment")
    /\ request' = "attachment"
    /\ Goto("sent") /\ UNCHANGED <<timeout, connection, ids>>

Ended ==
    /\ main \in {"dead", "refused", "printed", "helped", "thrown", "sent"}
    /\ UNCHANGED vars

Next == parse \/ Refuse \/ PrintHex \/ PrintHelp \/ Construct \/ build
        \/ SendQuery \/ SendEvent \/ SendAttachmentRequest \/ Ended

Spec == Init /\ [][Next]_vars

-----------------------------------------------------------------------------
(* Properties.  They speak of what the user gave, that is, of seen.        *)

Given(o) == {i \in DOMAIN seen : seen[i].option = o}
GivenCommands == {i \in DOMAIN seen : seen[i].option \in Commands}
IsLast(i) == \A j \in DOMAIN seen : seen[j].option = seen[i].option => j <= i
LastValue(o, v) == \E i \in Given(o) : IsLast(i) /\ seen[i].value = v

TypeOK ==
    /\ line.argv \in Seq(Words)
    /\ optind \in Nat \ {0}
    /\ seen \in Seq([option : Options \cup {"?"}, value : Words \cup {"empty"}])
    /\ m_values \in [Keys -> Words \cup {"empty", "default", "none"}]
    /\ ok \in {"unset", "yes", "no"}
    /\ main \in {"parse", "dead", "main", "refused", "printed", "helped", "thrown",
                 "run", "ready", "sent"}
    /\ timeout \in 0..(Modulus - 1)
    /\ connection \in {"none", "secure", "insecure"}
    /\ request \in Commands \cup {"none"}

\* A request is sent for the one command of the command line: none is passed
\* over, and none goes out beside -hex or -help.
CommandKept ==
    request # "none" =>
        /\ \A i \in GivenCommands : seen[i].option = request
        /\ \A i, j \in GivenCommands : i = j
        /\ LastValue(request, m_values[request])
        /\ Given("hex") = {} /\ Given("help") = {} /\ Given("?") = {}

\* A command line is refused only for an option that getopt refuses, a second
\* command, or nothing to do at all; and none of these is accepted.
RefusedForAReason ==
    LET Wrong == \/ Given("?") # {}
                 \/ \E i, j \in GivenCommands : i # j
                 \/ GivenCommands = {} /\ Given("hex") = {} /\ Given("help") = {}
    IN  ok # "unset" => (ok = "no" <=> Wrong)

\* Every option counts as it was given last, whatever stands between: no option
\* writes to the place of another.
LastWins ==
    \A o \in Settings :
        IF Given(o) = {} THEN m_values[Key(o)] = Default(Key(o))
                         ELSE LastValue(o, m_values[Key(o)])

\* A connection is secure just when the last -cert and the last -secret both say
\* something; one alone gives an insecure client, and a password to that.
SecureAsGiven ==
    connection # "none" =>
        (connection = "secure" <=>
            \A o \in {"cert", "secret"} :
                \E i \in Given(o) : IsLast(i) /\ Text(seen[i].value) # <<>>)

\* What wait_for takes for its int64_t.
Wait == IF timeout < Modulus \div 2 THEN timeout ELSE timeout - Modulus

\* What wait_for is handed is the milliseconds of the user's seconds if they fit
\* the int64_t, and no number of seconds is handed over as a longer time.  (How
\* long wait_for then waits is the library's: a count near the top of the int64_t
\* overflows the nanoseconds of its clock.)
TimeoutKept ==
    main \in {"run", "ready", "sent"} =>
        LET asked == Seconds(m_values.timeout) * 1000
        IN  /\ asked >= 0 => Wait <= asked
            /\ asked \in 0..(Modulus \div 2 - 1) => Wait = asked

\* The list whose files are printed or attached.
FileList == IF main = "printed" THEN Text(m_values.hex)
            ELSE IF request = "event" /\ has_arg("files") THEN Text(m_values.files)
            ELSE <<>>

\* Every name of a list is read, as it stands between two delimiters, and no
\* other, and the files printed or attached are those and no more.
NamesKept ==
    /\ SplitKeepsAll(FileList)
    /\ {x.name : x \in ids} = Pieces(FileList)

\* No attachment takes the place of another: files of an event whose names hold
\* no control characters have ids of their own.
AttachmentsKept == IdsDistinct(ids)
=============================================================================
