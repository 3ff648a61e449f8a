------------------------- MODULE CommandLineProofs -------------------------
(* What a command line comes to, for any set of values, of command lines,  *)
(* and of options that long_options does not have.                         *)
EXTENDS CommandLine, FileNamesProofs

Occurs(o) == Given(o) # {}
Verdicts == {"main", "refused", "printed", "helped", "thrown", "run", "ready", "sent"}

\* As long as parse() has not refused, m_values holds of the commands just the one
\* that has been seen; main() has a client only for an accepted command.
ParseInv ==
    /\ LastWins
    /\ ok # "unset" <=> main \in Verdicts
    /\ Occurs("?") => ok = "no"
    /\ Occurs("help") => ok = "yes" /\ m_values.help = "empty"
    /\ m_values.help # "none" => Occurs("help")
    /\ ok # "no" =>
         /\ \A i, j \in GivenCommands : i = j
         /\ \A c \in Commands : IF Occurs(c) THEN LastValue(c, m_values[c])
                                             ELSE m_values[c] = "none"
    /\ RefusedForAReason

ClientInv ==
    /\ main \in {"thrown", "run", "ready", "sent"} =>
         ok = "yes" /\ ~has_arg("hex") /\ ~has_arg("help")
    /\ request # "none" => main = "sent" /\ request \in Commands /\ has_arg(request)
    /\ connection # "none" =>
         main \in {"ready", "sent"} /\ (connection = "secure" <=> SecureGiven)

SeenType == [option : Options \cup {"?"}, value : Words \cup {"empty"}]

-----------------------------------------------------------------------------
\* The words of an option and of what it may begin.
LEMMA ReadsOptions ==
    ASSUME TypeOK, More
    PROVE  /\ optind \in DOMAIN line.argv
           /\ Word \in Words
           /\ HasValue => Value \in Words
           /\ Reads \subseteq Options \cup {"?", "dies"}
<1>1. optind \in Nat \ {0} /\ line.argv \in Seq(Words)
  BY DEF TypeOK
<1>2. optind \in 1..Len(line.argv) /\ line.argv[optind] # "--"
  BY <1>1 DEF More
<1>3. Word \in Words
  BY <1>1, <1>2 DEF Word
<1>4. HasValue => Value \in Words
  BY <1>1, <1>2 DEF HasValue, Value
<1>5. Reads \subseteq Options \cup {"?", "dies"}
  BY WordsAssumption DEF Reads
<1>6. QED
  BY <1>1, <1>2, <1>3, <1>4, <1>5

\* One more option at the end of what has been seen.
LEMMA Seen ==
    ASSUME TypeOK, NEW o, NEW v, See(o, v),
           o \in Options \cup {"?"}, v \in Words \cup {"empty"}
    PROVE  /\ seen' \in Seq(SeenType)
           /\ Len(seen') = Len(seen) + 1
           /\ DOMAIN seen' = DOMAIN seen \cup {Len(seen) + 1}
           /\ Len(seen) + 1 \notin DOMAIN seen
           /\ \A i \in DOMAIN seen : seen'[i] = seen[i] /\ i < Len(seen) + 1
           /\ seen'[Len(seen) + 1] = [option |-> o, value |-> v]
           /\ \A i \in DOMAIN seen' : i \in Nat
<1>1. seen \in Seq(SeenType) /\ [option |-> o, value |-> v] \in SeenType
  BY DEF TypeOK, SeenType
<1>2. seen' = Append(seen, [option |-> o, value |-> v])
  BY DEF See
<1>3. /\ seen' \in Seq(SeenType)
      /\ Len(seen') = Len(seen) + 1
      /\ \A i \in 1..Len(seen) : seen'[i] = seen[i]
      /\ seen'[Len(seen) + 1] = [option |-> o, value |-> v]
  BY <1>1, <1>2, AppendProperties
<1>4. Len(seen) \in Nat
  BY <1>1
<1>5. DOMAIN seen = 1..Len(seen)
  BY <1>1
<1>6. DOMAIN seen' = 1..Len(seen) + 1
  BY <1>3
<1>7. QED
  BY <1>3, <1>4, <1>5, <1>6

\* What has been given is what was given before, and the new option, last.
LEMMA SeenGiven ==
    ASSUME TypeOK, NEW o, NEW v, See(o, v),
           o \in Options \cup {"?"}, v \in Words \cup {"empty"}
    PROVE  /\ \A x : Given(x)' = IF x = o THEN Given(x) \cup {Len(seen) + 1}
                                          ELSE Given(x)
           /\ \A x, w : LastValue(x, w)' <=> IF x = o THEN w = v ELSE LastValue(x, w)
           /\ GivenCommands' = IF o \in Commands THEN GivenCommands \cup {Len(seen) + 1}
                                                 ELSE GivenCommands
<1> PICK new : new = Len(seen) + 1
  OBVIOUS
<1>1. /\ DOMAIN seen' = DOMAIN seen \cup {new}
      /\ new \notin DOMAIN seen
      /\ \A i \in DOMAIN seen : seen'[i] = seen[i] /\ i < new
      /\ seen'[new] = [option |-> o, value |-> v]
      /\ \A i \in DOMAIN seen' : i \in Nat
  BY Seen
<1>0. seen'[new].option = o /\ seen'[new].value = v
  BY <1>1
<1>2. ASSUME NEW x
      PROVE  Given(x)' = IF x = o THEN Given(x) \cup {new} ELSE Given(x)
  BY <1>0, <1>1 DEF Given
<1>3. ASSUME NEW x, NEW w
      PROVE  LastValue(x, w)' <=> IF x = o THEN w = v ELSE LastValue(x, w)
  <2>1. CASE x = o
    <3>1. new \in Given(x)'
      BY <1>2, <2>1
    <3>2. IsLast(new)'
      <4>1. ASSUME NEW j \in DOMAIN seen' PROVE j <= new
        <5>1. j \in Nat /\ new \in Nat /\ (j < new \/ j = new)
          BY <1>1
        <5>2. QED
          BY <5>1
      <4>2. QED
        BY <4>1 DEF IsLast
    <3>3. ASSUME NEW i \in Given(x)', IsLast(i)' PROVE i = new
      <4>1. i \in DOMAIN seen' /\ seen'[i].option = o
        BY <2>1 DEF Given
      <4>2. new <= i
        BY <1>0, <1>1, <3>3, <4>1 DEF IsLast
      <4>3. QED
        BY <1>1, <4>1, <4>2
    <3>4. LastValue(x, w)' => w = v
      BY <1>0, <3>3 DEF LastValue
    <3>5. w = v => LastValue(x, w)'
      BY <1>0, <3>1, <3>2 DEF LastValue
    <3>6. QED
      BY <2>1, <3>4, <3>5
  <2>2. CASE x # o
    <3>1. ASSUME NEW i \in Given(x) PROVE IsLast(i)' <=> IsLast(i)
      BY <1>0, <1>1, <2>2 DEF IsLast, Given
    <3>2. \A i \in Given(x) : seen'[i] = seen[i]
      BY <1>1 DEF Given
    <3>3. Given(x)' = Given(x)
      BY <1>2, <2>2
    <3>4. QED
      BY <2>2, <3>1, <3>2, <3>3 DEF LastValue
  <2>3. QED
    BY <2>1, <2>2
<1>4. GivenCommands' = IF o \in Commands THEN GivenCommands \cup {new}
                                         ELSE GivenCommands
  BY <1>0, <1>1 DEF GivenCommands
<1>5. QED
  BY <1>2, <1>3, <1>4

-----------------------------------------------------------------------------
\* The initial state: nothing seen, nothing but defaults.
LEMMA Initial == ASSUME Init PROVE TypeOK /\ ParseInv /\ ClientInv
<1> USE DEF Init
<1>1. line.argv \in Seq(Words)
  BY LinesAssumption
<1>2. m_values \in [Keys -> {"default", "none"}]
  BY DEF Default
<1>3. seen = <<>> /\ seen \in Seq([option : Options \cup {"?"}, value : Words \cup {"empty"}])
  OBVIOUS
<1>4. TypeOK
  BY <1>1, <1>2, <1>3, ModulusAssumption DEF TypeOK
<1>5. DOMAIN seen = {}
  OBVIOUS
<1>6. /\ \A o : Given(o) = {}
      /\ GivenCommands = {}
  BY <1>5 DEF Given, GivenCommands
<1>7. LastWins
  BY <1>6 DEF LastWins, Key, Settings, Keys
<1>8. \A c \in Commands \cup {"help"} : m_values[c] = "none"
  BY DEF Default, Commands, Keys
<1>9. ParseInv
  BY <1>6, <1>7, <1>8 DEF ParseInv, Occurs, Verdicts, RefusedForAReason
<1>10. ClientInv
  BY DEF ClientInv
<1>11. QED
  BY <1>4, <1>9, <1>10

\* What a command and a setting write to are keys, and different ones.
LEMMA KeysDiffer ==
    /\ \A o \in Settings : Key(o) \in Keys \ (Commands \cup {"help"})
    /\ \A o, p \in Settings : Key(o) = Key(p) => o = p
    /\ Commands \cap Settings = {}
    /\ Commands \cup {"help", "hex", "cert", "secret", "timeout"} \subseteq Keys
    /\ \A o \in Settings \ {"attachments"} : Key(o) = o
  BY DEF Key, Keys, Settings, Commands

\* Words are not the marks of what was not given.
LEMMA WordsAreGiven == "none" \notin Words /\ "default" \notin Words
  BY WordsAssumption DEF Words, Options, Commands, Settings

\* A setting changes what was given of it and its own place in m_values.
LEMMA SettingInv ==
    ASSUME TypeOK, ParseInv, NEW o \in Options, TakeSetting(o)
    PROVE  TypeOK' /\ ParseInv'
<1> PICK v : v = Value
  OBVIOUS
<1>1. /\ o \in Settings /\ v \in Words /\ See(o, v)
      /\ m_values' = [m_values EXCEPT ![Key(o)] = v]
      /\ optind' = optind + 2
      /\ main = "parse" /\ ok = "unset"
      /\ UNCHANGED <<line, main, ok, client>>
  BY ReadsOptions DEF TakeSetting, Parsing
<1>2. /\ Key(o) \in Keys \ (Commands \cup {"help"})
      /\ o \notin Commands /\ o \notin {"?", "help"}
  BY <1>1, KeysDiffer DEF Settings
<1>0. o \in Options \cup {"?"} /\ v \in Words \cup {"empty"} /\ See(o, v)
  BY <1>1
<1>3. m_values' \in [Keys -> Words \cup {"empty", "default", "none"}]
      /\ m_values'[Key(o)] = v
      /\ \A k \in Keys \ {Key(o)} : m_values'[k] = m_values[k]
  BY <1>1, <1>2 DEF TypeOK
<1>4. TypeOK'
  <2>1. seen' \in Seq(SeenType)
    BY <1>0, Seen
  <2>2. optind' \in Nat \ {0}
    BY <1>1 DEF TypeOK
  <2>3. QED
    BY <1>1, <1>3, <2>1, <2>2 DEF TypeOK, SeenType, client
<1>5. /\ \A x : x # o => Given(x)' = Given(x)
      /\ Given(o)' # {}
      /\ \A x, w : LastValue(x, w)' <=> IF x = o THEN w = v ELSE LastValue(x, w)
      /\ GivenCommands' = GivenCommands
  BY <1>0, <1>2, SeenGiven
<1>6. LastWins'
  <2> SUFFICES ASSUME NEW p \in Settings
               PROVE  IF Given(p)' = {} THEN m_values'[Key(p)] = Default(Key(p))
                                       ELSE LastValue(p, m_values[Key(p)])'
    BY DEF LastWins
  <2>1. CASE p = o
    BY <1>3, <1>5, <2>1
  <2>2. CASE p # o
    <3>1. m_values'[Key(p)] = m_values[Key(p)]
      BY <1>1, <1>3, <2>2, KeysDiffer
    <3>2. QED
      BY <1>5, <2>2, <3>1 DEF ParseInv, LastWins
  <2>3. QED
    BY <2>1, <2>2
<1>7. \A c \in Commands \cup {"help"} : m_values'[c] = m_values[c] /\ c # o
  BY <1>1, <1>2, <1>3, KeysDiffer
<1>8. \A c \in Commands : /\ Given(c)' = Given(c)
                        /\ LastValue(c, m_values[c])' <=> LastValue(c, m_values[c])
  BY <1>5, <1>7
<1>9. Given("?")' = Given("?") /\ Given("help")' = Given("help")
  BY <1>2, <1>5
<1>10. QED
  BY <1>1, <1>4, <1>5, <1>6, <1>7, <1>8, <1>9
     DEF ParseInv, Occurs, RefusedForAReason

\* Until parse() refuses, has_arg tells what has been given.
LEMMA HasArg ==
    ASSUME TypeOK, ParseInv, ok # "no"
    PROVE  /\ has_commands <=> GivenCommands # {}
           /\ has_arg("hex") <=> Occurs("hex")
           /\ has_arg("help") <=> Occurs("help")
           /\ \A c \in Commands : has_arg(c) <=> Occurs(c)
<1>1. ASSUME NEW o, NEW v, LastValue(o, v) PROVE v # "none"
  <2>1. PICK i \in DOMAIN seen : seen[i].value = v
    BY <1>1 DEF LastValue, Given
  <2>2. seen \in Seq(SeenType)
    BY DEF TypeOK, SeenType
  <2>3. seen[i] \in SeenType
    BY <2>2
  <2>4. seen[i].value \in Words \cup {"empty"}
    BY <2>3 DEF SeenType
  <2>5. QED
    BY <2>1, <2>4, WordsAreGiven
<1>2. \A c \in Commands : has_arg(c) <=> Occurs(c)
  BY <1>1 DEF ParseInv, has_arg
<1>3. GivenCommands # {} <=> \E c \in Commands : Occurs(c)
  BY DEF GivenCommands, Occurs, Given
<1>4. has_arg("hex") <=> Occurs("hex")
  <2>1. "hex" \in Settings /\ Key("hex") = "hex" /\ Default("hex") = "none"
    BY DEF Settings, Key, Default
  <2>2. IF Given("hex") = {} THEN m_values["hex"] = "none"
                             ELSE LastValue("hex", m_values["hex"])
    BY <2>1 DEF ParseInv, LastWins
  <2>3. QED
    BY <1>1, <2>2 DEF has_arg, Occurs
<1>5. has_arg("help") <=> Occurs("help")
  BY DEF ParseInv, has_arg
<1>6. QED
  BY <1>2, <1>3, <1>4, <1>5 DEF has_commands

\* The first command is kept, the second refused.
LEMMA CommandInv ==
    ASSUME TypeOK, ParseInv, NEW o \in Options, TakeCommand(o)
    PROVE  TypeOK' /\ ParseInv'
<1> PICK v : v = Value
  OBVIOUS
<1>1. /\ o \in Commands /\ v \in Words /\ See(o, v)
      /\ optind' = optind + 2
      /\ main = "parse" /\ ok = "unset"
      /\ UNCHANGED <<line, client>>
      /\ \/ /\ has_commands /\ ok' = "no" /\ main' = "main"
            /\ m_values' = m_values
         \/ /\ ~has_commands /\ ok' = ok /\ main' = main
            /\ m_values' = [m_values EXCEPT ![o] = v]
  BY ReadsOptions DEF TakeCommand, Parsing, Stop
<1>2. o \in Keys /\ o \notin Settings /\ o \notin {"?", "help", "hex"}
  BY <1>1 DEF Commands, Settings, Keys
<1>0. o \in Options \cup {"?"} /\ v \in Words \cup {"empty"} /\ See(o, v)
  BY <1>1
<1>3. m_values' \in [Keys -> Words \cup {"empty", "default", "none"}]
      /\ \A k \in Keys \ {o} : m_values'[k] = m_values[k]
  BY <1>1, <1>2 DEF TypeOK
<1>4. TypeOK'
  <2>1. seen' \in Seq(SeenType)
    BY <1>0, Seen
  <2>2. optind' \in Nat \ {0}
    BY <1>1 DEF TypeOK
  <2>3. QED
    BY <1>1, <1>3, <2>1, <2>2 DEF TypeOK, SeenType, client
<1>5. /\ \A x : x # o => Given(x)' = Given(x)
      /\ \A x, w : LastValue(x, w)' <=> IF x = o THEN w = v ELSE LastValue(x, w)
      /\ GivenCommands' = GivenCommands \cup {Len(seen) + 1}
      /\ Given(o)' # {}
  BY <1>0, <1>1, SeenGiven
<1>6. \A k \in {Key(p) : p \in Settings} \cup {"help"} : m_values'[k] = m_values[k]
  BY <1>1, <1>2, <1>3, KeysDiffer
<1>7. LastWins'
  <2> SUFFICES ASSUME NEW p \in Settings
               PROVE  IF Given(p)' = {} THEN m_values'[Key(p)] = Default(Key(p))
                                       ELSE LastValue(p, m_values[Key(p)])'
    BY DEF LastWins
  <2>1. m_values'[Key(p)] = m_values[Key(p)] /\ p # o
    BY <1>2, <1>6
  <2>2. QED
    BY <1>5, <2>1 DEF ParseInv, LastWins
<1>8. Given("?")' = {} /\ Given("help")' = {} /\ m_values'.help = "none"
  BY <1>1, <1>2, <1>5, <1>6 DEF ParseInv, Occurs
<1>9. CASE has_commands
  <2>1. \E i, j \in GivenCommands' : i # j
    <3>1. PICK c \in Commands : has_arg(c)
      BY <1>9 DEF has_commands
    <3>2. PICK i \in GivenCommands : TRUE
      BY <3>1, <1>1, HasArg DEF Given, GivenCommands, Occurs
    <3>3. i \in 1..Len(seen) /\ Len(seen) \in Nat
      BY <3>2 DEF GivenCommands, TypeOK
    <3>4. i # Len(seen) + 1
      BY <3>3
    <3>5. QED
      BY <1>5, <3>2, <3>4, Zenon
  <2>2. RefusedForAReason'
    <3>1. ok' = "no"
      BY <1>1, <1>9
    <3>2. QED
      BY <2>1, <3>1, Zenon DEF RefusedForAReason
  <2>3. QED
    BY <1>1, <1>4, <1>7, <1>8, <1>9, <2>2 DEF ParseInv, Occurs, Verdicts
<1>10. CASE ~has_commands
  <2>1. GivenCommands = {} /\ \A c \in Commands : ~Occurs(c)
    BY <1>1, <1>10, HasArg DEF has_commands
  <2>2. \A i, j \in GivenCommands' : i = j
    BY <1>5, <2>1
  <2>3. ASSUME NEW c \in Commands
        PROVE  IF Given(c)' # {} THEN LastValue(c, m_values[c])' ELSE m_values'[c] = "none"
    <3>1. CASE c = o
      BY <1>1, <1>2, <1>5, <1>10, <3>1 DEF TypeOK
    <3>2. CASE c # o
      <4>1. m_values'[c] = m_values[c] /\ Given(c)' = Given(c)
        BY <1>3, <1>5, <3>2, KeysDiffer
      <4>2. QED
        BY <1>1, <2>1, <4>1 DEF ParseInv, Occurs
    <3>3. QED
      BY <3>1, <3>2
  <2>4. QED
    BY <1>1, <1>4, <1>7, <1>8, <1>10, <2>2, <2>3
       DEF ParseInv, Occurs, RefusedForAReason, Verdicts
<1>11. QED
  BY <1>9, <1>10

\* -help, and what getopt refuses, end the loop.
LEMMA EndInv ==
    ASSUME TypeOK, ParseInv, TakeHelp \/ BadOption
    PROVE  TypeOK' /\ ParseInv'
<1>1. PICK o \in {"help", "?"} :
        /\ See(o, "empty") /\ optind' = optind + 1
        /\ main = "parse" /\ ok = "unset" /\ main' = "main"
        /\ ok' = IF o = "help" THEN "yes" ELSE "no"
        /\ m_values' = IF o = "help" THEN [m_values EXCEPT !.help = "empty"] ELSE m_values
        /\ UNCHANGED <<line, client>>
  BY DEF TakeHelp, BadOption, Parsing, Stop
<1>2. o \notin Commands /\ o \notin Settings /\ o \in Options \cup {"?"}
  BY DEF Commands, Settings, Options
<1>3. m_values' \in [Keys -> Words \cup {"empty", "default", "none"}]
      /\ \A k \in Keys \ {"help"} : m_values'[k] = m_values[k]
      /\ m_values'.help = IF o = "help" THEN "empty" ELSE m_values.help
  BY <1>1, KeysDiffer DEF TypeOK
<1>0. "empty" \in Words \cup {"empty"}
  OBVIOUS
<1>4. TypeOK'
  <2>1. seen' \in Seq(SeenType)
    BY <1>0, <1>1, <1>2, Seen
  <2>2. optind' \in Nat \ {0}
    BY <1>1 DEF TypeOK
  <2>3. QED
    BY <1>1, <1>3, <2>1, <2>2 DEF TypeOK, SeenType, client
<1>5. /\ \A x : x # o => Given(x)' = Given(x)
      /\ \A x, w : x # o => (LastValue(x, w)' <=> LastValue(x, w))
      /\ GivenCommands' = GivenCommands
      /\ Given(o)' # {}
  <2> PICK v : v = "empty"
    OBVIOUS
  <2>1. See(o, v) /\ v \in Words \cup {"empty"}
    BY <1>1
  <2>2. QED
    BY <1>2, <2>1, SeenGiven
<1>6. \A k \in {Key(p) : p \in Settings} \cup Commands : m_values'[k] = m_values[k]
  BY <1>3, KeysDiffer DEF Commands
<1>7. LastWins'
  <2> SUFFICES ASSUME NEW p \in Settings
               PROVE  IF Given(p)' = {} THEN m_values'[Key(p)] = Default(Key(p))
                                       ELSE LastValue(p, m_values[Key(p)])'
    BY DEF LastWins
  <2>1. m_values'[Key(p)] = m_values[Key(p)] /\ p # o
    BY <1>2, <1>6
  <2>2. QED
    BY <1>5, <2>1 DEF ParseInv, LastWins
<1>8. \A c \in Commands : /\ Given(c)' = Given(c)
                        /\ LastValue(c, m_values[c])' <=> LastValue(c, m_values[c])
                        /\ m_values'[c] = m_values[c]
  BY <1>2, <1>5, <1>6
<1>9. Given("?") = {} /\ Given("help") = {} /\ m_values.help = "none"
      /\ \A i, j \in GivenCommands : i = j
  BY <1>1 DEF ParseInv, Occurs
<1>10. CASE o = "help"
  <2>1. Given("?")' = {} /\ Given("help")' # {}
    BY <1>5, <1>9, <1>10
  <2>2. RefusedForAReason'
    BY <1>1, <1>5, <1>9, <1>10, <2>1 DEF RefusedForAReason
  <2>3. \A c \in Commands : IF Given(c)' # {} THEN LastValue(c, m_values[c])'
                                              ELSE m_values'[c] = "none"
    <3> SUFFICES ASSUME NEW c \in Commands
                 PROVE  IF Given(c)' # {} THEN LastValue(c, m_values[c])'
                                          ELSE m_values'[c] = "none"
      OBVIOUS
    <3>1. IF Given(c) # {} THEN LastValue(c, m_values[c]) ELSE m_values[c] = "none"
      BY <1>1 DEF ParseInv, Occurs
    <3>2. Given(c)' = Given(c) /\ m_values'[c] = m_values[c] /\ c # o
      BY <1>2, <1>5, <1>6
    <3>3. LastValue(c, m_values[c])' <=> LastValue(c, m_values[c])
      BY <1>5, <3>2
    <3>4. QED
      BY <3>1, <3>2, <3>3
  <2>4. QED
    BY <1>1, <1>3, <1>4, <1>5, <1>7, <1>9, <1>10, <2>1, <2>2, <2>3
       DEF ParseInv, Occurs, Verdicts
<1>11. CASE o = "?"
  <2>1. Given("?")' # {} /\ Given("help")' = {}
    BY <1>5, <1>9, <1>11
  <2>2. RefusedForAReason'
    BY <1>1, <1>11, <2>1 DEF RefusedForAReason
  <2>3. QED
    BY <1>1, <1>3, <1>4, <1>7, <1>9, <1>11, <2>1, <2>2 DEF ParseInv, Occurs, Verdicts
<1>12. QED
  BY <1>10, <1>11

\* What changes neither m_values nor seen keeps the rest, but at the end of the
\* options it decides.
LEMMA OtherInv ==
    ASSUME TypeOK, ParseInv,
           UNCHANGED <<seen, m_values>>,
           ok' # "unset" <=> main' \in Verdicts,
           ok' = ok \/ (ok = "unset" /\ EndOfOptions)
    PROVE  ParseInv'
<1>1. /\ \A x : Given(x)' = Given(x)
      /\ \A x, w : LastValue(x, w)' <=> LastValue(x, w)
      /\ GivenCommands' = GivenCommands
  BY DEF Given, LastValue, IsLast, GivenCommands
<1>2. LastWins'
  <2> SUFFICES ASSUME NEW p \in Settings
               PROVE  IF Given(p)' = {} THEN m_values'[Key(p)] = Default(Key(p))
                                       ELSE LastValue(p, m_values[Key(p)])'
    BY DEF LastWins
  <2>1. QED
    BY <1>1 DEF ParseInv, LastWins
<1>3. \A c \in Commands : LastValue(c, m_values[c])' <=> LastValue(c, m_values[c])
  BY <1>1
<1>4. CASE ok' = ok
  BY <1>1, <1>2, <1>3, <1>4 DEF ParseInv, Occurs, RefusedForAReason
<1>5. CASE ok = "unset" /\ EndOfOptions
  <2>1. ok' = IF has_commands \/ has_arg("hex") \/ has_arg("help") THEN "yes" ELSE "no"
    BY <1>5 DEF EndOfOptions, Stop
  <2>2. ok' = IF GivenCommands # {} \/ Occurs("hex") \/ Occurs("help")
              THEN "yes" ELSE "no"
    BY <1>5, <2>1, HasArg
  <2>3. Given("?") = {} /\ Given("help") = {} /\ \A i, j \in GivenCommands : i = j
    BY <1>5 DEF ParseInv, Occurs
  <2>4. RefusedForAReason'
    BY <1>1, <2>2, <2>3 DEF RefusedForAReason, Occurs
  <2>5. QED
    BY <1>1, <1>2, <1>3, <1>5, <2>2, <2>3, <2>4 DEF ParseInv, Occurs
<1>6. QED
  BY <1>4, <1>5

\* The steps of parse() keep the types and the invariants.
LEMMA ParseStep ==
    ASSUME TypeOK, ParseInv, ClientInv, parse
    PROVE  TypeOK' /\ ParseInv' /\ ClientInv'
<1>1. TypeOK' /\ ParseInv'
  <2>1. CASE \E o \in Options : TakeSetting(o) \/ TakeCommand(o)
    BY <2>1, SettingInv, CommandInv
  <2>2. CASE TakeHelp \/ BadOption
    BY <2>2, EndInv
  <2>3. CASE SkipValue \/ Overrun \/ EndOfOptions
    <3>1. /\ UNCHANGED <<line, seen, m_values, timeout, connection, request>>
          /\ optind' \in Nat \ {0}
          /\ main' \in {main, "dead", "main"}
          /\ ok' \in {"unset", "yes", "no"}
          /\ ok' # "unset" <=> main' \in Verdicts
          /\ ok' = ok \/ (ok = "unset" /\ EndOfOptions)
      BY <2>3 DEF SkipValue, Overrun, EndOfOptions, Parsing, Stop, client, parser,
         TypeOK, Verdicts
    <3>2. TypeOK'
      BY <3>1 DEF TypeOK
    <3>3. QED
      BY <3>1, <3>2, OtherInv
  <2>4. QED
    BY <2>1, <2>2, <2>3 DEF parse
<1>2. main = "parse" /\ main' \in {"parse", "dead", "main"} /\ UNCHANGED client
  BY DEF parse, SkipValue, Overrun, EndOfOptions, TakeHelp, BadOption, TakeSetting,
     TakeCommand, Parsing, Stop
<1>3. request = "none" /\ connection = "none"
  BY <1>2 DEF ClientInv
<1>4. QED
  BY <1>1, <1>2, <1>3 DEF ClientInv, client

\* The milliseconds of a timeout fit its type.
LEMMA MillisType ==
    ASSUME NEW s \in Int
    PROVE  Millis(s) \in 0..(Modulus - 1)
<1>1. Modulus \in Nat /\ Modulus > 0
  BY ModulusAssumption
<1>2. s % Modulus \in Int
  BY <1>1
<1>3. (s % Modulus) * 1000 \in Int
  BY <1>2
<1>4. QED
  BY <1>1, <1>3 DEF Millis

MainStep == Refuse \/ PrintHex \/ PrintHelp \/ Construct \/ build
            \/ SendQuery \/ SendEvent \/ SendAttachmentRequest

\* So do those of main() and of the client.
LEMMA MainKeeps ==
    ASSUME TypeOK, ParseInv, ClientInv, MainStep
    PROVE  TypeOK' /\ ParseInv' /\ ClientInv'
<1> USE DEF Goto, parser, client
<1>1. /\ UNCHANGED <<line, parser>>
      /\ main \in Verdicts /\ main' \in Verdicts
  BY DEF MainStep, Refuse, PrintHex, PrintHelp, Construct, build, SendQuery,
     SendEvent, SendAttachmentRequest, Verdicts
<1>2. ParseInv'
  BY <1>1, OtherInv DEF ParseInv
<1>3. timeout' \in 0..(Modulus - 1)
  <2>1. CASE timeout' = timeout
    BY <2>1 DEF TypeOK
  <2>2. CASE Construct /\ timeout' # timeout
    BY <2>2, MillisType DEF Construct, Stoul
  <2>3. QED
    BY <2>1, <2>2 DEF MainStep, Refuse, PrintHex, PrintHelp, build, SendQuery,
       SendEvent, SendAttachmentRequest
<1>4. connection' \in {"none", "secure", "insecure"} /\ request' \in Commands \cup {"none"}
  BY DEF MainStep, Refuse, PrintHex, PrintHelp, Construct, build, SendQuery,
     SendEvent, SendAttachmentRequest, TypeOK, Commands
<1>5. TypeOK'
  BY <1>1, <1>3, <1>4 DEF TypeOK, Verdicts
<1>6. /\ \A k : has_arg(k)' <=> has_arg(k)
      /\ SecureGiven' <=> SecureGiven
  BY <1>1 DEF has_arg, SecureGiven, Filled, Text
<1>7. ClientInv'
  <2>1. CASE Refuse \/ PrintHex \/ PrintHelp
    BY <2>1 DEF Refuse, PrintHex, PrintHelp, ClientInv
  <2>2. CASE Construct
    BY <1>6, <2>2 DEF Construct, ClientInv
  <2>3. CASE build
    BY <1>1, <1>6, <2>3 DEF build, ClientInv
  <2>4. CASE SendQuery
    BY <1>1, <1>6, <2>4 DEF SendQuery, ClientInv, Commands
  <2>5. CASE SendEvent \/ SendAttachmentRequest
    BY <1>1, <1>6, <2>5 DEF SendEvent, SendAttachmentRequest, ClientInv, Commands
  <2>6. QED
    BY <2>1, <2>2, <2>3, <2>4, <2>5 DEF MainStep
<1>8. QED
  BY <1>2, <1>5, <1>7

\* The types, and what m_values and the client have to do with what was given.
THEOREM Parsed == Spec => [](TypeOK /\ ParseInv /\ ClientInv)
<1>1. Init => TypeOK /\ ParseInv /\ ClientInv
  BY Initial
<1>2. ASSUME TypeOK, ParseInv, ClientInv, [Next]_vars
      PROVE  TypeOK' /\ ParseInv' /\ ClientInv'
  <2>1. CASE parse
    BY <1>2, <2>1, ParseStep
  <2>2. CASE MainStep
    BY <1>2, <2>2, MainKeeps
  <2>3. CASE UNCHANGED vars
    <3>1. UNCHANGED <<line, main, optind, seen, m_values, ok, timeout, connection,
                      request>>
      BY <2>3 DEF vars, parser, client
    <3>2. ParseInv'
      BY <1>2, <3>1, OtherInv DEF ParseInv
    <3>3. TypeOK'
      BY <1>2, <3>1 DEF TypeOK
    <3>4. ClientInv'
      BY <1>2, <3>1 DEF ClientInv, has_arg, SecureGiven, Filled, Text
    <3>5. QED
      BY <3>2, <3>3, <3>4
  <2>4. QED
    BY <1>2, <2>1, <2>2, <2>3 DEF Next, MainStep, Ended
<1>3. QED
  BY <1>1, <1>2, PTL DEF Spec

\* The types of the command line.
THEOREM CommandLineTyping == Spec => []TypeOK
  BY Parsed, PTL

\* Whatever stands on the command line, the request is its one command.
THEOREM OneCommand == Spec => []CommandKept
<1>1. ASSUME TypeOK, ParseInv, ClientInv, request # "none" PROVE CommandKept
  <2>1. ok = "yes" /\ request \in Commands /\ ~has_arg("hex") /\ ~has_arg("help")
        /\ has_arg(request)
    BY <1>1 DEF ClientInv
  <2>2. Occurs(request) /\ ~Occurs("hex") /\ ~Occurs("help") /\ ~Occurs("?")
    BY <1>1, <2>1, HasArg DEF ParseInv
  <2>3. LastValue(request, m_values[request]) /\ \A i, j \in GivenCommands : i = j
    BY <1>1, <2>1, <2>2 DEF ParseInv
  <2>4. ASSUME NEW i \in GivenCommands PROVE seen[i].option = request
    <3>1. PICK j \in Given(request) : TRUE
      BY <2>2 DEF Occurs
    <3>2. j \in GivenCommands /\ seen[j].option = request
      BY <2>1, <3>1 DEF Given, GivenCommands
    <3>3. QED
      BY <2>3, <3>2
  <2>5. QED
    BY <2>2, <2>3, <2>4 DEF CommandKept, Occurs
<1>2. ASSUME TypeOK, ParseInv, ClientInv PROVE CommandKept
  BY <1>1, <1>2 DEF CommandKept
<1>3. QED
  BY <1>2, Parsed, PTL

\* A refusal always has one of the three reasons, and they always refuse.
THEOREM Refusals == Spec => []RefusedForAReason
<1>1. ParseInv => RefusedForAReason
  BY DEF ParseInv
<1>2. QED
  BY <1>1, Parsed, PTL

\* Of a repeated option the last value counts, for each option on its own.
THEOREM LastGiven == Spec => []LastWins
<1>1. ParseInv => LastWins
  BY DEF ParseInv
<1>2. QED
  BY <1>1, Parsed, PTL

\* TLS is used just when a certificate and its password are there.
THEOREM Secured == Spec => []SecureAsGiven
<1>1. ASSUME TypeOK, ParseInv, ClientInv PROVE SecureAsGiven
  <2>1. ASSUME NEW o \in {"cert", "secret"}
        PROVE  Filled(o) <=> \E i \in Given(o) : IsLast(i) /\ Text(seen[i].value) # <<>>
    <3>1. o \in Settings /\ Key(o) = o /\ Default(o) = "none"
      BY DEF Settings, Key, Default
    <3>2. IF Given(o) = {} THEN m_values[o] = "none" ELSE LastValue(o, m_values[o])
      BY <1>1, <3>1 DEF ParseInv, LastWins
    <3>3. CASE Given(o) = {}
      BY <3>2, <3>3 DEF Filled, has_arg
    <3>4. CASE Given(o) # {}
      <4>1. PICK i \in Given(o) : IsLast(i) /\ seen[i].value = m_values[o]
        BY <3>2, <3>4 DEF LastValue
      <4>2. \A j \in Given(o) : IsLast(j) => j = i
        <5>1. \A j \in Given(o) : j \in Nat /\ j \in DOMAIN seen /\ seen[j].option = o
          BY <1>1 DEF Given, TypeOK
        <5>2. QED
          BY <4>1, <5>1 DEF IsLast
      <4>3. has_arg(o)
        <5>1. seen \in Seq(SeenType) /\ i \in DOMAIN seen
          BY <1>1 DEF TypeOK, SeenType, Given
        <5>2. seen[i] \in SeenType
          BY <5>1
        <5>3. QED
          BY <4>1, <5>2, WordsAreGiven DEF SeenType, has_arg
      <4>4. QED
        BY <4>1, <4>2, <4>3 DEF Filled
    <3>5. QED
      BY <3>3, <3>4
  <2>2. QED
    BY <1>1, <2>1 DEF ClientInv, SecureGiven, SecureAsGiven
<1>2. QED
  BY <1>1, Parsed, PTL

-----------------------------------------------------------------------------
(* What main() has done with the values: the timeout and the ids.          *)

WithClient == {"run", "ready", "sent"}

\* The client has the milliseconds of the timeout, a number that stoul has taken;
\* the ids are those of the files that are printed or attached.
OutcomeInv ==
    /\ line \in Lines
    /\ main \in WithClient =>
         /\ Stoul(m_values.timeout)
         /\ timeout = Millis(Seconds(m_values.timeout))
    /\ ids = Ids(FileList)

\* No names make no ids.
LEMMA NoIds == Ids(<<>>) = {}
<1>1. Reading!Rec(<<>>)[0] = [names |-> <<>>, tmp |-> <<>>]
  BY Reading!Recursive DEF NothingRead
<1>2. Split(<<>>) = <<>>
  BY <1>1 DEF Split, Rest
<1>3. Names(<<>>) = {}
  <2>1. DOMAIN <<>> = {}
    OBVIOUS
  <2>2. QED
    BY <1>2, <2>1 DEF Names, Range
<1>4. QED
  BY <1>3 DEF Ids

\* Before the client there is nothing to see of them.
LEMMA NothingYet ==
    ASSUME OutcomeInv, UNCHANGED <<line, ids>>,
           request = "none", request' = "none",
           main # "printed", main' # "printed", main' \notin WithClient
    PROVE  OutcomeInv'
<1>1. FileList = <<>> /\ FileList' = <<>>
  BY DEF FileList
<1>2. ids = Ids(<<>>)
  BY <1>1 DEF OutcomeInv
<1>3. QED
  BY <1>1, <1>2 DEF OutcomeInv

\* Each step of parse(), main() and the client keeps them.
LEMMA OutcomeKept ==
    ASSUME TypeOK, ParseInv, ClientInv, OutcomeInv, [Next]_vars
    PROVE  OutcomeInv'
<1> USE DEF Goto, parser, client
<1>1. request # "none" => main = "sent"
  BY DEF ClientInv
<1>2. CASE parse
  <2>1. main = "parse" /\ main' \in {"parse", "dead", "main"} /\ UNCHANGED <<line, client>>
    BY <1>2 DEF parse, SkipValue, Overrun, EndOfOptions, TakeHelp, BadOption,
       TakeSetting, TakeCommand, Parsing, Stop
  <2>2. QED
    BY <1>1, <2>1, NothingYet DEF WithClient
<1>3. CASE Refuse \/ PrintHelp
  BY <1>1, <1>3, NothingYet DEF Refuse, PrintHelp, WithClient
<1>4. CASE PrintHex
  BY <1>4 DEF PrintHex, OutcomeInv, FileList, Text, WithClient
<1>5. CASE Construct
  <2>1. main = "main" /\ request = "none" /\ UNCHANGED <<line, m_values, request, ids>>
    BY <1>1, <1>5 DEF Construct
  <2>2. CASE Stoul(m_values.timeout)
    <3>1. main' = "run" /\ timeout' = Millis(Seconds(m_values.timeout))
      BY <1>5, <2>2 DEF Construct
    <3>2. /\ Stoul(m_values.timeout)' <=> Stoul(m_values.timeout)
          /\ Seconds(m_values.timeout)' = Seconds(m_values.timeout)
      BY <2>1 DEF Stoul, Seconds, IsNumber
    <3>3. FileList = <<>> /\ FileList' = <<>>
      BY <2>1, <3>1 DEF FileList
    <3>4. QED
      BY <2>1, <2>2, <3>1, <3>2, <3>3 DEF OutcomeInv
  <2>3. CASE ~Stoul(m_values.timeout)
    BY <1>5, <2>1, <2>3, NothingYet DEF Construct, WithClient
  <2>4. QED
    BY <2>2, <2>3
<1>6. CASE build \/ SendQuery \/ SendEvent \/ SendAttachmentRequest
  <2>1. /\ main \in {"run", "ready"} /\ main' \in {"ready", "sent"} /\ request = "none"
        /\ UNCHANGED <<line, m_values, timeout>>
    BY <1>1, <1>6 DEF build, SendQuery, SendEvent, SendAttachmentRequest
  <2>2. /\ Stoul(m_values.timeout)' <=> Stoul(m_values.timeout)
        /\ Seconds(m_values.timeout)' = Seconds(m_values.timeout)
        /\ \A key : has_arg(key)' <=> has_arg(key)
        /\ \A w : Text(w)' = Text(w)
    BY <2>1 DEF Stoul, Seconds, IsNumber, has_arg, Text
  <2>3. FileList = <<>> /\ ids = {}
    BY <2>1, NoIds DEF FileList, OutcomeInv
  <2>4. ids' = Ids(FileList)'
    <3>1. CASE ~SendEvent
      <4>1. request' # "event" /\ ids' = ids
        BY <1>6, <2>1, <3>1 DEF build, SendQuery, SendAttachmentRequest
      <4>2. FileList' = <<>>
        BY <2>1, <4>1 DEF FileList
      <4>3. QED
        BY <2>3, <4>1, <4>2, NoIds
    <3>2. CASE SendEvent /\ Filled("files")
      BY <2>1, <2>2, <3>2 DEF SendEvent, Filled, FileList
    <3>3. CASE SendEvent /\ ~Filled("files")
      <4>1. FileList' = <<>> /\ ids' = {}
        BY <2>1, <2>2, <3>3 DEF SendEvent, Filled, FileList
      <4>2. QED
        BY <4>1, NoIds
    <3>4. QED
      BY <3>1, <3>2, <3>3
  <2>5. QED
    BY <2>1, <2>2, <2>4 DEF OutcomeInv, WithClient
<1>7. CASE UNCHANGED vars
  BY <1>7 DEF vars, OutcomeInv, FileList, Text, has_arg, Stoul, Seconds, IsNumber
<1>8. QED
  BY <1>2, <1>3, <1>4, <1>5, <1>6, <1>7 DEF Next, Ended

\* They hold of every command line.
THEOREM Outcome == Spec => [](TypeOK /\ OutcomeInv)
<1>1. Init => OutcomeInv
  <2> SUFFICES ASSUME Init PROVE OutcomeInv
    OBVIOUS
  <2>1. line \in Lines /\ main = "parse" /\ request = "none" /\ ids = {}
    BY DEF Init
  <2>2. FileList = <<>>
    BY <2>1 DEF FileList
  <2>3. QED
    BY <2>1, <2>2, NoIds DEF OutcomeInv, WithClient
<1>2. TypeOK /\ ParseInv /\ ClientInv /\ OutcomeInv /\ [Next]_vars => OutcomeInv'
  BY OutcomeKept
<1>3. QED
  BY <1>1, <1>2, Parsed, PTL DEF Spec

\* The texts that are looked for in a command line are bytes.
LEMMA TextIsBytes == ASSUME line \in Lines, NEW w PROVE Text(w) \in Seq(Byte)
<1>1. <<45>> \in Seq(Byte)
  BY DEF Byte
<1>2. QED
  BY <1>1, LinesAssumption DEF Text

\* So is the list of files.
LEMMA FileListIsBytes == ASSUME line \in Lines PROVE FileList \in Seq(Byte)
<1>1. <<>> \in Seq(Byte)
  BY EmptySeq
<1>2. QED
  BY <1>1, TextIsBytes DEF FileList

\* No name of a list is lost, none is invented, and each has an id, for any list.
THEOREM AllNamesRead == Spec => []NamesKept
<1>1. ASSUME OutcomeInv PROVE NamesKept
  <2>1. FileList \in Seq(Byte) /\ ids = Ids(FileList)
    BY <1>1, FileListIsBytes DEF OutcomeInv
  <2>2. QED
    BY <2>1, SplitKeeps, IdsOfList DEF NamesKept
<1>2. QED
  BY <1>1, Outcome, PTL

\* Files whose names hold no control characters are attached under different ids,
\* whatever their names are and how many there are.
THEOREM AttachmentsApart == Spec => []AttachmentsKept
<1>1. ASSUME OutcomeInv PROVE AttachmentsKept
  <2>1. FileList \in Seq(Byte) /\ ids = Ids(FileList)
    BY <1>1, FileListIsBytes DEF OutcomeInv
  <2>2. QED
    BY <2>1, IdsOfList DEF AttachmentsKept
<1>2. QED
  BY <1>1, Outcome, PTL

\* What a remainder is.
LEMMA Remainder ==
    ASSUME NEW a \in Nat, NEW m \in Nat \ {0}
    PROVE  /\ a % m \in 0..(m - 1)
           /\ a % m <= a
           /\ a < m => a % m = a
<1>1. a % m \in 0..(m - 1)
  OBVIOUS
<1>2. a % m <= a
  OBVIOUS
<1>3. a < m => a % m = a
  OBVIOUS
<1>4. QED
  BY <1>1, <1>2, <1>3

\* For 64 bits as for any other width: wait_for is handed the milliseconds that
\* fit half of it as they are, and never more than was asked for.
THEOREM WaitsAsAsked == Spec => []TimeoutKept
<1>1. ASSUME TypeOK, OutcomeInv, main \in WithClient PROVE TimeoutKept
  <2> DEFINE s == Seconds(m_values.timeout)
             asked == s * 1000
             half == Modulus \div 2
  <2>1. Modulus \in Nat \ {0} /\ Modulus > 1
    BY ModulusAssumption
  <2>2. half \in Nat /\ half < Modulus
    BY <2>1
  <2>3. s \in (1 - Modulus)..(Modulus - 1) /\ timeout = Millis(s)
    BY <1>1 DEF OutcomeInv, Stoul
  <2> HIDE DEF s, half
  <2>4. asked \in Int /\ timeout \in 0..(Modulus - 1)
    BY <1>1, <2>3 DEF TypeOK
  <2>5. CASE s >= 0
    <3>1. s \in Nat /\ s < Modulus /\ asked \in Nat
      BY <2>1, <2>3, <2>5
    <3>2. s % Modulus = s
      BY <2>1, <3>1, Remainder
    <3>3. timeout = asked % Modulus
      BY <2>3, <3>2 DEF Millis
    <3> HIDE DEF asked
    <3>4. timeout <= asked
      BY <2>1, <3>1, <3>3, Remainder
    <3>5. asked < half => timeout = asked
      BY <2>1, <2>2, <3>1, <3>3, Remainder
    <3>6. Wait = IF timeout < half THEN timeout ELSE timeout - Modulus
      BY DEF Wait, half
    <3>7. Wait <= asked
      BY <2>1, <2>4, <3>1, <3>4, <3>6
    <3>8. asked \in 0..(half - 1) => Wait = asked
      BY <2>2, <3>1, <3>5, <3>6
    <3>9. QED
      BY <3>7, <3>8 DEF TimeoutKept, asked, s, half
  <2>6. CASE s < 0
    <3>1. asked < 0
      BY <2>3, <2>6
    <3>2. ~(asked >= 0) /\ asked \notin 0..(half - 1)
      BY <2>4, <3>1
    <3>3. QED
      BY <3>2 DEF TimeoutKept, asked, s, half
  <2>7. QED
    BY <2>3, <2>5, <2>6
<1>2. ASSUME TypeOK, OutcomeInv PROVE TimeoutKept
  BY <1>1, <1>2 DEF TimeoutKept, WithClient
<1>3. QED
  BY <1>2, Outcome, PTL
=============================================================================
