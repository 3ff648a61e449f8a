----------------------------- MODULE FileNames -----------------------------
(***************************************************************************)
(* How the console client reads a list of file names and turns each into   *)
(* the id of an attachment.  A text is the sequence of its bytes.          *)
(***************************************************************************)
EXTENDS Integers, Sequences, Functions

Byte == 0..255
Delimiter == 59    \* ';'

Nothing(text) == <<>>
NothingRead(text) == [names |-> <<>>, tmp |-> <<>>]

\* getline(): a delimiter ends a name ...
getline(text, i, read) ==
    IF text[i] = Delimiter
    THEN [names |-> Append(read.names, read.tmp), tmp |-> <<>>]
    ELSE [read EXCEPT !.tmp = Append(@, text[i])]

Reading == INSTANCE Recursion WITH Base <- NothingRead, Step <- getline

MutantRest(read) ==
    IF read = NothingRead(<<>>) THEN <<>> ELSE Append(read.names, read.tmp)

\* ... and so does the end of the text, unless it is right behind one.
Rest(read) == IF read.tmp = <<>> THEN read.names ELSE Append(read.names, read.tmp)

Split(text) == Rest(Reading!Rec(text)[Len(text)])

Decimal(n) == (IF n >= 100 THEN <<n \div 100>> ELSE <<>>)
                 \o (IF n >= 10 THEN <<(n \div 10) % 10>> ELSE <<>>) \o <<n % 10>>
MutantDigits(ch) ==
    IF ch >= 128 THEN <<45>> \o Decimal(256 - ch) ELSE Decimal(ch)

\* A char printed as a hexadecimal int: no leading zero, and a byte that is
\* negative as a char is extended to 32 bits.
Digits(ch) ==
    (IF ch >= 128 THEN <<15, 15, 15, 15, 15, 15>> ELSE <<>>)
        \o (IF ch >= 16 THEN <<ch \div 16>> ELSE <<>>) \o <<ch % 16>>

PrintByte(src, i, printed) == printed \o Digits(src[i])
Printing == INSTANCE Recursion WITH Base <- Nothing, Step <- PrintByte
to_hex(src) == Printing!Rec(src)[Len(src)]

\* The files of a list under their ids.
Names(text) == Range(Split(text))
Ids(text) == {[name |-> n, id |-> to_hex(n)] : n \in Names(text)}

-----------------------------------------------------------------------------
(* What a list and its ids must be.                                        *)

\* Names one after the other, each with a delimiter behind it.
Terminated(name) == Append(name, Delimiter)
WriteName(names, i, text) == text \o Terminated(names[i])
Writing == INSTANCE Recursion WITH Base <- Nothing, Step <- WriteName
Written(names) == Writing!Rec(names)[Len(names)]

\* The names are all there is in a text, and there is none behind a delimiter at
\* its end: written down again they give the text back, with that delimiter.
SplitKeepsAll(text) ==
    Written(Split(text)) = IF text = <<>> \/ text[Len(text)] = Delimiter
                           THEN text ELSE Terminated(text)

\* The pieces of a text: from its beginning or a delimiter to the next one, or to
\* its end.
Starts(text) == {a \in 1..Len(text) : a = 1 \/ text[a - 1] = Delimiter}
Ends(text, a) == {b \in (a - 1)..Len(text) :
                    /\ b = Len(text) \/ text[b + 1] = Delimiter
                    /\ \A k \in a..b : text[k] # Delimiter}
Pieces(text) ==
    UNION {{SubSeq(text, a, b) : b \in Ends(text, a)} : a \in Starts(text)}

\* A byte that is printed with one digit is a control character.
Printable(name) == \A i \in DOMAIN name : name[i] >= 16

\* Files whose names hold no control characters never share an id.
IdsDistinct(ids) ==
    \A x, y \in ids :
        x.id = y.id /\ Printable(x.name) /\ Printable(y.name) => x.name = y.name
=============================================================================
