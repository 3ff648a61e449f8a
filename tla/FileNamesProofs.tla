--------------------------- MODULE FileNamesProofs ---------------------------
(* What getline() makes of any list of file names, and to_hex() of any name: *)
(* nothing of the list is lost, and no two names without control characters  *)
(* get the same id.                                                          *)
EXTENDS FileNames, SequenceTheorems, TLAPS

-----------------------------------------------------------------------------
\* Texts of bytes put one behind the other.
LEMMA Together ==
    ASSUME NEW s \in Seq(Byte), NEW t \in Seq(Byte), NEW u \in Seq(Byte)
    PROVE  (s \o t) \o u = s \o (t \o u)
  BY ConcatAssociative

\* A byte behind two texts is one behind the second.
LEMMA Behind ==
    ASSUME NEW s \in Seq(Byte), NEW t \in Seq(Byte), NEW ch \in Byte
    PROVE  /\ Append(t, ch) \in Seq(Byte)
           /\ Append(t, ch) = t \o <<ch>>
           /\ (s \o t) \o <<ch>> = s \o Append(t, ch)
<1>1. <<ch>> \in Seq(Byte)
  OBVIOUS
<1>2. Append(t, ch) \in Seq(Byte) /\ Append(t, ch) = t \o <<ch>>
  BY AppendProperties, AppendIsConcat
<1>3. (s \o t) \o <<ch>> = s \o (t \o <<ch>>)
  BY <1>1, Together, Zenon
<1>4. QED
  BY <1>2, <1>3

-----------------------------------------------------------------------------
(* Written(names), name after name.                                        *)

\* What has been written of some names stays when another is added.
LEMMA WrittenBefore ==
    ASSUME NEW names \in Seq(Seq(Byte)), NEW name \in Seq(Byte)
    PROVE  \A i \in 0..Len(names) :
               Writing!Rec(Append(names, name))[i] = Writing!Rec(names)[i]
<1> DEFINE more == Append(names, name)
           S == {i \in Nat : i <= Len(names) =>
                                Writing!Rec(more)[i] = Writing!Rec(names)[i]}
<1>1. 0 \in S
  BY Writing!Recursive DEF Nothing
<1>2. ASSUME NEW i \in Nat, i \in S PROVE i + 1 \in S
  <2>1. CASE i + 1 <= Len(names)
    <3>1. more[i + 1] = names[i + 1]
      BY <2>1, AppendProperties
    <3>2. Writing!Rec(more)[i] = Writing!Rec(names)[i]
      BY <1>2, <2>1
    <3>3. /\ Writing!Rec(more)[i + 1] = WriteName(more, i + 1, Writing!Rec(more)[i])
          /\ Writing!Rec(names)[i + 1] = WriteName(names, i + 1, Writing!Rec(names)[i])
      BY Writing!Recursive
    <3>4. Writing!Rec(more)[i + 1] = Writing!Rec(names)[i + 1]
      BY <3>1, <3>2, <3>3 DEF WriteName
    <3>5. QED
      BY <3>4
  <2>2. QED
    BY <2>1
<1>3. Nat \subseteq S
  <2> HIDE DEF S
  <2>1. QED
    BY <1>1, <1>2, Writing!NatSetInduction
<1>4. QED
  BY <1>3

\* A name more.
LEMMA WrittenAppend ==
    ASSUME NEW names \in Seq(Seq(Byte)), NEW name \in Seq(Byte)
    PROVE  Written(Append(names, name)) = Written(names) \o Terminated(name)
<1> DEFINE more == Append(names, name)
           n == Len(names)
<1>1. n \in Nat /\ Len(more) = n + 1 /\ more[n + 1] = name
  BY AppendProperties
<1>2. Writing!Rec(more)[n + 1] = WriteName(more, n + 1, Writing!Rec(more)[n])
  BY <1>1, Writing!Recursive
<1>3. Writing!Rec(more)[n] = Writing!Rec(names)[n]
  BY <1>1, WrittenBefore
<1>4. QED
  BY <1>1, <1>2, <1>3 DEF Written, WriteName

-----------------------------------------------------------------------------
(* Split(text), byte after byte.                                           *)

\* The bytes s..b of a text, with no delimiter among them.
Free(text, s, b) == \A k \in s..b : text[k] # Delimiter

\* A piece of the text that ends with a delimiter, at last or before.
Closed(text, last, name) ==
    \E a \in 1..last, b \in 0..(last - 1) :
        /\ a \in Starts(text) /\ a - 1 <= b
        /\ text[b + 1] = Delimiter
        /\ Free(text, a, b)
        /\ name = SubSeq(text, a, b)

\* After each byte the names read so far, and what there is of the next one, are
\* all that was read; the names are the pieces up to the last delimiter, which is
\* at s, and the next one begins behind it.
ReadTo(text, i, names, tmp, s) ==
    /\ Reading!Rec(text)[i] = [names |-> names, tmp |-> tmp]
    /\ Written(names) \in Seq(Byte)
    /\ Written(names) \o tmp = SubSeq(text, 1, i)
    /\ s = 0 \/ text[s] = Delimiter
    /\ Free(text, s + 1, i)
    /\ tmp = SubSeq(text, s + 1, i)
    /\ \A name : name \in Range(names) <=> Closed(text, s, name)

ReadUpTo(text, i) ==
    \E names \in Seq(Seq(Byte)), tmp \in Seq(Byte), s \in 0..i :
        ReadTo(text, i, names, tmp, s)

\* A piece that reaches beyond the last delimiter begins right behind it.
LEMMA BeginsBehind ==
    ASSUME NEW text \in Seq(Byte), NEW s \in Nat, NEW b \in Nat, s <= b,
           s = 0 \/ text[s] = Delimiter, Free(text, s + 1, b),
           NEW a \in Starts(text), a - 1 <= b, Free(text, a, b)
    PROVE  a = s + 1
<1>1. a \in Nat /\ a >= 1 /\ (a = 1 \/ text[a - 1] = Delimiter)
  BY DEF Starts
<1>2. ~(a < s + 1)
  <2> SUFFICES ASSUME a < s + 1 PROVE FALSE
    OBVIOUS
  <2>1. s \in a..b /\ s # 0
    BY <1>1
  <2>2. QED
    BY <2>1 DEF Free
<1>3. ~(a > s + 1)
  <2> SUFFICES ASSUME a > s + 1 PROVE FALSE
    OBVIOUS
  <2>1. a - 1 \in (s + 1)..b /\ a # 1
    BY <1>1
  <2>2. QED
    BY <1>1, <2>1 DEF Free
<1>4. QED
  BY <1>1, <1>2, <1>3

\* A delimiter behind what was read of a name closes it, and no other piece.
LEMMA Closes ==
    ASSUME NEW text \in Seq(Byte), NEW i \in Nat, i < Len(text), NEW s \in 0..i,
           s = 0 \/ text[s] = Delimiter, Free(text, s + 1, i),
           text[i + 1] = Delimiter, NEW name
    PROVE  Closed(text, i + 1, name) <=>
              Closed(text, s, name) \/ name = SubSeq(text, s + 1, i)
<1>1. ASSUME Closed(text, s, name) PROVE Closed(text, i + 1, name)
  <2>1. 1..s \subseteq 1..(i + 1) /\ 0..(s - 1) \subseteq 0..((i + 1) - 1)
    OBVIOUS
  <2>2. QED
    BY <1>1, <2>1 DEF Closed
<1>2. ASSUME name = SubSeq(text, s + 1, i) PROVE Closed(text, i + 1, name)
  <2>1. s + 1 \in 1..(i + 1) /\ i \in 0..((i + 1) - 1) /\ (s + 1) - 1 <= i
    OBVIOUS
  <2>2. s + 1 \in Starts(text)
    <3>1. s + 1 \in 1..Len(text) /\ (s + 1) - 1 = s
      OBVIOUS
    <3>2. QED
      BY <3>1 DEF Starts
  <2>3. QED
    BY <1>2, <2>1, <2>2 DEF Closed
<1>3. ASSUME Closed(text, i + 1, name), name # SubSeq(text, s + 1, i)
      PROVE  Closed(text, s, name)
  <2>1. PICK a \in 1..(i + 1), b \in 0..((i + 1) - 1) :
           /\ a \in Starts(text) /\ a - 1 <= b
           /\ text[b + 1] = Delimiter
           /\ Free(text, a, b)
           /\ name = SubSeq(text, a, b)
    BY <1>3 DEF Closed
  <2>2. CASE b < s
    <3>1. a \in 1..s /\ b \in 0..(s - 1)
      BY <2>1, <2>2
    <3>2. QED
      BY <2>1, <3>1 DEF Closed
  <2>3. CASE b >= s
    <3>1. b = i
      <4>1. b \in Nat /\ b <= i
        BY <2>1
      <4>2. CASE b < i
        <5>1. b + 1 \in (s + 1)..i
          BY <2>3, <4>1, <4>2
        <5>2. QED
          BY <2>1, <5>1 DEF Free
      <4>3. QED
        BY <4>1, <4>2
    <3>2. a = s + 1
      <4>1. Free(text, a, i) /\ a - 1 <= i /\ s \in Nat /\ s <= i
        BY <2>1, <3>1
      <4>2. QED
        BY <2>1, <4>1, BeginsBehind
    <3>3. QED
      BY <1>3, <2>1, <3>1, <3>2
  <2>4. QED
    BY <2>2, <2>3
<1>4. QED
  BY <1>1, <1>2, <1>3

\* The range of a sequence with an element more.
LEMMA RangeAppend ==
    ASSUME NEW names \in Seq(Seq(Byte)), NEW name \in Seq(Byte)
    PROVE  Range(Append(names, name)) = Range(names) \cup {name}
<1> DEFINE more == Append(names, name)
           n == Len(names)
<1>1. /\ n \in Nat /\ Len(more) = n + 1 /\ more[n + 1] = name
      /\ \A i \in 1..n : more[i] = names[i]
      /\ DOMAIN more = 1..(n + 1) /\ DOMAIN names = 1..n
  BY AppendProperties
<1>2. 1..(n + 1) = (1..n) \cup {n + 1}
  BY <1>1
<1> HIDE DEF more, n
<1>3. Range(more) = Range(names) \cup {name}
  BY <1>1, <1>2 DEF Range
<1>4. QED
  BY <1>3 DEF more

\* One more byte is read, and none is lost.
LEMMA ReadByte ==
    ASSUME NEW text \in Seq(Byte), NEW i \in Nat, i < Len(text), ReadUpTo(text, i)
    PROVE  ReadUpTo(text, i + 1)
<1> DEFINE ch == text[i + 1]
<1>1. PICK names \in Seq(Seq(Byte)), tmp \in Seq(Byte), s \in 0..i :
          ReadTo(text, i, names, tmp, s)
  BY DEF ReadUpTo
<1>0. Written(names) \in Seq(Byte) /\ Written(names) \o tmp = SubSeq(text, 1, i)
  BY <1>1 DEF ReadTo
<1>2. Reading!Rec(text)[i + 1] = getline(text, i + 1, [names |-> names, tmp |-> tmp])
  BY <1>1, Reading!Recursive DEF ReadTo
<1>3. i + 1 \in 1..Len(text) /\ ch \in Byte
  BY ElementOfSeq
<1>4. SubSeq(text, 1, i + 1) = (Written(names) \o tmp) \o <<ch>>
  <2>1. (i + 1) - 1 = i
    OBVIOUS
  <2>2. SubSeq(text, 1, i + 1) = SubSeq(text, 1, (i + 1) - 1) \o <<text[i + 1]>>
    BY <1>3, SubSeqRecursiveSecond
  <2>3. QED
    BY <1>0, <2>1, <2>2
<1>5. /\ Append(tmp, ch) \in Seq(Byte)
      /\ Append(tmp, ch) = tmp \o <<ch>>
      /\ SubSeq(text, 1, i + 1) = Written(names) \o Append(tmp, ch)
  <2>1. /\ Append(tmp, ch) \in Seq(Byte)
        /\ Append(tmp, ch) = tmp \o <<ch>>
        /\ (Written(names) \o tmp) \o <<ch>> = Written(names) \o Append(tmp, ch)
    BY <1>0, <1>3, Behind, Zenon
  <2>2. QED
    BY <1>4, <2>1
<1>6. CASE ch = Delimiter
  <2>1. Reading!Rec(text)[i + 1] = [names |-> Append(names, tmp), tmp |-> <<>>]
    BY <1>2, <1>6 DEF getline
  <2>2. text[i + 1] = Delimiter
    BY <1>6
  <2> HIDE DEF ch
  <2>3. Append(names, tmp) \in Seq(Seq(Byte)) /\ <<>> \in Seq(Byte)
    BY AppendProperties, EmptySeq
  <2>4. Written(Append(names, tmp)) = SubSeq(text, 1, i + 1)
    BY <1>5, <1>6, WrittenAppend DEF Terminated
  <2>5. Written(Append(names, tmp)) \in Seq(Byte)
    BY <1>0, <1>5, <2>4, ConcatProperties
  <2>6. Written(Append(names, tmp)) \o <<>> = SubSeq(text, 1, i + 1)
    BY <2>4, <2>5, ConcatEmptySeq
  <2>7. Free(text, (i + 1) + 1, i + 1) /\ <<>> = SubSeq(text, (i + 1) + 1, i + 1)
    BY SubSeqEmpty DEF Free
  <2>8. ASSUME NEW name
        PROVE  name \in Range(Append(names, tmp)) <=> Closed(text, i + 1, name)
    <3>1. Closed(text, i + 1, name) <=> Closed(text, s, name) \/ name = tmp
      BY <1>1, <2>2, Closes DEF ReadTo
    <3>2. name \in Range(names) <=> Closed(text, s, name)
      BY <1>1 DEF ReadTo
    <3>3. QED
      BY <3>1, <3>2, RangeAppend
  <2>9. ReadTo(text, i + 1, Append(names, tmp), <<>>, i + 1)
    BY <2>1, <2>2, <2>5, <2>6, <2>7, <2>8 DEF ReadTo
  <2>10. i + 1 \in 0..(i + 1)
    OBVIOUS
  <2>11. QED
    BY <2>3, <2>9, <2>10 DEF ReadUpTo
<1>7. CASE ch # Delimiter
  <2>1. Reading!Rec(text)[i + 1] = [names |-> names, tmp |-> Append(tmp, ch)]
    BY <1>2, <1>7 DEF getline
  <2>2. Append(tmp, ch) = SubSeq(text, s + 1, i + 1)
    <3>1. s + 1 \in 1..Len(text) /\ i + 1 \in (s + 1)..Len(text) /\ (i + 1) - 1 = i
      BY <1>1
    <3>2. SubSeq(text, s + 1, i + 1) = SubSeq(text, s + 1, (i + 1) - 1) \o <<text[i + 1]>>
      BY <3>1, SubSeqRecursiveSecond
    <3>3. QED
      BY <1>1, <1>5, <3>1, <3>2 DEF ReadTo
  <2>3. Free(text, s + 1, i + 1)
    <3>1. (s + 1)..(i + 1) = ((s + 1)..i) \cup {i + 1}
      OBVIOUS
    <3>2. QED
      BY <1>1, <1>7, <3>1 DEF Free, ReadTo
  <2>4. ReadTo(text, i + 1, names, Append(tmp, ch), s)
    BY <1>1, <1>5, <2>1, <2>2, <2>3 DEF ReadTo
  <2>5. s \in 0..(i + 1)
    OBVIOUS
  <2>6. QED
    BY <1>5, <2>4, <2>5 DEF ReadUpTo
<1>8. QED
  BY <1>6, <1>7

\* All of the text is read.
LEMMA ReadAll == ASSUME NEW text \in Seq(Byte) PROVE ReadUpTo(text, Len(text))
<1> DEFINE S == {i \in Nat : i <= Len(text) => ReadUpTo(text, i)}
<1>1. 0 \in S
  <2>1. Reading!Rec(text)[0] = [names |-> <<>>, tmp |-> <<>>]
    BY Reading!Recursive DEF NothingRead
  <2>2. Written(<<>>) = <<>>
    BY Writing!Recursive DEF Written, Nothing
  <2>3. /\ <<>> \in Seq(Byte) /\ <<>> \in Seq(Seq(Byte))
        /\ <<>> \o <<>> = <<>>
        /\ SubSeq(text, 1, 0) = <<>>
    BY EmptySeq, SubSeqEmpty
  <2>4. \A name : ~(name \in Range(<<>>)) /\ ~Closed(text, 0, name)
    <3>1. DOMAIN <<>> = {} /\ 1..0 = {}
      OBVIOUS
    <3>2. QED
      BY <3>1, Zenon DEF Range, Closed
  <2>5. /\ Free(text, 0 + 1, 0) /\ <<>> = SubSeq(text, 0 + 1, 0)
        /\ Written(<<>>) \in Seq(Byte) /\ Written(<<>>) \o <<>> = SubSeq(text, 1, 0)
    <3>1. \A k \in (0 + 1)..0 : FALSE
      OBVIOUS
    <3>2. <<>> = SubSeq(text, 0 + 1, 0)
      BY SubSeqEmpty
    <3>3. Written(<<>>) \o <<>> = SubSeq(text, 1, 0)
      BY <2>2, <2>3
    <3>4. Written(<<>>) \in Seq(Byte)
      BY <2>2, <2>3
    <3>5. QED
      BY <3>1, <3>2, <3>3, <3>4, Zenon DEF Free
  <2>6. ReadTo(text, 0, <<>>, <<>>, 0)
    BY <2>1, <2>4, <2>5, Zenon DEF ReadTo
  <2>7. ReadUpTo(text, 0)
    <3>1. 0 \in 0..0
      OBVIOUS
    <3>2. QED
      BY <2>3, <2>6, <3>1, Zenon DEF ReadUpTo
  <2>8. QED
    BY <2>7
<1>2. ASSUME NEW i \in Nat, i \in S PROVE i + 1 \in S
  BY <1>2, ReadByte
<1>3. Nat \subseteq S
  <2> HIDE DEF S
  <2>1. QED
    BY <1>1, <1>2, Reading!NatSetInduction
<1>4. Len(text) \in Nat
  OBVIOUS
<1>5. QED
  BY <1>3, <1>4

\* The pieces of a text are those a delimiter ends, and what is behind the last one.
LEMMA PiecesOf ==
    ASSUME NEW text \in Seq(Byte), NEW s \in 0..Len(text),
           s = 0 \/ text[s] = Delimiter, Free(text, s + 1, Len(text)), NEW name
    PROVE  name \in Pieces(text) <=>
              \/ Closed(text, s, name)
              \/ s < Len(text) /\ name = SubSeq(text, s + 1, Len(text))
<1> DEFINE n == Len(text)
<1>0. n \in Nat
  OBVIOUS
<1>1. name \in Pieces(text) <=>
         \E a \in Starts(text) : \E b \in Ends(text, a) : name = SubSeq(text, a, b)
  <2> DEFINE Of(a) == {SubSeq(text, a, b) : b \in Ends(text, a)}
  <2>1. Pieces(text) = UNION {Of(a) : a \in Starts(text)}
    BY DEF Pieces
  <2>2. \A a : name \in Of(a) <=> \E b \in Ends(text, a) : name = SubSeq(text, a, b)
    OBVIOUS
  <2> HIDE DEF Of
  <2>3. name \in UNION {Of(a) : a \in Starts(text)}
           <=> \E a \in Starts(text) : name \in Of(a)
    OBVIOUS
  <2>4. QED
    BY <2>1, <2>2, <2>3
<1>2. ASSUME Closed(text, s, name) PROVE name \in Pieces(text)
  <2>1. PICK a \in 1..s, b \in 0..(s - 1) :
           /\ a \in Starts(text) /\ a - 1 <= b
           /\ text[b + 1] = Delimiter
           /\ Free(text, a, b)
           /\ name = SubSeq(text, a, b)
    BY <1>2 DEF Closed
  <2>2. b \in (a - 1)..n
    BY <1>0, <2>1
  <2>3. b \in Ends(text, a)
    BY <2>1, <2>2 DEF Ends, Free
  <2>4. QED
    BY <1>1, <2>1, <2>3
<1>3. ASSUME s < n, name = SubSeq(text, s + 1, n) PROVE name \in Pieces(text)
  <2>1. s + 1 \in 1..n /\ (s + 1) - 1 = s /\ n \in ((s + 1) - 1)..n
    BY <1>3
  <2>2. s + 1 \in Starts(text) /\ n \in Ends(text, s + 1)
    BY <2>1 DEF Starts, Ends, Free
  <2>3. QED
    BY <1>1, <1>3, <2>2
<1>4. ASSUME name \in Pieces(text), ~Closed(text, s, name)
      PROVE  s < n /\ name = SubSeq(text, s + 1, n)
  <2>0. PICK a \in Starts(text) : \E b \in Ends(text, a) : name = SubSeq(text, a, b)
    BY <1>1, <1>4
  <2>1. PICK b \in Ends(text, a) : name = SubSeq(text, a, b)
    BY <2>0
  <2>2. /\ a \in 1..n /\ b \in (a - 1)..n
        /\ b = n \/ text[b + 1] = Delimiter
        /\ Free(text, a, b)
    BY <2>1 DEF Starts, Ends, Free
  <2>3. ~(b < s)
    <3> SUFFICES ASSUME b < s PROVE FALSE
      OBVIOUS
    <3>1. a \in 1..s /\ b \in 0..(s - 1) /\ a - 1 <= b /\ b # n
      BY <2>2
    <3>2. QED
      BY <1>4, <2>1, <2>2, <3>1 DEF Closed
  <2>4. b = n
    <3> SUFFICES ASSUME b # n PROVE FALSE
      OBVIOUS
    <3>1. b + 1 \in (s + 1)..n
      BY <2>2, <2>3
    <3>2. QED
      BY <2>2, <3>1 DEF Free
  <2>5. a = s + 1
    BY <1>0, <2>1, <2>2, <2>3, <2>4, BeginsBehind
  <2>6. QED
    BY <2>1, <2>2, <2>4, <2>5
<1>5. QED
  BY <1>2, <1>3, <1>4

\* What there is of a name at the end of a text is empty just if the text is, or if
\* it ends with a delimiter.
LEMMA EndOf ==
    ASSUME NEW text \in Seq(Byte), NEW s \in 0..Len(text),
           s = 0 \/ text[s] = Delimiter, Free(text, s + 1, Len(text))
    PROVE  /\ s < Len(text) <=> ~(text = <<>> \/ text[Len(text)] = Delimiter)
           /\ SubSeq(text, s + 1, Len(text)) = <<>> <=> s = Len(text)
<1>1. Len(text) \in Nat /\ (text = <<>> <=> Len(text) = 0)
  OBVIOUS
<1>2. CASE s < Len(text)
  <2>1. Len(text) \in (s + 1)..Len(text) /\ text # <<>>
    BY <1>1, <1>2
  <2>2. text[Len(text)] # Delimiter
    BY <2>1 DEF Free
  <2>3. SubSeq(text, s + 1, Len(text)) # <<>>
    <3>1. \A i \in (s + 1)..Len(text) : text[i] \in Byte
      BY ElementOfSeq
    <3>2. Len(SubSeq(text, s + 1, Len(text))) = Len(text) - (s + 1) + 1
      BY <1>1, <2>1, <3>1, SubSeqProperties
    <3>3. Len(text) - (s + 1) + 1 # 0
      BY <1>1, <1>2
    <3>4. Len(<<>>) = 0
      OBVIOUS
    <3>5. QED
      BY <3>2, <3>3, <3>4, Zenon
  <2>4. QED
    BY <1>2, <2>1, <2>2, <2>3
<1>3. CASE s = Len(text)
  <2>1. SubSeq(text, s + 1, Len(text)) = <<>>
    BY <1>1, <1>3, SubSeqEmpty
  <2>2. text = <<>> \/ text[Len(text)] = Delimiter
    BY <1>1, <1>3
  <2>3. QED
    BY <1>3, <2>1, <2>2
<1>4. QED
  BY <1>1, <1>2, <1>3

\* The names of a list are its pieces, and nothing else is in it: written down
\* again they are the list, for lists of any length.
THEOREM SplitKeeps ==
    ASSUME NEW text \in Seq(Byte)
    PROVE  /\ SplitKeepsAll(text)
           /\ Split(text) \in Seq(Seq(Byte))
           /\ Names(text) = Pieces(text)
<1> DEFINE n == Len(text)
           ends == text = <<>> \/ text[n] = Delimiter
<1>1. PICK names \in Seq(Seq(Byte)), tmp \in Seq(Byte), s \in 0..n :
          ReadTo(text, n, names, tmp, s)
  BY ReadAll DEF ReadUpTo
<1>2. /\ Reading!Rec(text)[n] = [names |-> names, tmp |-> tmp]
      /\ Written(names) \in Seq(Byte)
      /\ Written(names) \o tmp = text
  BY <1>1, SubSeqFull DEF ReadTo
<1>3. Split(text) = IF tmp = <<>> THEN names ELSE Append(names, tmp)
  BY <1>2 DEF Split, Rest
<1>4. /\ s < n <=> ~ends
      /\ tmp = <<>> <=> s = n
  BY <1>1, EndOf DEF ReadTo
<1>5. \A name : name \in Range(names) <=> Closed(text, s, name)
  BY <1>1 DEF ReadTo
<1>6. \A name : name \in Pieces(text) <=> Closed(text, s, name) \/ (s < n /\ name = tmp)
  BY <1>1, PiecesOf DEF ReadTo
<1>7. CASE tmp = <<>>
  <2>1. ends /\ ~(s < n)
    BY <1>4, <1>7
  <2>2. Written(names) = text
    BY <1>2, <1>7, ConcatEmptySeq
  <2>3. SplitKeepsAll(text)
    BY <1>3, <1>7, <2>1, <2>2 DEF SplitKeepsAll
  <2>4. Range(names) = Pieces(text)
    BY <1>5, <1>6, <2>1
  <2>5. QED
    BY <1>3, <1>7, <2>3, <2>4 DEF Names
<1>8. CASE tmp # <<>>
  <2>1. ~ends /\ s < n
    BY <1>4, <1>8
  <2>2. Written(Split(text)) = Written(names) \o Terminated(tmp)
    BY <1>3, <1>8, WrittenAppend
  <2>3. Delimiter \in Byte
    BY DEF Delimiter, Byte
  <2>4. text \o <<Delimiter>> = Written(names) \o Terminated(tmp)
    BY <1>2, <2>3, Behind DEF Terminated
  <2>5. text \o <<Delimiter>> = Terminated(text)
    BY <2>3, AppendIsConcat DEF Terminated
  <2>6. SplitKeepsAll(text)
    BY <2>1, <2>2, <2>4, <2>5 DEF SplitKeepsAll
  <2>7. Range(Append(names, tmp)) = Pieces(text)
    <3>1. Range(Append(names, tmp)) = Range(names) \cup {tmp}
      BY RangeAppend
    <3>2. \A name : name \in Range(names) \cup {tmp} <=> name \in Pieces(text)
      BY <1>5, <1>6, <2>1
    <3>3. QED
      BY <3>1, <3>2, Zenon
  <2>8. QED
    BY <1>3, <1>8, <2>6, <2>7, AppendProperties DEF Names
<1>9. QED
  BY <1>7, <1>8

-----------------------------------------------------------------------------
(* to_hex(name), byte after byte.                                          *)

Character == 16..255

\* What a byte that is no control character is printed as.
LEMMA DigitsOf ==
    ASSUME NEW ch \in Character
    PROVE  /\ Digits(ch) \in Seq(Nat)
           /\ Len(Digits(ch)) \in Nat
           /\ Len(Digits(ch)) >= 2
           /\ Digits(ch)[Len(Digits(ch))] = ch % 16
           /\ Digits(ch)[Len(Digits(ch)) - 1] = ch \div 16
<1> DEFINE sign == IF ch >= 128 THEN <<15, 15, 15, 15, 15, 15>> ELSE <<>>
           high == ch \div 16
           low == ch % 16
<1>1. high \in Nat /\ low \in Nat
  BY DEF Character
<1>2. sign \in Seq(Nat) /\ Len(sign) \in Nat
  OBVIOUS
<1>3. ch >= 16 /\ ch \in Nat
  BY DEF Character
<1>4. Digits(ch) = (sign \o <<high>>) \o <<low>>
  BY <1>3 DEF Digits
<1> HIDE DEF sign, high, low
<1>5. Append(Append(sign, high), low) = (sign \o <<high>>) \o <<low>>
  BY <1>1, <1>2, AppendIsConcat, AppendProperties
<1>6. /\ Append(sign, high) \in Seq(Nat)
      /\ Len(Append(sign, high)) = Len(sign) + 1
      /\ Append(sign, high)[Len(sign) + 1] = high
  BY <1>1, <1>2, AppendProperties
<1>7. /\ Append(Append(sign, high), low) \in Seq(Nat)
      /\ Len(Append(Append(sign, high), low)) = Len(sign) + 2
      /\ Append(Append(sign, high), low)[Len(sign) + 1] = high
      /\ Append(Append(sign, high), low)[Len(sign) + 2] = low
  BY <1>1, <1>2, <1>6, AppendProperties
<1>8. Digits(ch) = Append(Append(sign, high), low)
  BY <1>4, <1>5
<1>9. /\ Digits(ch) \in Seq(Nat)
      /\ Len(Digits(ch)) = Len(sign) + 2
      /\ Digits(ch)[Len(sign) + 1] = high
      /\ Digits(ch)[Len(sign) + 2] = low
  BY <1>7, <1>8
<1>10. Len(Digits(ch)) \in Nat /\ Len(Digits(ch)) >= 2 /\ Len(Digits(ch)) - 1 = Len(sign) + 1
  BY <1>2, <1>9
<1>11. QED
  BY <1>9, <1>10 DEF high, low

\* The last byte can be told from the end of what is printed.
LEMMA LastByte ==
    ASSUME NEW s \in Seq(Nat), NEW t \in Seq(Nat),
           NEW a \in Character, NEW b \in Character,
           s \o Digits(a) = t \o Digits(b)
    PROVE  a = b
<1> DEFINE da == Digits(a)
           db == Digits(b)
           m == Len(da)
           k == Len(db)
           n == Len(s) + m
<1>1. /\ da \in Seq(Nat) /\ m >= 2 /\ da[m] = a % 16 /\ da[m - 1] = a \div 16
      /\ db \in Seq(Nat) /\ k >= 2 /\ db[k] = b % 16 /\ db[k - 1] = b \div 16
  BY DigitsOf
<1>2. s \o da = t \o db
  OBVIOUS
<1> HIDE DEF da, db
<1>3. /\ Len(s \o da) = n
      /\ \A i \in 1..n : (s \o da)[i] = IF i <= Len(s) THEN s[i] ELSE da[i - Len(s)]
  BY <1>1, ConcatProperties
<1>4. /\ Len(t \o db) = Len(t) + k
      /\ \A i \in 1..(Len(t) + k) :
            (t \o db)[i] = IF i <= Len(t) THEN t[i] ELSE db[i - Len(t)]
  BY <1>1, ConcatProperties
<1>5. /\ n = Len(s) + m /\ n = Len(t) + k /\ Len(s) \in Nat /\ Len(t) \in Nat
      /\ m \in Nat /\ m >= 2 /\ k \in Nat /\ k >= 2
  <2>1. m \in Nat /\ m >= 2 /\ k \in Nat /\ k >= 2
    BY DigitsOf DEF da, db
  <2>2. n = Len(t) + k
    BY <1>2, <1>3, <1>4
  <2>3. QED
    BY <2>1, <2>2
<1> HIDE DEF m, k, n
<1>6. (s \o da)[n] = da[m] /\ (s \o da)[n - 1] = da[m - 1]
  <2>1. n \in 1..n /\ n - 1 \in 1..n /\ ~(n <= Len(s)) /\ ~(n - 1 <= Len(s))
    BY <1>5
  <2>2. n - Len(s) = m /\ (n - 1) - Len(s) = m - 1
    BY <1>5
  <2>3. QED
    BY <1>3, <2>1, <2>2
<1>7. (t \o db)[n] = db[k] /\ (t \o db)[n - 1] = db[k - 1]
  <2>1. /\ n \in 1..(Len(t) + k) /\ n - 1 \in 1..(Len(t) + k)
        /\ ~(n <= Len(t)) /\ ~(n - 1 <= Len(t))
    BY <1>5
  <2>2. n - Len(t) = k /\ (n - 1) - Len(t) = k - 1
    BY <1>5
  <2>3. QED
    BY <1>4, <2>1, <2>2
<1>8. a = b
  <2>1. a % 16 = b % 16 /\ a \div 16 = b \div 16
    BY <1>1, <1>2, <1>6, <1>7
  <2>2. QED
    BY <2>1 DEF Character
<1>9. QED
  BY <1>8

\* So can what stands before it.
LEMMA BeforeLast ==
    ASSUME NEW s \in Seq(Nat), NEW t \in Seq(Nat),
           NEW a \in Character, NEW b \in Character,
           s \o Digits(a) = t \o Digits(b)
    PROVE  s = t
<1>1. a = b
  BY LastByte, Zenon
<1>2. s \o Digits(a) = t \o Digits(a) /\ Digits(a) \in Seq(Nat)
  BY <1>1, DigitsOf
<1>3. QED
  BY <1>2, ConcatSimplifications

\* What has been printed after some bytes.
LEMMA Printed ==
    ASSUME NEW name \in Seq(Character)
    PROVE  /\ Printing!Rec(name)[0] = <<>>
           /\ \A i \in 0..Len(name) : Printing!Rec(name)[i] \in Seq(Nat)
           /\ \A i \in Nat : i < Len(name) =>
                 /\ name[i + 1] \in Character
                 /\ Printing!Rec(name)[i + 1] =
                       Printing!Rec(name)[i] \o Digits(name[i + 1])
                 /\ Printing!Rec(name)[i + 1] # <<>>
<1> DEFINE S == {i \in Nat : i <= Len(name) => Printing!Rec(name)[i] \in Seq(Nat)}
<1>1. Printing!Rec(name)[0] = <<>>
  BY Printing!Recursive DEF Nothing
<1>2. ASSUME NEW i \in Nat, i < Len(name)
      PROVE  /\ name[i + 1] \in Character
             /\ Printing!Rec(name)[i + 1] = Printing!Rec(name)[i] \o Digits(name[i + 1])
  <2>1. name[i + 1] \in Character
    BY <1>2, ElementOfSeq
  <2>2. Printing!Rec(name)[i + 1] = PrintByte(name, i + 1, Printing!Rec(name)[i])
    BY Printing!Recursive
  <2>3. QED
    BY <2>1, <2>2 DEF PrintByte
<1>3. 0 \in S
  BY <1>1, EmptySeq
<1>4. ASSUME NEW i \in Nat, i \in S PROVE i + 1 \in S
  <2>1. CASE i + 1 <= Len(name)
    <3>0. i < Len(name)
      BY <2>1
    <3>1. /\ name[i + 1] \in Character
          /\ Printing!Rec(name)[i + 1] = Printing!Rec(name)[i] \o Digits(name[i + 1])
      BY <1>2, <3>0
    <3>2. Printing!Rec(name)[i] \in Seq(Nat)
      BY <1>4, <2>1
    <3>3. Printing!Rec(name)[i + 1] \in Seq(Nat)
      BY <3>1, <3>2, DigitsOf, ConcatProperties
    <3>4. QED
      BY <3>3
  <2>2. QED
    BY <2>1
<1>5. Nat \subseteq S
  <2> HIDE DEF S
  <2>1. QED
    BY <1>3, <1>4, Printing!NatSetInduction
<1>6. \A i \in 0..Len(name) : Printing!Rec(name)[i] \in Seq(Nat)
  BY <1>5
<1>7. ASSUME NEW i \in Nat, i < Len(name) PROVE Printing!Rec(name)[i + 1] # <<>>
  <2> DEFINE s == Printing!Rec(name)[i]
             d == Digits(name[i + 1])
  <2>1. s \in Seq(Nat) /\ d \in Seq(Nat) /\ Len(d) >= 2
    <3>1. name[i + 1] \in Character /\ i \in 0..Len(name)
      BY <1>2, <1>7
    <3>2. QED
      BY <1>6, <3>1, DigitsOf
  <2>2. Printing!Rec(name)[i + 1] = s \o d
    BY <1>2, <1>7
  <2> HIDE DEF s, d
  <2>3. d # <<>>
    <3>1. Len(<<>>) = 0
      OBVIOUS
    <3>2. QED
      BY <2>1, <3>1
  <2>4. QED
    BY <2>1, <2>2, <2>3, ConcatEqualIffEmpty
<1>8. QED
  BY <1>1, <1>2, <1>6, <1>7

\* Names of any length without control characters that are printed alike are the
\* same: the bytes are told apart from the end.
THEOREM HexIsDistinct ==
    ASSUME NEW a \in Seq(Character), NEW b \in Seq(Character), to_hex(a) = to_hex(b)
    PROVE  a = b
<1> DEFINE Alike(i, j) == Printing!Rec(a)[i] = Printing!Rec(b)[j]
           Same(i, j) == i = j /\ \A k \in 1..i : a[k] = b[k]
           S == {i \in Nat : i <= Len(a) =>
                     \A j \in 0..Len(b) : Alike(i, j) => Same(i, j)}
<1>1. 0 \in S
  <2> SUFFICES ASSUME NEW j \in 0..Len(b), Alike(0, j) PROVE j = 0
    OBVIOUS
  <2>1. Printing!Rec(b)[j] = <<>>
    BY Printed
  <2>2. CASE j # 0
    <3>1. j - 1 \in Nat /\ j - 1 < Len(b) /\ (j - 1) + 1 = j
      BY <2>2
    <3>2. Printing!Rec(b)[(j - 1) + 1] # <<>>
      BY <3>1, Printed
    <3>3. QED
      BY <2>1, <3>1, <3>2
  <2>3. QED
    BY <2>2
<1>2. ASSUME NEW i \in Nat, i \in S PROVE i + 1 \in S
  <2> SUFFICES ASSUME i < Len(a), NEW j \in 0..Len(b), Alike(i + 1, j)
               PROVE  Same(i + 1, j)
    OBVIOUS
  <2>1. /\ a[i + 1] \in Character
        /\ Printing!Rec(a)[i + 1] = Printing!Rec(a)[i] \o Digits(a[i + 1])
        /\ Printing!Rec(a)[i + 1] # <<>>
        /\ Printing!Rec(a)[i] \in Seq(Nat)
    <3>1. i \in 0..Len(a)
      OBVIOUS
    <3>2. QED
      BY <3>1, Printed
  <2>2. j # 0
    BY <2>1, Printed
  <2>3. j - 1 \in Nat /\ j - 1 \in 0..Len(b) /\ j - 1 < Len(b) /\ (j - 1) + 1 = j
    BY <2>2
  <2>4. /\ b[j] \in Character
        /\ Printing!Rec(b)[j] = Printing!Rec(b)[j - 1] \o Digits(b[j])
        /\ Printing!Rec(b)[j - 1] \in Seq(Nat)
    <3>1. /\ b[(j - 1) + 1] \in Character
          /\ Printing!Rec(b)[(j - 1) + 1] =
                Printing!Rec(b)[j - 1] \o Digits(b[(j - 1) + 1])
          /\ Printing!Rec(b)[j - 1] \in Seq(Nat)
      BY <2>3, Printed
    <3>2. QED
      BY <2>3, <3>1
  <2>5. Alike(i, j - 1) /\ a[i + 1] = b[j]
    <3> DEFINE s == Printing!Rec(a)[i]
               t == Printing!Rec(b)[j - 1]
               x == a[i + 1]
               y == b[j]
    <3>1. /\ s \in Seq(Nat) /\ t \in Seq(Nat) /\ x \in Character /\ y \in Character
          /\ s \o Digits(x) = t \o Digits(y)
      BY <2>1, <2>4
    <3> HIDE DEF s, t, x, y
    <3>2. s = t
      BY <3>1, BeforeLast, Zenon
    <3>3. x = y
      BY <3>1, LastByte, Zenon
    <3>4. QED
      BY <3>2, <3>3 DEF s, t, x, y
  <2>6. Same(i, j - 1)
    BY <1>2, <2>3, <2>5
  <2>7. QED
    BY <2>3, <2>5, <2>6
<1>3. Nat \subseteq S
  <2> HIDE DEF S
  <2>1. QED
    BY <1>1, <1>2, Printing!NatSetInduction
<1>4. Len(a) \in Nat /\ Len(b) \in Nat
  OBVIOUS
<1>5. Alike(Len(a), Len(b))
  BY DEF to_hex
<1>6. Same(Len(a), Len(b))
  BY <1>3, <1>4, <1>5
<1>7. QED
  BY <1>6, SeqEqual

\* The ids of the files of a list tell their names apart.
LEMMA IdsOfList ==
    ASSUME NEW text \in Seq(Byte)
    PROVE  /\ IdsDistinct(Ids(text))
           /\ {x.name : x \in Ids(text)} = Pieces(text)
<1>1. Names(text) \subseteq Seq(Byte)
  <2>1. Split(text) \in Seq(Seq(Byte))
    BY SplitKeeps
  <2>2. Range(Split(text)) \subseteq Seq(Byte)
    BY <2>1, RangeOfSeq
  <2>3. QED
    BY <2>2 DEF Names
<1>2. ASSUME NEW n \in Names(text), Printable(n) PROVE n \in Seq(Character)
  <2>1. n \in Seq(Byte) /\ \A i \in 1..Len(n) : n[i] >= 16
    BY <1>1, <1>2 DEF Printable
  <2>2. ASSUME NEW i \in 1..Len(n) PROVE n[i] \in Character
    <3>1. n[i] \in Byte /\ n[i] >= 16
      BY <2>1, ElementOfSeq
    <3>2. \A ch \in Byte : ch >= 16 => ch \in Character
      BY DEF Byte, Character
    <3>3. QED
      BY <3>1, <3>2
  <2>3. Len(n) \in Nat /\ n = [i \in 1..Len(n) |-> n[i]]
    BY <2>1
  <2>4. QED
    BY <2>2, <2>3
<1>3. IdsDistinct(Ids(text))
  BY <1>2, HexIsDistinct DEF IdsDistinct, Ids
<1>4. {x.name : x \in Ids(text)} = Names(text)
  <2>1. \A n \in Names(text) : [name |-> n, id |-> to_hex(n)] \in Ids(text)
    BY DEF Ids
  <2>2. \A x \in Ids(text) : \E n \in Names(text) : x = [name |-> n, id |-> to_hex(n)]
    BY DEF Ids
  <2>3. ASSUME NEW n \in Names(text) PROVE n \in {x.name : x \in Ids(text)}
    <3>1. PICK x \in Ids(text) : x = [name |-> n, id |-> to_hex(n)]
      BY <2>1
    <3>2. x.name = n
      BY <3>1
    <3>3. QED
      BY <3>2
  <2>4. \A x \in Ids(text) : x.name \in Names(text)
    BY <2>2
  <2>5. QED
    BY <2>3, <2>4
<1>5. QED
  BY <1>3, <1>4, SplitKeeps
=============================================================================
