--------------------------- MODULE PdbMemosProofs ---------------------------
(***************************************************************************)
(* Theorems about PdbMemos, for any strings, ids, categories and lengths   *)
(* and any number of operations: where the offsets stay exact, the file    *)
(* has what was written, and it is read back if its strings fit the        *)
(* buffers they are converted into.                                        *)
(***************************************************************************)
EXTENDS PdbMemos, PdbFileProofs

-----------------------------------------------------------------------------
(* Reading a memo where it was written *)

\* A memo whose lengths are those of its strings.
Exact(memo) ==
  /\ memo.offset \in Int
  /\ {memo.header, memo.text} \subseteq Encodable
  /\ memo.hlen = Cp1251Len[memo.header]
  /\ memo.tlen = Cp1251Len[memo.text]

LEMMA Lengths ==
  ASSUME NEW memo, Exact(memo)
  PROVE  /\ memo.hlen \in Nat /\ memo.tlen \in Nat
         /\ memo.header \in Strings /\ memo.text \in Strings
BY StringsOK DEF Exact

LEMMA BytesAreNotSeparators ==
  ASSUME NEW string \in Strings, NEW k, NEW name \in Separators
  PROVE  <<string, k>> # Separator(name)
BY StringsOK DEF Separators, Separator

\* Where the bytes of a memo are in a file ...
Lies(bytes, o, header, text) ==
  LET h == Cp1251Len[header]
      t == Cp1251Len[text]
  IN /\ DOMAIN bytes \subseteq Int
     /\ \A k \in 0..(h - 1) : o + k \in DOMAIN bytes /\ bytes[o + k] = <<header, k>>
     /\ o + h \in DOMAIN bytes /\ bytes[o + h] = Separator("LF")
     /\ \A k \in 0..(t - 1) :
          o + h + 1 + k \in DOMAIN bytes /\ bytes[o + h + 1 + k] = <<text, k>>
     /\ o + h + 1 + t \in DOMAIN bytes /\ bytes[o + h + 1 + t] = Separator("NUL")

LEMMA WrittenLies ==
  ASSUME NEW memo, Exact(memo), NEW bytes, DOMAIN bytes \subseteq Int,
         \A at \in Span(memo) : at \in DOMAIN bytes /\ bytes[at] = ByteOf(memo, at)
  PROVE  Lies(bytes, memo.offset, memo.header, memo.text)
<1>1. ASSUME NEW o \in Int, NEW h \in Nat, NEW t \in Nat,
             o = memo.offset, h = memo.hlen, t = memo.tlen,
             h = Cp1251Len[memo.header], t = Cp1251Len[memo.text]
      PROVE  Lies(bytes, o, memo.header, memo.text)
  <2>1. \A k \in 0..(h + 1 + t) : o + k \in Span(memo)
    BY <1>1 DEF Span, Size
  <2>2. \A k \in 0..(h + 1 + t) :
          ByteOf(memo, o + k) =
            CASE k < h     -> Byte(memo.header, k)
              [] k = h     -> Separator("LF")
              [] k = h + 1 + t -> Separator("NUL")
              [] OTHER     -> Byte(memo.text, k - h - 1)
    <3> TAKE k \in 0..(h + 1 + t)
    <3>1. o + k - memo.offset = k
      BY <1>1
    <3>. QED
      BY <1>1, <3>1 DEF ByteOf
  <2>3. \A k \in 0..(h + 1 + t) :
          o + k \in DOMAIN bytes /\ bytes[o + k] = ByteOf(memo, o + k)
    BY <2>1
  <2>4. \A k \in 0..(h - 1) : o + k \in DOMAIN bytes /\ bytes[o + k] = <<memo.header, k>>
    <3> TAKE k \in 0..(h - 1)
    <3>1. k \in 0..(h + 1 + t) /\ k < h
      OBVIOUS
    <3>2. ByteOf(memo, o + k) = Byte(memo.header, k)
      BY <2>2, <3>1
    <3>. QED
      BY <1>1, <2>3, <3>1, <3>2 DEF Byte
  <2>5. o + h \in DOMAIN bytes /\ bytes[o + h] = Separator("LF")
    <3>1. h \in 0..(h + 1 + t) /\ ~(h < h) /\ h # h + 1 + t
      OBVIOUS
    <3>2. ByteOf(memo, o + h) = Separator("LF")
      BY <2>2, <3>1
    <3>. QED
      BY <2>3, <3>1, <3>2
  <2>6. \A k \in 0..(t - 1) :
          o + h + 1 + k \in DOMAIN bytes /\ bytes[o + h + 1 + k] = <<memo.text, k>>
    <3> TAKE k \in 0..(t - 1)
    <3>1. /\ h + 1 + k \in 0..(h + 1 + t) /\ ~(h + 1 + k < h) /\ h + 1 + k # h
          /\ h + 1 + k # h + 1 + t /\ h + 1 + k - h - 1 = k /\ k < t
          /\ o + (h + 1 + k) = o + h + 1 + k
      OBVIOUS
    <3>2. ByteOf(memo, o + (h + 1 + k)) = Byte(memo.text, k)
      BY <2>2, <3>1
    <3>. QED
      BY <1>1, <2>3, <3>1, <3>2 DEF Byte
  <2>7. o + h + 1 + t \in DOMAIN bytes /\ bytes[o + h + 1 + t] = Separator("NUL")
    <3>1. /\ h + 1 + t \in 0..(h + 1 + t) /\ ~(h + 1 + t < h) /\ h + 1 + t # h
          /\ o + (h + 1 + t) = o + h + 1 + t
      OBVIOUS
    <3>2. ByteOf(memo, o + (h + 1 + t)) = Separator("NUL")
      BY <2>2, <3>1
    <3>. QED
      BY <2>3, <3>1, <3>2
  <2>. QED
    BY <1>1, <2>4, <2>5, <2>6, <2>7 DEF Lies
<1>. QED
  BY <1>1, Lengths DEF Exact

\* ... the first '\n' from its offset on is behind its header, the first '\0' from there
\* on behind its text, and both strings are as they were.
LEMMA ReadWhereItLies ==
  ASSUME NEW o \in Int, NEW header \in Strings, NEW text \in Strings, NEW bytes,
         Lies(bytes, o, header, text)
  PROVE  /\ Readable(bytes, o)
         /\ HeaderEnd(bytes, o) = o + Cp1251Len[header]
         /\ TextEnd(bytes, o) = o + Cp1251Len[header] + 1 + Cp1251Len[text]
         /\ IsStored(header, bytes, o, HeaderEnd(bytes, o) - 1)
         /\ IsStored(text, bytes, HeaderEnd(bytes, o) + 1, TextEnd(bytes, o) - 1)
<1>1. ASSUME NEW h \in Nat, NEW t \in Nat, h = Cp1251Len[header], t = Cp1251Len[text]
      PROVE  /\ Readable(bytes, o)
             /\ HeaderEnd(bytes, o) = o + h
             /\ TextEnd(bytes, o) = o + h + 1 + t
             /\ IsStored(header, bytes, o, HeaderEnd(bytes, o) - 1)
             /\ IsStored(text, bytes, HeaderEnd(bytes, o) + 1, TextEnd(bytes, o) - 1)
  <2>1. /\ DOMAIN bytes \subseteq Int
        /\ \A k \in 0..(h - 1) : o + k \in DOMAIN bytes /\ bytes[o + k] = <<header, k>>
        /\ o + h \in DOMAIN bytes /\ bytes[o + h] = Separator("LF")
        /\ \A k \in 0..(t - 1) :
             o + h + 1 + k \in DOMAIN bytes /\ bytes[o + h + 1 + k] = <<text, k>>
        /\ o + h + 1 + t \in DOMAIN bytes /\ bytes[o + h + 1 + t] = Separator("NUL")
    BY <1>1 DEF Lies
  <2>2. HeaderEnd(bytes, o) = o + h
    <3> DEFINE S == {at \in DOMAIN bytes : at >= o /\ bytes[at] = Separator("LF")}
    <3>1. o + h \in S /\ S \in SUBSET Int
      BY <2>1
    <3>2. \A at \in S : o + h <= at
      <4> SUFFICES ASSUME NEW at \in S, at < o + h PROVE FALSE
        BY <3>1
      <4>1. at \in Int /\ at - o \in 0..(h - 1) /\ o + (at - o) = at
        BY <3>1
      <4>2. bytes[at] = <<header, at - o>>
        BY <2>1, <4>1
      <4>. QED
        BY <4>2, BytesAreNotSeparators DEF Separators
    <3>3. Min(S) = o + h
      BY <3>1, <3>2, MinIs
    <3>. QED
      BY <3>3 DEF HeaderEnd, FirstOf
  <2>3. TextEnd(bytes, o) = o + h + 1 + t
    <3> DEFINE S == {at \in DOMAIN bytes :
                       at >= o + h + 1 /\ bytes[at] = Separator("NUL")}
    <3>1. o + h + 1 + t \in S /\ S \in SUBSET Int
      BY <2>1
    <3>2. \A at \in S : o + h + 1 + t <= at
      <4> SUFFICES ASSUME NEW at \in S, at < o + h + 1 + t PROVE FALSE
        BY <3>1
      <4>1. /\ at \in Int /\ at - (o + h + 1) \in 0..(t - 1)
            /\ o + h + 1 + (at - (o + h + 1)) = at
        BY <3>1
      <4>2. bytes[at] = <<text, at - (o + h + 1)>>
        BY <2>1, <4>1
      <4>. QED
        BY <4>2, BytesAreNotSeparators DEF Separators
    <3>3. Min(S) = o + h + 1 + t
      BY <3>1, <3>2, MinIs
    <3>. QED
      BY <2>2, <3>3 DEF TextEnd, FirstOf
  <2>4. Readable(bytes, o)
    BY <2>1, <2>2 DEF Readable
  <2>5. IsStored(header, bytes, o, o + h - 1)
    <3>1. \A at \in o..(o + h - 1) :
            at - o \in 0..(h - 1) /\ o + (at - o) = at /\ at - o < h
      OBVIOUS
    <3>2. \A at \in o..(o + h - 1) :
            at \in DOMAIN bytes /\ bytes[at] = Byte(header, at - o)
      BY <1>1, <2>1, <3>1 DEF Byte
    <3>3. o + h - 1 - o + 1 = h
      OBVIOUS
    <3>. QED
      BY <1>1, <3>2, <3>3 DEF IsStored
  <2>6. IsStored(text, bytes, o + h + 1, o + h + 1 + t - 1)
    <3>1. \A at \in (o + h + 1)..(o + h + 1 + t - 1) :
            /\ at - (o + h + 1) \in 0..(t - 1) /\ at - (o + h + 1) < t
            /\ o + h + 1 + (at - (o + h + 1)) = at
      OBVIOUS
    <3>2. \A at \in (o + h + 1)..(o + h + 1 + t - 1) :
            at \in DOMAIN bytes /\ bytes[at] = Byte(text, at - (o + h + 1))
      BY <1>1, <2>1, <3>1 DEF Byte
    <3>3. o + h + 1 + t - 1 - (o + h + 1) + 1 = t
      OBVIOUS
    <3>. QED
      BY <1>1, <3>2, <3>3 DEF IsStored
  <2>. QED
    BY <2>2, <2>3, <2>4, <2>5, <2>6
<1>2. Cp1251Len[header] \in Nat /\ Cp1251Len[text] \in Nat
  BY StringsOK
<1>. QED
  BY <1>1, <1>2

-----------------------------------------------------------------------------
(* Writing memos that are laid out *)

LEMMA MemoFields ==
  ASSUME NEW memo \in Memo
  PROVE  /\ memo.id \in Ids /\ memo.offset \in Int /\ memo.slot \in SlotIds
         /\ memo.header \in Strings /\ memo.text \in Strings
         /\ memo.hlen \in Nat /\ memo.tlen \in Nat
         /\ memo.asked \in Names \cup {NoName}
         /\ EndOf(memo) \in Int
BY DEF Memo, EndOf, Size

LEMMA SpanOfMemo ==
  ASSUME NEW memo \in Memo
  PROVE  /\ memo.offset < EndOf(memo)
         /\ Span(memo) = memo.offset..(EndOf(memo) - 1)
<1>1. memo.offset \in Int /\ memo.hlen \in Nat /\ memo.tlen \in Nat
  BY MemoFields
<1>2. EndOf(memo) = memo.offset + memo.hlen + memo.tlen + 2
  BY <1>1 DEF EndOf, Size
<1>3. memo.offset < EndOf(memo)
  BY <1>1, <1>2
<1>4. Span(memo) = memo.offset..(EndOf(memo) - 1)
  BY <1>1 DEF Span, EndOf, Size
<1>. QED
  BY <1>3, <1>4

\* A memo ends before any later one begins.
LEMMA InOrder ==
  ASSUME NEW queue \in Seq(Memo), LaidOut(queue),
         NEW i \in 1..Len(queue), NEW j \in 1..Len(queue), i < j
  PROVE  EndOf(queue[i]) <= queue[j].offset
<1> DEFINE S == {k \in 1..Len(queue) : i < k /\ queue[k].offset < EndOf(queue[i])}
<1>0. \A k \in 1..Len(queue) : queue[k].offset \in Int /\ EndOf(queue[k]) \in Int
  BY MemoFields
<1>1. S \in SUBSET Nat
  OBVIOUS
<1>2. ASSUME S # {} PROVE FALSE
  <2>1. PICK m \in S : \A k \in S : m <= k
    BY <1>1, <1>2, MinOfNaturals
  <2>2. /\ m \in 1..Len(queue) /\ i < m /\ queue[m].offset < EndOf(queue[i])
        /\ m - 1 \in 1..Len(queue)
    BY <2>1
  <2>3. queue[m].offset = EndOf(queue[m - 1])
    BY <2>2 DEF LaidOut
  <2>4. i = m - 1 \/ EndOf(queue[i]) <= queue[m - 1].offset
    <3>1. m - 1 \notin S
      BY <2>1, <2>2
    <3>2. i = m - 1 \/ ~(queue[m - 1].offset < EndOf(queue[i]))
      BY <2>2, <3>1
    <3>. QED
      BY <1>0, <2>2, <3>2
  <2>5. queue[m - 1] \in Memo
    BY <2>2
  <2>6. queue[m - 1].offset < EndOf(queue[m - 1])
    BY <2>5, SpanOfMemo
  <2>. QED
    BY <1>0, <2>2, <2>3, <2>4, <2>6
<1>3. j \notin S
  BY <1>2
<1>. QED
  BY <1>0, <1>3

\* Memos that are laid out do not overlap: each finds its own bytes.
LEMMA EachHasItsBytes ==
  ASSUME NEW queue \in Seq(Memo), LaidOut(queue), NEW bytes, DOMAIN bytes \subseteq Int,
         NEW i \in 1..Len(queue)
  PROVE  /\ DOMAIN BytesWith(bytes, queue) \subseteq Int
         /\ \A at \in Span(queue[i]) :
              /\ at \in DOMAIN BytesWith(bytes, queue)
              /\ BytesWith(bytes, queue)[at] = ByteOf(queue[i], at)
<1>1. \A k \in 1..Len(queue) : queue[k] \in Memo
  OBVIOUS
<1>2. \A k \in 1..Len(queue) :
        /\ queue[k].offset \in Int /\ EndOf(queue[k]) \in Int
        /\ Span(queue[k]) = queue[k].offset..(EndOf(queue[k]) - 1)
  BY <1>1, MemoFields, SpanOfMemo
<1>3. \A k \in 1..Len(queue) : Span(queue[k]) \subseteq Int
  BY <1>2
<1>4. ASSUME NEW at \in Span(queue[i]), NEW k \in 1..Len(queue), at \in Span(queue[k])
      PROVE  k = i
  <2>0. /\ queue[i].offset \in Int /\ EndOf(queue[i]) \in Int
        /\ queue[k].offset \in Int /\ EndOf(queue[k]) \in Int
        /\ at \in queue[i].offset..(EndOf(queue[i]) - 1)
        /\ at \in queue[k].offset..(EndOf(queue[k]) - 1)
    BY <1>2, <1>4
  <2>1. /\ queue[i].offset <= at /\ at < EndOf(queue[i])
        /\ queue[k].offset <= at /\ at < EndOf(queue[k])
        /\ at \in Int
    BY <2>0
  <2>2. CASE i < k
    <3>1. EndOf(queue[i]) <= queue[k].offset
      BY <2>2, InOrder
    <3>. QED
      BY <2>0, <2>1, <3>1
  <2>3. CASE k < i
    <3>1. EndOf(queue[k]) <= queue[i].offset
      BY <2>3, InOrder
    <3>. QED
      BY <2>0, <2>1, <3>1
  <2>4. k \in Nat /\ i \in Nat
    OBVIOUS
  <2>. QED
    BY <2>2, <2>3, <2>4
<1>5. ASSUME NEW at \in Span(queue[i])
      PROVE  Max({k \in DOMAIN queue : at \in Span(queue[k])}) = i
  <2>1. {k \in DOMAIN queue : at \in Span(queue[k])} = {i}
    BY <1>4, <1>5
  <2>2. \E x \in {i} : \A y \in {i} : x >= y
    OBVIOUS
  <2>3. Max({i}) \in {i}
    BY <2>2, Zenon DEF Max
  <2>. QED
    BY <2>1, <2>3
<1>6. DOMAIN BytesWith(bytes, queue) \subseteq Int
  BY <1>3 DEF BytesWith
<1>7. ASSUME NEW at \in Span(queue[i])
      PROVE  /\ at \in DOMAIN BytesWith(bytes, queue)
             /\ BytesWith(bytes, queue)[at] = ByteOf(queue[i], at)
  <2>1. i \in {k \in DOMAIN queue : at \in Span(queue[k])}
    BY <1>7
  <2>. QED
    BY <1>5, <1>7, <2>1 DEF BytesWith
<1>. QED
  BY <1>6, <1>7

LEMMA QueueLies ==
  ASSUME NEW queue \in Seq(Memo), LaidOut(queue), NEW bytes, DOMAIN bytes \subseteq Int,
         NEW i \in 1..Len(queue), {queue[i].header, queue[i].text} \subseteq Encodable
  PROVE  Lies(BytesWith(bytes, queue), queue[i].offset, queue[i].header, queue[i].text)
<1>1. Exact(queue[i])
  BY MemoFields DEF Exact, LaidOut
<1>. QED
  BY <1>1, EachHasItsBytes, WrittenLies

\* What is read of a memo where it lies: its place, its lengths and strings that are
\* stored as its own are.
LEMMA MemoReadBack ==
  ASSUME NEW record, record.offset \in Int, NEW header \in Encodable,
         NEW text \in Encodable, NEW bytes, NEW cats,
         Lies(bytes, record.offset, header, text)
  PROVE  LET memo == MemoRead(record, bytes, cats) IN
         /\ memo.id = record.id /\ memo.offset = record.offset
         /\ memo.slot = record.slot /\ memo.asked = cats[record.slot].name
         /\ memo.header \in Encodable /\ memo.text \in Encodable
         /\ memo.hlen = Cp1251Len[memo.header] /\ memo.hlen = Cp1251Len[header]
         /\ memo.tlen = Cp1251Len[memo.text] /\ memo.tlen = Cp1251Len[text]
<1> DEFINE o == record.offset
           he == HeaderEnd(bytes, o)
           te == TextEnd(bytes, o)
           h == Cp1251Len[header]
           t == Cp1251Len[text]
<1>1. header \in Strings /\ text \in Strings
  BY StringsOK
<1>2. h \in Nat /\ t \in Nat
  BY <1>1, StringsOK
<1>3. /\ he = o + h /\ te = o + h + 1 + t
      /\ IsStored(header, bytes, o, he - 1)
      /\ IsStored(text, bytes, he + 1, te - 1)
  <2>1. o \in Int /\ Lies(bytes, o, header, text)
    OBVIOUS
  <2> HIDE DEF o
  <2>. QED
    BY <1>1, <2>1, ReadWhereItLies
<1>4. /\ StringAt(bytes, o, he - 1) \in Encodable
      /\ IsStored(StringAt(bytes, o, he - 1), bytes, o, he - 1)
      /\ StringAt(bytes, he + 1, te - 1) \in Encodable
      /\ IsStored(StringAt(bytes, he + 1, te - 1), bytes, he + 1, te - 1)
  <2>1. \E string \in Encodable : IsStored(string, bytes, o, he - 1)
    BY <1>3
  <2>2. \E string \in Encodable : IsStored(string, bytes, he + 1, te - 1)
    BY <1>3
  <2> HIDE DEF he, te, o
  <2>. QED
    BY <2>1, <2>2, Zenon DEF StringAt
<1>5. he - o = h /\ he - 1 - o + 1 = h /\ te - he - 1 = t /\ te - 1 - (he + 1) + 1 = t
  BY <1>2, <1>3
<1>6. /\ Cp1251Len[StringAt(bytes, o, he - 1)] = h
      /\ Cp1251Len[StringAt(bytes, he + 1, te - 1)] = t
  BY <1>4, <1>5 DEF IsStored
<1>7. MemoRead(record, bytes, cats) =
        [id |-> record.id, offset |-> o, slot |-> record.slot,
         header |-> StringAt(bytes, o, he - 1), text |-> StringAt(bytes, he + 1, te - 1),
         hlen |-> he - o, tlen |-> te - he - 1, asked |-> cats[record.slot].name]
  BY DEF MemoRead
<1>. QED
  BY <1>4, <1>5, <1>6, <1>7

LEMMA ListOfQueue ==
  ASSUME NEW queue \in Seq(Memo)
  PROVE  /\ ListOf(queue) \in Seq([id : Ids, offset : Int, slot : SlotIds])
         /\ Len(ListOf(queue)) = Len(queue)
         /\ DOMAIN ListOf(queue) = 1..Len(queue)
         /\ \A i \in 1..Len(queue) :
              /\ ListOf(queue)[i].id = queue[i].id
              /\ ListOf(queue)[i].offset = queue[i].offset
              /\ ListOf(queue)[i].slot = queue[i].slot
<1>1. ListOf(queue) = [i \in 1..Len(queue) |->
        [id |-> queue[i].id, offset |-> queue[i].offset, slot |-> queue[i].slot]]
  BY DEF ListOf
<1>2. \A i \in 1..Len(queue) : queue[i] \in Memo
  OBVIOUS
<1>3. \A i \in 1..Len(queue) :
        [id |-> queue[i].id, offset |-> queue[i].offset, slot |-> queue[i].slot]
          \in [id : Ids, offset : Int, slot : SlotIds]
  BY <1>2, MemoFields
<1>4. ListOf(queue) \in [1..Len(queue) -> [id : Ids, offset : Int, slot : SlotIds]]
  BY <1>1, <1>3
<1>. QED
  BY <1>1, <1>4, Len(queue) \in Nat

\* What memos that are laid out are saved as: they are read back with their ids, strings
\* and categories, and are laid out again.
LEMMA SavedIsRead ==
  ASSUME NEW queue \in Seq(Memo), Savable(queue), NEW bytes, DOMAIN bytes \subseteq Int,
         NEW cats
  PROVE  LET f == FileWith(queue, cats, BytesWith(bytes, queue)) IN
         /\ Holds(f, View(queue, CategoriesRead(cats)))
         /\ Savable(MemosRead(f))
         /\ DOMAIN f.bytes \subseteq Int
<1> DEFINE list == ListOf(queue)
           new == BytesWith(bytes, queue)
           f == FileWith(queue, cats, new)
           n == Len(queue)
           read == MemosRead(f)
<1>0. /\ LaidOut(queue)
      /\ \A i \in DOMAIN queue :
           {queue[i].header, queue[i].text} \subseteq Encodable /\ queue[i].id # 0
  BY DEF Savable
<1>1. f.list = list /\ f.bytes = new /\ f.slots = cats
  BY DEF FileWith
<1>2. /\ n \in Nat /\ DOMAIN list = 1..n /\ DOMAIN queue = 1..n
      /\ \A i \in 1..n : /\ list[i].id = queue[i].id
                         /\ list[i].offset = queue[i].offset
                         /\ list[i].slot = queue[i].slot
                         /\ queue[i] \in Memo
  BY ListOfQueue
<1>3. \A i \in 1..n : Lies(new, list[i].offset, queue[i].header, queue[i].text)
  BY <1>0, <1>2, QueueLies
<1>4. DOMAIN new \subseteq Int
  <2>1. CASE n = 0
    <3>1. DOMAIN queue = {}
      BY <1>2, <2>1
    <3>. QED
      BY <3>1 DEF BytesWith
  <2>2. CASE n # 0
    BY <1>0, <1>2, <2>2, 1 \in 1..n, EachHasItsBytes
  <2>. QED
    BY <2>1, <2>2
<1>5. ASSUME NEW i \in 1..n
      PROVE  /\ Readable(new, list[i].offset)
             /\ list[i].id # 0
             /\ IsStored(queue[i].header, new, list[i].offset,
                         HeaderEnd(new, list[i].offset) - 1)
             /\ IsStored(queue[i].text, new, HeaderEnd(new, list[i].offset) + 1,
                         TextEnd(new, list[i].offset) - 1)
  <2>1. list[i].offset \in Int /\ queue[i].header \in Strings /\ queue[i].text \in Strings
    BY <1>2, MemoFields
  <2>. QED
    BY <1>0, <1>2, <1>3, <2>1, ReadWhereItLies
<1> HIDE DEF list, new, f, n, read
<1>6. Holds(f, View(queue, CategoriesRead(cats)))
  <2> DEFINE view == View(queue, CategoriesRead(cats))
  <2>1. DOMAIN view = 1..n
    BY <1>2 DEF View
  <2>2. \A i \in 1..n : /\ view[i].id = queue[i].id
                        /\ view[i].header = queue[i].header
                        /\ view[i].text = queue[i].text
                        /\ view[i].category = CategoriesRead(cats)[queue[i].slot].name
    BY <1>2 DEF View
  <2>3. Located(f)
    BY <1>1, <1>2, <1>5 DEF Located
  <2> HIDE DEF view
  <2>4. Holds(f, view)
    BY <1>0, <1>1, <1>2, <1>5, <2>1, <2>2, <2>3 DEF Holds
  <2>. QED
    BY <2>4 DEF view
<1>7. /\ DOMAIN read = 1..n
      /\ \A i \in 1..n : read[i] = MemoRead(list[i], new, CategoriesRead(cats))
  BY <1>1, <1>2 DEF read, MemosRead
<1>8. \A i \in 1..n :
        /\ read[i].offset = queue[i].offset
        /\ read[i].hlen = Cp1251Len[read[i].header] /\ read[i].hlen = queue[i].hlen
        /\ read[i].tlen = Cp1251Len[read[i].text] /\ read[i].tlen = queue[i].tlen
        /\ {read[i].header, read[i].text} \subseteq Encodable /\ read[i].id # 0
  <2> TAKE i \in 1..n
  <2>1. /\ list[i].offset \in Int
        /\ queue[i].header \in Encodable /\ queue[i].text \in Encodable
        /\ Cp1251Len[queue[i].header] = queue[i].hlen
        /\ Cp1251Len[queue[i].text] = queue[i].tlen
    BY <1>0, <1>2, MemoFields DEF LaidOut
  <2>. QED
    BY <1>0, <1>2, <1>3, <1>7, <2>1, MemoReadBack
<1>9. Len(read) = n
  BY <1>2, <1>7 DEF read, MemosRead
<1>10. LaidOut(read)
  <2> SUFFICES ASSUME NEW i \in 1..n
               PROVE  read[i].offset = IF i = 1 THEN DataAt(n) ELSE EndOf(read[i - 1])
    BY <1>7, <1>8, <1>9 DEF LaidOut
  <2>1. queue[i].offset = IF i = 1 THEN DataAt(n) ELSE EndOf(queue[i - 1])
    BY <1>0, <1>2 DEF LaidOut, n
  <2>2. i # 1 => i - 1 \in 1..n
    BY <1>2
  <2>3. i # 1 => EndOf(read[i - 1]) = EndOf(queue[i - 1])
    BY <1>8, <2>2 DEF EndOf
  <2>. QED
    BY <1>8, <2>1, <2>3
<1>11. Savable(read)
  BY <1>7, <1>8, <1>10 DEF Savable
<1>. QED
  BY <1>1, <1>4, <1>6, <1>11 DEF f, new, read

-----------------------------------------------------------------------------
(* Categories *)

\* The category memos_memo_add() goes on with.
LEMMA FoundOrAddedType ==
  ASSUME slots \in [SlotIds -> Slot], NothingToPrune, NEW name \in Names,
         NEW found \in FoundOrAdded(name)
  PROVE  /\ found.id \in Nat
         /\ found.slots \in [SlotIds -> Slot]
         /\ CategoriesRead(found.slots) = found.slots
<1>1. CASE IdsOf(slots, name) # {}
  <2>1. found \in {[id |-> id, slots |-> slots] : id \in IdsOf(slots, name)}
    BY <1>1 DEF FoundOrAdded
  <2>. QED
    BY <2>1, IdsAreNumbers DEF NothingToPrune
<1>2. CASE IdsOf(slots, name) = {} /\ Free(slots) # {}
  <2>1. found = [id |-> FirstFree(slots), slots |-> CategoryAdd(slots, name)]
    BY <1>2 DEF FoundOrAdded
  <2>. QED
    BY <1>2, <2>1, FirstFreeIsFree, CategoryAddType, SlotNumbers DEF NothingToPrune
<1>3. CASE IdsOf(slots, name) = {} /\ Free(slots) = {}
  BY <1>3 DEF FoundOrAdded
<1>. QED
  BY <1>1, <1>2, <1>3

LEMMA CategoryAskedIsName ==
  ASSUME NEW category \in Names \cup {Keep}
  PROVE  CategoryAsked(category) \in Names
BY StringsOK DEF CategoryAsked

-----------------------------------------------------------------------------
(* Queues *)

LEMMA MovedMemo ==
  ASSUME NEW memo \in Memo, NEW by \in Int
  PROVE  /\ [memo EXCEPT !.offset = @ + by] \in Memo
         /\ [memo EXCEPT !.offset = @ + by].offset = memo.offset + by
<1>1. memo.offset + by \in Int
  BY MemoFields
<1>. QED
  BY <1>1 DEF Memo

\* Only the offset of a memo that is moved changes.
LEMMA MovedFields ==
  ASSUME NEW memo \in Memo, NEW by, NEW moved,
         moved = [memo EXCEPT !.offset = @ + by]
  PROVE  /\ moved.id = memo.id /\ moved.slot = memo.slot /\ moved.asked = memo.asked
         /\ moved.header = memo.header /\ moved.text = memo.text
         /\ moved.hlen = memo.hlen /\ moved.tlen = memo.tlen
BY DEF Memo

LEMMA ItemsMovedType ==
  ASSUME NEW queue \in Seq(Memo), NEW by \in Int
  PROVE  /\ ItemsMoved(queue, by) \in Seq(Memo)
         /\ Len(ItemsMoved(queue, by)) = Len(queue)
         /\ \A i \in 1..Len(queue) :
              /\ ItemsMoved(queue, by)[i] = [queue[i] EXCEPT !.offset = @ + by]
              /\ ItemsMoved(queue, by)[i].offset = queue[i].offset + by
<1>1. \A i \in 1..Len(queue) :
        /\ [queue[i] EXCEPT !.offset = @ + by] \in Memo
        /\ [queue[i] EXCEPT !.offset = @ + by].offset = queue[i].offset + by
  BY MovedMemo
<1>2. ItemsMoved(queue, by) =
        [i \in 1..Len(queue) |-> [queue[i] EXCEPT !.offset = @ + by]]
  BY DEF ItemsMoved
<1>3. ItemsMoved(queue, by) \in [1..Len(queue) -> Memo]
  BY <1>1, <1>2
<1>4. ItemsMoved(queue, by) \in Seq(Memo) /\ Len(ItemsMoved(queue, by)) = Len(queue)
  BY <1>3, Len(queue) \in Nat
<1>. QED
  BY <1>1, <1>2, <1>4

LEMMA MovedAfterType ==
  ASSUME memos \in Seq(Memo), NEW k \in 1..Len(memos), NEW by \in Int
  PROVE  /\ MovedAfter(k, by) \in Seq(Memo)
         /\ Len(MovedAfter(k, by)) = Len(memos)
         /\ \A i \in 1..Len(memos) :
              /\ i > k => /\ MovedAfter(k, by)[i] = [memos[i] EXCEPT !.offset = @ + by]
                          /\ MovedAfter(k, by)[i].offset = memos[i].offset + by
              /\ ~(i > k) => MovedAfter(k, by)[i] = memos[i]
<1>1. \A i \in 1..Len(memos) :
        /\ [memos[i] EXCEPT !.offset = @ + by] \in Memo
        /\ [memos[i] EXCEPT !.offset = @ + by].offset = memos[i].offset + by
  BY MovedMemo
<1>2. MovedAfter(k, by) =
        [i \in 1..Len(memos) |->
          IF i > k THEN [memos[i] EXCEPT !.offset = @ + by] ELSE memos[i]]
  BY DEF MovedAfter
<1>3. MovedAfter(k, by) \in [1..Len(memos) -> Memo]
  BY <1>1, <1>2
<1>. QED
  BY <1>1, <1>2, <1>3, Len(memos) \in Nat

-----------------------------------------------------------------------------
(* The invariant *)

LEMMA InitHolds == Init => IInv
<1> SUFFICES ASSUME Init PROVE IInv
  OBVIOUS
<1>1. /\ Initial \in Seq(Memo) /\ Savable(Initial)
      /\ Slots0 \in [SlotIds -> Slot]
  BY InitialOK
<1>2. /\ file = FileWith(Initial, Slots0, BytesWith(<<>>, Initial))
      /\ saved = View(Initial, CategoriesRead(Slots0))
  BY DEF Init
<1>3. DOMAIN <<>> \subseteq Int
  OBVIOUS
<1>4. Holds(file, saved) /\ Savable(MemosRead(file)) /\ DOMAIN file.bytes \subseteq Int
  BY <1>1, <1>2, <1>3, SavedIsRead
<1>5. FileTyped
  BY <1>1, <1>2, <1>4, ListOfQueue DEF FileTyped, FileWith
<1>6. AppInfoFollows
  <2>1. file.list = ListOf(Initial) /\ file.appInfo = AppInfoAt(Len(Initial))
    BY <1>2 DEF FileWith
  <2>. QED
    BY <1>1, <2>1, ListOfQueue DEF Init, AppInfoFollows
<1>7. slots \in [SlotIds -> Slot] /\ NothingToPrune
  <2>1. slots = [i \in SlotIds |-> EmptySlot]
    BY DEF Init
  <2>2. slots \in [SlotIds -> Slot] /\ ~Garbage(slots, LastSlot)
    BY <2>1, SlotNumbers, EmptySlotIsSlot DEF Garbage
  <2>. QED
    BY <2>2, PrunedFromTheEnd DEF NothingToPrune
<1>8. torn \in BOOLEAN /\ open \in BOOLEAN /\ exact \in BOOLEAN
  BY DEF Init
<1>9. memos \in Seq(Memo) /\ appInfo \in Nat /\ ops \in 0..MaxOps
  BY BoundsOK DEF Init
<1>10. MemosFollow
  BY DEF Init, MemosFollow
<1>. QED
  BY <1>4, <1>5, <1>6, <1>7, <1>8, <1>9, <1>10 DEF IInv, TypeOK, FileFollows

LEMMA StutterHolds == IInv /\ UNCHANGED vars => IInv'
<1> SUFFICES ASSUME IInv, UNCHANGED vars PROVE IInv'
  OBVIOUS
<1>1. UNCHANGED <<file, torn, saved, open, memos, appInfo, slots, exact, ops>>
  BY DEF vars
<1>2. TypeOK'
  BY <1>1 DEF IInv, TypeOK
<1>3. FileTyped' /\ AppInfoFollows' /\ NothingToPrune'
  BY <1>1 DEF IInv, FileTyped, AppInfoFollows, NothingToPrune
<1>4. MemosFollow' /\ FileFollows'
  BY <1>1 DEF IInv, MemosFollow, FileFollows
<1>. QED
  BY <1>2, <1>3, <1>4 DEF IInv

LEMMA AppInfoIsNat ==
  ASSUME NEW n \in Nat
  PROVE  AppInfoAt(n) \in Nat /\ AppInfoAt(n) = 80 + 8 * n /\ DataAt(n) = 362 + 8 * n
BY DEF AppInfoAt, DataAt, HeaderSize, ItemSize, PaddingSize, AppInfoSize, SixByteGap

\* What does not touch the file.
LEMMA DiskStays ==
  ASSUME IInv, UNCHANGED disk, exact' => exact
  PROVE  FileTyped' /\ FileFollows' /\ file'.appInfo = AppInfoAt(Len(file'.list))
         /\ torn' \in BOOLEAN
<1>1. UNCHANGED <<file, torn, saved>>
  BY DEF disk
<1>2. FileTyped'
  BY <1>1 DEF IInv, FileTyped
<1>3. FileFollows'
  BY <1>1 DEF IInv, FileFollows
<1>. QED
  BY <1>1, <1>2, <1>3 DEF IInv, AppInfoFollows, TypeOK

LEMMA OperationCounts ==
  ASSUME TypeOK, Operation PROVE ops' \in 0..MaxOps
BY BoundsOK DEF TypeOK, Operation

LEMMA ForgottenHolds ==
  ASSUME IInv, Forgotten, UNCHANGED <<disk, exact>>, ops' \in 0..MaxOps
  PROVE  IInv'
<1>1. slots' \in [SlotIds -> Slot] /\ NothingToPrune'
  <2>1. slots' = [i \in SlotIds |-> EmptySlot]
    BY DEF Forgotten
  <2>2. slots' \in [SlotIds -> Slot] /\ ~Garbage(slots', LastSlot)
    BY <2>1, SlotNumbers, EmptySlotIsSlot DEF Garbage
  <2>. QED
    BY <2>2, PrunedFromTheEnd DEF NothingToPrune
<1>2. open' = FALSE /\ memos' = <<>> /\ appInfo' = 0
  BY DEF Forgotten
<1>3. open' \in BOOLEAN /\ exact' \in BOOLEAN
  BY <1>2 DEF IInv, TypeOK
<1>. QED
  BY <1>1, <1>2, <1>3, DiskStays DEF IInv, TypeOK, AppInfoFollows, MemosFollow

LEMMA OpenHolds ==
  ASSUME IInv, Open
  PROVE  IInv'
<1> DEFINE list == file.list
           read == MemosRead(file)
           cats == CategoriesRead(file.slots)
           n == Len(list)
<1>1. /\ ~torn /\ exact /\ open' = TRUE /\ memos' = read
      /\ appInfo' = file.appInfo /\ slots' = cats
      /\ UNCHANGED <<file, torn, saved, exact, ops>>
  BY DEF Open, disk
<1>2. LaidOut(read) /\ \A i \in DOMAIN read : {read[i].header, read[i].text} \subseteq Encodable
  BY <1>1 DEF IInv, FileFollows, Savable
<1>3. /\ list \in Seq([id : Ids, offset : Int, slot : SlotIds]) /\ n \in Nat
      /\ DOMAIN list = 1..n
      /\ cats \in [SlotIds -> Slot]
  BY CategoriesReadType DEF IInv, FileTyped
<1>4. /\ DOMAIN read = 1..n
      /\ \A i \in 1..n : read[i] = MemoRead(list[i], file.bytes, cats)
  BY <1>3 DEF MemosRead
<1>5. \A i \in 1..n : read[i] \in Memo
  <2> TAKE i \in 1..n
  <2>1. list[i].id \in Ids /\ list[i].offset \in Int /\ list[i].slot \in SlotIds
    <3>1. list[i] \in [id : Ids, offset : Int, slot : SlotIds]
      BY <1>3, ElementOfSeq
    <3> HIDE DEF list
    <3>. QED
      BY <3>1
  <2>2. cats[list[i].slot].name \in Names \cup {NoName}
    BY <1>3, <2>1 DEF Slot
  <2>3. /\ read[i].header \in Strings /\ read[i].text \in Strings
        /\ read[i].hlen = Cp1251Len[read[i].header]
        /\ read[i].tlen = Cp1251Len[read[i].text]
    BY <1>2, <1>4, StringsOK DEF LaidOut
  <2>4. read[i].hlen \in Nat /\ read[i].tlen \in Nat
    BY <2>3, StringsOK
  <2>5. read[i] =
          [id |-> list[i].id, offset |-> list[i].offset, slot |-> list[i].slot,
           header |-> read[i].header, text |-> read[i].text,
           hlen |-> read[i].hlen, tlen |-> read[i].tlen,
           asked |-> cats[list[i].slot].name]
    <3> DEFINE o == list[i].offset
               he == HeaderEnd(file.bytes, o)
               te == TextEnd(file.bytes, o)
    <3>1. MemoRead(list[i], file.bytes, cats) =
            [id |-> list[i].id, offset |-> o, slot |-> list[i].slot,
             header |-> StringAt(file.bytes, o, he - 1),
             text |-> StringAt(file.bytes, he + 1, te - 1),
             hlen |-> he - o, tlen |-> te - he - 1, asked |-> cats[list[i].slot].name]
      BY DEF MemoRead
    <3>2. read[i] = MemoRead(list[i], file.bytes, cats)
      BY <1>4
    <3> HIDE DEF list, read, cats, n, o, he, te
    <3>. QED
      BY <3>1, <3>2 DEF o
  <2> HIDE DEF list, read, cats, n
  <2>. QED
    BY <2>1, <2>2, <2>3, <2>4, <2>5 DEF Memo
<1>6. read \in [1..n -> Memo]
  BY <1>4, <1>5 DEF MemosRead
<1>7. read \in Seq(Memo) /\ Len(read) = n
  BY <1>3, <1>6
<1>8. exact' \in BOOLEAN /\ torn' \in BOOLEAN /\ open' \in BOOLEAN
  BY <1>1 DEF IInv, TypeOK
<1>9. appInfo' \in Nat /\ appInfo' = AppInfoAt(n)
  <2>1. appInfo' = AppInfoAt(n)
    BY <1>1 DEF IInv, AppInfoFollows
  <2> HIDE DEF n
  <2>2. AppInfoAt(n) \in Nat
    BY <1>3, AppInfoIsNat
  <2>. QED
    BY <2>1, <2>2
<1>10. TypeOK'
  BY <1>1, <1>3, <1>7, <1>8, <1>9 DEF IInv, TypeOK
<1>11. FileTyped' /\ FileFollows'
  BY <1>1 DEF IInv, FileTyped, FileFollows
<1>12. AppInfoFollows'
  BY <1>1, <1>7, <1>9 DEF IInv, AppInfoFollows
<1>13. NothingToPrune'
  <2>1. file.slots \in [SlotIds -> Slot]
    BY DEF IInv, FileTyped
  <2>. QED
    BY <1>1, <2>1, ReadOnce DEF NothingToPrune
<1>14. MemosFollow'
  BY <1>1 DEF IInv, FileFollows, MemosFollow
<1>. QED
  BY <1>10, <1>11, <1>12, <1>13, <1>14 DEF IInv

LEMMA CloseHolds ==
  ASSUME IInv, Close
  PROVE  IInv'
BY ForgottenHolds DEF Close, IInv, TypeOK

LEMMA MemoAddHolds ==
  ASSUME IInv, NEW header \in NewHeaders, NEW text \in NewTexts,
         NEW category \in Names \cup {Keep}, MemoAdd(header, text, category)
  PROVE  IInv'
<1> DEFINE n == Len(memos)
           moved == ItemsMoved(memos, ItemSize)
<1>1. PICK found \in FoundOrAdded(CategoryAsked(category)),
           id \in Ids \ {memos[i].id : i \in DOMAIN memos} :
        /\ slots' = found.slots
        /\ memos' = Append(moved,
             [id |-> id, offset |-> OffsetBeyond(Last(memos)), slot |-> found.id % Slots,
              header |-> header, text |-> text,
              hlen |-> Cp1251Len[header], tlen |-> Cp1251Len[text],
              asked |-> Stored[CategoryAsked(category)]])
        /\ exact' = (exact /\ id # 0)
  BY DEF MemoAdd
<1> DEFINE new ==
             [id |-> id, offset |-> OffsetBeyond(Last(memos)), slot |-> found.id % Slots,
              header |-> header, text |-> text,
              hlen |-> Cp1251Len[header], tlen |-> Cp1251Len[text],
              asked |-> Stored[CategoryAsked(category)]]
<1>2. /\ open /\ open' = open /\ UNCHANGED disk
      /\ memos # <<>> /\ {header, text} \subseteq Encodable
      /\ appInfo' = appInfo + ItemSize
      /\ Operation
  BY DEF MemoAdd, AppInfoWithOneMore
<1>3. /\ memos \in Seq(Memo) /\ n \in Nat /\ n >= 1 /\ n \in 1..n
      /\ DOMAIN memos = 1..n /\ \A i \in 1..n : memos[i] \in Memo
      /\ slots \in [SlotIds -> Slot] /\ appInfo = AppInfoAt(n)
  BY <1>2 DEF IInv, TypeOK, AppInfoFollows
<1>4. CategoryAsked(category) \in Names
  BY CategoryAskedIsName
<1>5. /\ found.id \in Nat /\ found.slots \in [SlotIds -> Slot]
      /\ CategoriesRead(found.slots) = found.slots
  BY <1>3, <1>4, FoundOrAddedType DEF IInv
<1>6. Last(memos) = memos[n] /\ OffsetBeyond(Last(memos)) = EndOf(memos[n]) + ItemSize
  BY DEF Last, OffsetBeyond, EndOf
<1>7. new \in Memo
  <2>1. id \in Ids /\ EndOf(memos[n]) + ItemSize \in Int
    BY <1>3, MemoFields DEF ItemSize
  <2>2. found.id % Slots \in SlotIds
    BY <1>5, SlotNumbers
  <2>3. /\ header \in Strings /\ text \in Strings
        /\ Cp1251Len[header] \in Nat /\ Cp1251Len[text] \in Nat
        /\ Stored[CategoryAsked(category)] \in Names
    BY <1>2, <1>4, StringsOK, TruncationOK
  <2>. QED
    BY <1>6, <2>1, <2>2, <2>3 DEF Memo
<1>8. /\ moved \in Seq(Memo) /\ Len(moved) = n
      /\ \A i \in 1..n : /\ moved[i] = [memos[i] EXCEPT !.offset = @ + ItemSize]
                         /\ moved[i].offset = memos[i].offset + ItemSize
  BY <1>3, ItemsMovedType DEF ItemSize
<1>9. /\ memos' \in Seq(Memo) /\ Len(memos') = n + 1 /\ DOMAIN memos' = 1..(n + 1)
      /\ memos'[n + 1] = new
      /\ \A i \in 1..n : memos'[i] = moved[i]
  BY <1>1, <1>7, <1>8, AppendProperties, LenProperties
<1> HIDE DEF n, moved
<1>10. \A i \in 1..n :
         /\ memos'[i].offset = memos[i].offset + ItemSize
         /\ memos'[i].hlen = memos[i].hlen /\ memos'[i].tlen = memos[i].tlen
         /\ memos'[i].header = memos[i].header /\ memos'[i].text = memos[i].text
         /\ memos'[i].id = memos[i].id
  <2> TAKE i \in 1..n
  <2>1. /\ memos[i] \in Memo /\ memos'[i] = [memos[i] EXCEPT !.offset = @ + ItemSize]
        /\ memos'[i].offset = memos[i].offset + ItemSize
    BY <1>3, <1>8, <1>9
  <2>. QED
    BY <2>1, MovedFields
<1>11. \A i \in 1..n : EndOf(memos'[i]) = EndOf(memos[i]) + ItemSize
  <2> TAKE i \in 1..n
  <2>1. memos[i].offset \in Int /\ memos[i].hlen \in Nat /\ memos[i].tlen \in Nat
    BY <1>3, MemoFields
  <2>. QED
    BY <1>10, <2>1 DEF EndOf, Size, ItemSize
<1>12. AppInfoAt(n + 1) = appInfo + ItemSize /\ AppInfoAt(n + 1) \in Nat
       /\ DataAt(n + 1) = DataAt(n) + ItemSize
  <2>1. /\ n + 1 \in Nat
        /\ AppInfoAt(n) = 80 + 8 * n /\ DataAt(n) = 362 + 8 * n
    BY <1>3, AppInfoIsNat
  <2>2. /\ AppInfoAt(n + 1) \in Nat /\ AppInfoAt(n + 1) = 80 + 8 * (n + 1)
        /\ DataAt(n + 1) = 362 + 8 * (n + 1)
    BY <2>1, AppInfoIsNat
  <2>. QED
    BY <1>3, <2>1, <2>2 DEF ItemSize
<1>13. exact' \in BOOLEAN /\ open' \in BOOLEAN /\ (exact' => exact)
  BY <1>1, <1>2 DEF IInv, TypeOK
<1>14. FileTyped' /\ FileFollows' /\ file'.appInfo = AppInfoAt(Len(file'.list))
       /\ torn' \in BOOLEAN
  BY <1>2, <1>13, DiskStays
<1>15. TypeOK'
  BY <1>1, <1>2, <1>5, <1>9, <1>12, <1>13, <1>14, OperationCounts DEF IInv, TypeOK
<1>16. MemosFollow'
  <2> SUFFICES ASSUME exact' PROVE Savable(memos)'
    BY DEF MemosFollow
  <2>1. LaidOut(memos) /\ id # 0
        /\ \A i \in 1..n :
             {memos[i].header, memos[i].text} \subseteq Encodable /\ memos[i].id # 0
    BY <1>1, <1>2, <1>3 DEF IInv, MemosFollow, Savable
  <2>2. ASSUME NEW i \in 1..n
        PROVE  /\ memos'[i].hlen = Cp1251Len[memos'[i].header]
               /\ memos'[i].tlen = Cp1251Len[memos'[i].text]
               /\ memos'[i].offset = IF i = 1 THEN DataAt(n + 1) ELSE EndOf(memos'[i - 1])
    <3>1. i # 1 => i - 1 \in 1..n
      BY <1>3
    <3>2. memos[i].offset = IF i = 1 THEN DataAt(n) ELSE EndOf(memos[i - 1])
      BY <1>3, <2>1 DEF LaidOut, n
    <3>3. /\ memos[i].hlen = Cp1251Len[memos[i].header]
          /\ memos[i].tlen = Cp1251Len[memos[i].text]
      BY <1>3, <2>1 DEF LaidOut
    <3>. QED
      BY <1>10, <1>11, <1>12, <3>1, <3>2, <3>3
  <2>3. /\ new.hlen = Cp1251Len[new.header] /\ new.tlen = Cp1251Len[new.text]
        /\ new.offset = EndOf(memos'[n])
        /\ {new.header, new.text} \subseteq Encodable /\ new.id # 0
    BY <1>2, <1>3, <1>6, <1>11, <2>1
  <2>4. \A i \in 1..(n + 1) : i \in 1..n \/ (i = n + 1 /\ i # 1 /\ i - 1 = n)
    BY <1>3
  <2> HIDE DEF new
  <2>5. LaidOut(memos')
    BY <1>9, <2>2, <2>3, <2>4 DEF LaidOut
  <2>6. \A i \in 1..(n + 1) :
          {memos'[i].header, memos'[i].text} \subseteq Encodable /\ memos'[i].id # 0
    BY <1>9, <1>10, <2>1, <2>3, <2>4
  <2>. QED
    BY <1>9, <2>5, <2>6 DEF Savable
<1>17. NothingToPrune'
  BY <1>1, <1>5 DEF NothingToPrune
<1>18. AppInfoFollows'
  BY <1>2, <1>9, <1>12, <1>14 DEF AppInfoFollows
<1>. QED
  BY <1>14, <1>15, <1>16, <1>17, <1>18 DEF IInv

LEMMA MemoAddFailsHolds ==
  ASSUME IInv, NEW header \in NewHeaders, NEW text \in NewTexts,
         NEW category \in Names \cup {Keep}, MemoAddFails(header, text, category)
  PROVE  IInv'
<1>1. slots' \in [SlotIds -> Slot] /\ CategoriesRead(slots') = slots'
  <2>1. slots \in [SlotIds -> Slot] /\ CategoriesRead(slots) = slots
    BY DEF IInv, TypeOK, NothingToPrune
  <2>2. slots' = slots \/ \E found \in FoundOrAdded(CategoryAsked(category)) :
                             slots' = found.slots
    BY DEF MemoAddFails
  <2>. QED
    BY <2>1, <2>2, CategoryAskedIsName, FoundOrAddedType DEF IInv
<1>2. /\ UNCHANGED <<open, memos, appInfo, exact>> /\ UNCHANGED disk /\ Operation
  BY DEF MemoAddFails
<1>. QED
  BY <1>1, <1>2, DiskStays, OperationCounts
     DEF IInv, TypeOK, AppInfoFollows, NothingToPrune, MemosFollow

LEMMA MemoEditFailsHolds ==
  ASSUME IInv, NEW category, MemoEditFails(category)
  PROVE  IInv'
<1>1. /\ UNCHANGED <<open, memos, appInfo, slots, exact>> /\ UNCHANGED disk /\ Operation
  BY DEF MemoEditFails, memory
<1>. QED
  BY <1>1, DiskStays, OperationCounts
     DEF IInv, TypeOK, AppInfoFollows, NothingToPrune, MemosFollow

LEMMA MemoEditCrashesHolds ==
  ASSUME IInv, NEW k, NEW header, NEW text, NEW category,
         MemoEditCrashes(k, header, text, category)
  PROVE  IInv'
BY ForgottenHolds, OperationCounts DEF MemoEditCrashes, IInv

LEMMA MemoEditHolds ==
  ASSUME IInv, NEW k \in DOMAIN memos, NEW header \in NewHeaders \cup {Keep},
         NEW text \in NewTexts \cup {Keep}, NEW category \in Names \cup {Keep},
         MemoEdit(k, header, text, category)
  PROVE  IInv'
<1> DEFINE n == Len(memos)
           by == Growth(header, memos[k].hlen) + Growth(text, memos[k].tlen)
           moved == MovedAfter(k, by)
<1>1. /\ open /\ open' = open /\ UNCHANGED <<appInfo, slots>> /\ UNCHANGED disk
      /\ {header, text} \subseteq Encodable \cup {Keep} /\ Operation
      /\ exact' = (exact /\ Growth(header, memos[k].hlen) = 0
                         /\ Growth(text, memos[k].tlen) = 0)
  BY DEF MemoEdit
<1>2. PICK categoryId \in IF category = Keep THEN {memos[k].slot}
                          ELSE IdsOf(slots, category) :
        memos' = [moved EXCEPT
           ![k].header = Instead(header, @), ![k].text = Instead(text, @),
           ![k].slot = categoryId % Slots,
           ![k].asked = IF category = Keep THEN @ ELSE category]
  BY DEF MemoEdit
<1>3. /\ memos \in Seq(Memo) /\ n \in Nat /\ k \in 1..n
      /\ DOMAIN memos = 1..n /\ \A i \in 1..n : memos[i] \in Memo
      /\ slots \in [SlotIds -> Slot] /\ CategoriesRead(slots) = slots
      /\ appInfo = AppInfoAt(n)
  BY <1>1 DEF IInv, TypeOK, AppInfoFollows, NothingToPrune
<1>4. memos[k].hlen \in Nat /\ memos[k].tlen \in Nat /\ memos[k].slot \in SlotIds
  BY <1>3, MemoFields
<1>5. by \in Int
  <2>1. ASSUME NEW new \in NewHeaders \cup NewTexts \cup {Keep}, NEW len \in Nat
        PROVE  Growth(new, len) \in Int
    BY StringsOK DEF Growth
  <2>. QED
    BY <1>4, <2>1
<1>6. /\ moved \in Seq(Memo) /\ Len(moved) = n /\ DOMAIN moved = 1..n
      /\ moved[k] = memos[k] /\ \A i \in 1..n : moved[i] \in Memo
      /\ \A i \in 1..n :
           /\ i > k => /\ moved[i] = [memos[i] EXCEPT !.offset = @ + by]
                       /\ moved[i].offset = memos[i].offset + by
           /\ ~(i > k) => moved[i] = memos[i]
  <2> HIDE DEF by
  <2>1. /\ moved \in Seq(Memo) /\ Len(moved) = n
        /\ \A i \in 1..n :
             /\ i > k => /\ moved[i] = [memos[i] EXCEPT !.offset = @ + by]
                         /\ moved[i].offset = memos[i].offset + by
             /\ ~(i > k) => moved[i] = memos[i]
    BY <1>3, <1>5, MovedAfterType
  <2>2. ~(k > k)
    BY <1>3
  <2> HIDE DEF moved
  <2>3. DOMAIN moved = 1..n /\ \A i \in 1..n : moved[i] \in Memo
    BY <2>1, LenProperties, ElementOfSeq
  <2>. QED
    BY <1>3, <2>1, <2>2, <2>3
<1>7. categoryId % Slots \in SlotIds
  <2>1. categoryId \in Nat
    BY <1>3, <1>4, IdsAreNumbers, SlotNumbers
  <2>. QED
    BY <2>1, SlotNumbers
<1> DEFINE edited == [memos[k] EXCEPT
             !.header = Instead(header, @), !.text = Instead(text, @),
             !.slot = categoryId % Slots,
             !.asked = IF category = Keep THEN @ ELSE category]
<1>8. /\ DOMAIN memos' = 1..n /\ memos'[k] = edited
      /\ \A i \in 1..n : i # k => memos'[i] = moved[i]
  BY <1>2, <1>3, <1>6 DEF Memo
<1>9. /\ edited \in Memo
      /\ edited.id = memos[k].id /\ edited.offset = memos[k].offset
      /\ edited.header = Instead(header, memos[k].header)
      /\ edited.text = Instead(text, memos[k].text)
      /\ edited.hlen = memos[k].hlen /\ edited.tlen = memos[k].tlen
  <2>1. Instead(header, memos[k].header) \in Strings /\ Instead(text, memos[k].text) \in Strings
    BY <1>3, StringsOK, MemoFields DEF Instead
  <2>2. (IF category = Keep THEN memos[k].asked ELSE category) \in Names \cup {NoName}
    BY <1>3, MemoFields
  <2>3. memos[k] \in Memo
    BY <1>3
  <2>. QED
    BY <1>7, <2>1, <2>2, <2>3 DEF Memo
<1> HIDE DEF n, by, moved, edited
<1>10. memos' \in Seq(Memo) /\ Len(memos') = n
  <2>1. \A i \in 1..n : memos'[i] \in Memo
    BY <1>6, <1>8, <1>9
  <2>2. memos' \in [1..n -> Memo]
    BY <1>2, <1>6, <1>8, <2>1
  <2>. QED
    BY <1>3, <2>2
<1>11. exact' \in BOOLEAN /\ open' \in BOOLEAN /\ (exact' => exact)
  BY <1>1 DEF IInv, TypeOK
<1>12. FileTyped' /\ FileFollows' /\ file'.appInfo = AppInfoAt(Len(file'.list))
       /\ torn' \in BOOLEAN
  BY <1>1, <1>11, DiskStays
<1>13. TypeOK'
  BY <1>1, <1>3, <1>10, <1>11, <1>12, OperationCounts DEF IInv, TypeOK
<1>14. AppInfoFollows' /\ NothingToPrune'
  BY <1>1, <1>3, <1>10, <1>12 DEF AppInfoFollows, NothingToPrune
<1>15. MemosFollow'
  <2> SUFFICES ASSUME exact' PROVE Savable(memos)'
    BY DEF MemosFollow
  <2>1. /\ LaidOut(memos)
        /\ \A i \in 1..n :
             {memos[i].header, memos[i].text} \subseteq Encodable /\ memos[i].id # 0
    BY <1>1, <1>3 DEF IInv, MemosFollow, Savable
  <2>2. /\ Growth(header, memos[k].hlen) = 0 /\ Growth(text, memos[k].tlen) = 0
        /\ by = 0
    <3>1. Growth(header, memos[k].hlen) = 0 /\ Growth(text, memos[k].tlen) = 0
      BY <1>1
    <3>. QED
      BY <3>1 DEF by
  <2>3. ASSUME NEW i \in 1..n, i # k
        PROVE  /\ memos'[i].offset = memos[i].offset
               /\ memos'[i].hlen = memos[i].hlen /\ memos'[i].tlen = memos[i].tlen
               /\ memos'[i].header = memos[i].header /\ memos'[i].text = memos[i].text
               /\ memos'[i].id = memos[i].id
    <3>1. memos'[i] = moved[i] /\ memos[i] \in Memo /\ memos[i].offset \in Int
      BY <1>3, <1>8, <2>3, MemoFields
    <3>2. CASE i > k
      <4>1. /\ memos'[i] = [memos[i] EXCEPT !.offset = @ + by]
            /\ memos'[i].offset = memos[i].offset
        BY <1>6, <2>2, <3>1, <3>2
      <4>. QED
        BY <3>1, <4>1, MovedFields
    <3>3. CASE ~(i > k)
      BY <1>6, <3>1, <3>3
    <3>. QED
      BY <3>2, <3>3
  <2>4. /\ memos[k].hlen = Cp1251Len[memos[k].header]
        /\ memos[k].tlen = Cp1251Len[memos[k].text]
    BY <1>3, <2>1 DEF LaidOut
  <2>5. /\ Cp1251Len[edited.header] = edited.hlen /\ Cp1251Len[edited.text] = edited.tlen
        /\ {edited.header, edited.text} \subseteq Encodable /\ edited.id # 0
    <3>1. header = Keep \/ (header \in Encodable /\ Cp1251Len[header] = memos[k].hlen)
      BY <1>1, <1>4, <2>2, StringsOK DEF Growth
    <3>2. text = Keep \/ (text \in Encodable /\ Cp1251Len[text] = memos[k].tlen)
      BY <1>1, <1>4, <2>2, StringsOK DEF Growth
    <3>. QED
      BY <1>3, <1>9, <2>1, <2>4, <3>1, <3>2 DEF Instead
  <2>6. \A i \in 1..n : memos'[i].offset = memos[i].offset /\ EndOf(memos'[i]) = EndOf(memos[i])
    BY <1>8, <1>9, <2>3 DEF EndOf
  <2>7. LaidOut(memos')
    <3> SUFFICES ASSUME NEW i \in 1..n
                 PROVE  /\ memos'[i].hlen = Cp1251Len[memos'[i].header]
                        /\ memos'[i].tlen = Cp1251Len[memos'[i].text]
                        /\ memos'[i].offset =
                             IF i = 1 THEN DataAt(n) ELSE EndOf(memos'[i - 1])
      BY <1>8, <1>10 DEF LaidOut
    <3>1. i # 1 => i - 1 \in 1..n
      BY <1>3
    <3>2. memos[i].offset = IF i = 1 THEN DataAt(n) ELSE EndOf(memos[i - 1])
      BY <1>3, <2>1 DEF LaidOut, n
    <3>3. /\ memos[i].hlen = Cp1251Len[memos[i].header]
          /\ memos[i].tlen = Cp1251Len[memos[i].text]
      BY <1>3, <2>1 DEF LaidOut
    <3>. QED
      BY <1>8, <2>3, <2>5, <2>6, <3>1, <3>2, <3>3
  <2>8. \A i \in 1..n :
          {memos'[i].header, memos'[i].text} \subseteq Encodable /\ memos'[i].id # 0
    BY <1>8, <2>1, <2>3, <2>5
  <2>. QED
    BY <1>8, <2>7, <2>8 DEF Savable
<1>. QED
  BY <1>12, <1>13, <1>14, <1>15 DEF IInv

LEMMA MemoDeleteHolds ==
  ASSUME IInv, NEW k \in DOMAIN memos, MemoDelete(k)
  PROVE  IInv'
<1> DEFINE n == Len(memos)
           size == SizeInMemory(memos[k])
           moved == MovedAfter(k, -size)
           fewer == RemoveAt(moved, k)
           from(i) == IF i < k THEN i ELSE i + 1
<1>1. /\ open /\ open' = open /\ UNCHANGED slots /\ UNCHANGED disk /\ Operation
      /\ appInfo' = appInfo - ItemSize
      /\ memos' = ItemsMoved(fewer, -ItemSize)
      /\ exact' = (exact /\ (k < n => size = Size(memos[k].hlen, memos[k].tlen)))
  BY DEF MemoDelete, AppInfoWithOneLess
<1>2. /\ memos \in Seq(Memo) /\ n \in Nat /\ k \in 1..n
      /\ DOMAIN memos = 1..n /\ \A i \in 1..n : memos[i] \in Memo
      /\ slots \in [SlotIds -> Slot] /\ CategoriesRead(slots) = slots
      /\ appInfo = AppInfoAt(n)
  BY <1>1 DEF IInv, TypeOK, AppInfoFollows, NothingToPrune
<1>3. size \in Nat
  <2>1. memos[k].header \in Strings /\ memos[k].text \in Strings
    BY <1>2, MemoFields
  <2>2. Utf8Len[memos[k].header] \in Nat /\ Utf8Len[memos[k].text] \in Nat
    BY <2>1, StringsOK
  <2>. QED
    BY <2>2 DEF SizeInMemory, Size
<1>4. /\ moved \in Seq(Memo) /\ Len(moved) = n
      /\ \A i \in 1..n :
           /\ i > k => /\ moved[i] = [memos[i] EXCEPT !.offset = @ + (-size)]
                       /\ moved[i].offset = memos[i].offset + (-size)
           /\ ~(i > k) => moved[i] = memos[i]
  <2> HIDE DEF size
  <2>1. -size \in Int
    BY <1>3
  <2>. QED
    BY <1>2, <2>1, MovedAfterType
<1> HIDE DEF size
<1>5. /\ fewer \in Seq(Memo) /\ Len(fewer) = n - 1
      /\ \A i \in 1..(n - 1) : fewer[i] = moved[from(i)]
  <2> HIDE DEF moved
  <2>1. k \in 1..Len(moved)
    BY <1>2, <1>4
  <2>2. /\ RemoveAt(moved, k) \in Seq(Memo)
        /\ Len(RemoveAt(moved, k)) = Len(moved) - 1
        /\ \A i \in 1..(Len(moved) - 1) :
             RemoveAt(moved, k)[i] = IF i < k THEN moved[i] ELSE moved[i + 1]
    BY <1>4, <2>1, RemoveAtType
  <2>. QED
    BY <1>4, <2>2
<1>6. /\ memos' \in Seq(Memo) /\ Len(memos') = n - 1 /\ DOMAIN memos' = 1..(n - 1)
      /\ \A i \in 1..(n - 1) :
           /\ memos'[i] = [fewer[i] EXCEPT !.offset = @ + (-ItemSize)]
           /\ memos'[i].offset = fewer[i].offset + (-ItemSize)
  <2> HIDE DEF fewer
  <2>1. -ItemSize \in Int
    BY DEF ItemSize
  <2> DEFINE by == -ItemSize
             items == ItemsMoved(fewer, by)
  <2>2. by \in Int /\ fewer \in Seq(Memo)
    BY <1>5, <2>1
  <2> HIDE DEF by
  <2>3. /\ items \in Seq(Memo) /\ Len(items) = Len(fewer)
        /\ \A i \in 1..Len(fewer) :
             /\ items[i] = [fewer[i] EXCEPT !.offset = @ + by]
             /\ items[i].offset = fewer[i].offset + by
    BY <2>2, ItemsMovedType
  <2> HIDE DEF items
  <2>4. memos' = items
    BY <1>1 DEF items, by
  <2>. QED
    BY <1>5, <2>3, <2>4, LenProperties DEF by
<1> HIDE DEF n, moved, fewer
<1>7. ASSUME NEW i \in 1..(n - 1)
      PROVE  /\ from(i) \in 1..n
             /\ memos'[i].hlen = memos[from(i)].hlen /\ memos'[i].tlen = memos[from(i)].tlen
             /\ memos'[i].header = memos[from(i)].header
             /\ memos'[i].text = memos[from(i)].text
             /\ memos'[i].id = memos[from(i)].id
             /\ i < k => memos'[i].offset = memos[i].offset - ItemSize
             /\ ~(i < k) => memos'[i].offset = memos[i + 1].offset - size - ItemSize
  <2>1. from(i) \in 1..n /\ (i < k => ~(from(i) > k)) /\ (~(i < k) => from(i) > k)
    BY <1>2
  <2>2. /\ memos[from(i)] \in Memo /\ moved[from(i)] \in Memo
        /\ memos[from(i)].offset \in Int
    BY <1>2, <1>4, <2>1, MemoFields, ElementOfSeq
  <2>3. /\ memos'[i] = [moved[from(i)] EXCEPT !.offset = @ + (-ItemSize)]
        /\ memos'[i].offset = moved[from(i)].offset + (-ItemSize)
    BY <1>5, <1>6
  <2>4. /\ memos'[i].hlen = moved[from(i)].hlen /\ memos'[i].tlen = moved[from(i)].tlen
        /\ memos'[i].header = moved[from(i)].header /\ memos'[i].text = moved[from(i)].text
        /\ memos'[i].id = moved[from(i)].id
    BY <2>2, <2>3, MovedFields
  <2>5. CASE i < k
    <3>1. moved[from(i)] = memos[from(i)] /\ from(i) = i
      BY <1>4, <2>1, <2>5
    <3>. QED
      BY <2>1, <2>2, <2>3, <2>4, <2>5, <3>1 DEF ItemSize
  <2>6. CASE ~(i < k)
    <3>1. /\ moved[from(i)] = [memos[from(i)] EXCEPT !.offset = @ + (-size)]
          /\ moved[from(i)].offset = memos[from(i)].offset + (-size)
          /\ from(i) = i + 1
      BY <1>4, <2>1, <2>6
    <3>2. /\ moved[from(i)].hlen = memos[from(i)].hlen
          /\ moved[from(i)].tlen = memos[from(i)].tlen
          /\ moved[from(i)].header = memos[from(i)].header
          /\ moved[from(i)].text = memos[from(i)].text
          /\ moved[from(i)].id = memos[from(i)].id
      BY <2>2, <3>1, MovedFields
    <3>3. memos'[i].offset = memos[i + 1].offset - size - ItemSize
      BY <1>3, <2>2, <2>3, <3>1 DEF ItemSize
    <3>. QED
      BY <2>1, <2>4, <2>6, <3>2, <3>3
  <2>. QED
    BY <2>5, <2>6
<1>8. /\ n - 1 \in Nat /\ AppInfoAt(n - 1) = appInfo - ItemSize
      /\ AppInfoAt(n - 1) \in Nat /\ DataAt(n - 1) = DataAt(n) - ItemSize
      /\ DataAt(n) \in Int
  <2>1. n - 1 \in Nat
    BY <1>2
  <2>2. /\ AppInfoAt(n) = 80 + 8 * n /\ DataAt(n) = 362 + 8 * n
    BY <1>2, AppInfoIsNat
  <2>3. /\ AppInfoAt(n - 1) \in Nat /\ AppInfoAt(n - 1) = 80 + 8 * (n - 1)
        /\ DataAt(n - 1) = 362 + 8 * (n - 1)
    BY <2>1, AppInfoIsNat
  <2>. QED
    BY <1>2, <2>1, <2>2, <2>3 DEF ItemSize
<1>9. exact' \in BOOLEAN /\ open' \in BOOLEAN /\ (exact' => exact)
  BY <1>1 DEF IInv, TypeOK
<1>10. FileTyped' /\ FileFollows' /\ file'.appInfo = AppInfoAt(Len(file'.list))
       /\ torn' \in BOOLEAN
  BY <1>1, <1>9, DiskStays
<1>11. TypeOK'
  BY <1>1, <1>2, <1>6, <1>8, <1>9, <1>10, OperationCounts DEF IInv, TypeOK
<1>12. AppInfoFollows' /\ NothingToPrune'
  BY <1>1, <1>2, <1>6, <1>8, <1>10 DEF AppInfoFollows, NothingToPrune
<1>13. MemosFollow'
  <2> SUFFICES ASSUME exact' PROVE Savable(memos)'
    BY DEF MemosFollow
  <2>1. /\ LaidOut(memos)
        /\ \A i \in 1..n :
             {memos[i].header, memos[i].text} \subseteq Encodable /\ memos[i].id # 0
    BY <1>1, <1>2 DEF IInv, MemosFollow, Savable
  <2>2. k < n => EndOf(memos[k]) = memos[k].offset + size
    BY <1>1 DEF EndOf
  <2>3. \A i \in 1..n :
          /\ memos[i].hlen = Cp1251Len[memos[i].header]
          /\ memos[i].tlen = Cp1251Len[memos[i].text]
          /\ memos[i].offset = IF i = 1 THEN DataAt(n) ELSE EndOf(memos[i - 1])
    BY <1>2, <2>1 DEF LaidOut, n
  <2>4. \A i \in 1..n : memos[i].offset \in Int /\ memos[i].hlen \in Nat
                        /\ memos[i].tlen \in Nat /\ EndOf(memos[i]) \in Int
    BY <1>2, MemoFields
  <2>5. ASSUME NEW i \in 1..(n - 1)
        PROVE  EndOf(memos'[i]) = IF i < k THEN EndOf(memos[i]) - ItemSize
                                  ELSE EndOf(memos[i + 1]) - size - ItemSize
    <3>1. /\ from(i) \in 1..n
          /\ memos'[i].hlen = memos[from(i)].hlen /\ memos'[i].tlen = memos[from(i)].tlen
          /\ i < k => memos'[i].offset = memos[from(i)].offset - ItemSize
          /\ ~(i < k) => memos'[i].offset = memos[from(i)].offset - size - ItemSize
      BY <1>7
    <3>2. /\ memos[from(i)].offset \in Int /\ memos[from(i)].hlen \in Nat
          /\ memos[from(i)].tlen \in Nat
      BY <2>4, <3>1
    <3> HIDE DEF from
    <3>3. /\ i < k => EndOf(memos'[i]) = EndOf(memos[from(i)]) - ItemSize
          /\ ~(i < k) => EndOf(memos'[i]) = EndOf(memos[from(i)]) - size - ItemSize
      BY <1>3, <3>1, <3>2 DEF EndOf, Size, ItemSize
    <3>. QED
      BY <3>3 DEF from
  <2>6. ASSUME NEW i \in 1..(n - 1)
        PROVE  memos'[i].offset = IF i = 1 THEN DataAt(n - 1) ELSE EndOf(memos'[i - 1])
    <3>0. /\ i \in 1..n /\ i + 1 \in 1..n /\ i \in Nat /\ k \in Nat
          /\ i # 1 => i - 1 \in 1..(n - 1) /\ i - 1 \in 1..n
          /\ i + 1 # 1 /\ (i + 1) - 1 = i
      BY <1>2
    <3>1. CASE i < k
      <4>1. memos'[i].offset = memos[i].offset - ItemSize
        BY <1>7, <3>1
      <4>2. i # 1 => i - 1 < k
        BY <3>0, <3>1
      <4>3. i # 1 => EndOf(memos'[i - 1]) = EndOf(memos[i - 1]) - ItemSize
        BY <2>5, <3>0, <4>2
      <4>. QED
        BY <1>8, <2>3, <3>0, <4>1, <4>3
    <3>2. CASE ~(i < k)
      <4>1. memos'[i].offset = EndOf(memos[i]) - size - ItemSize
        BY <1>7, <2>3, <3>0, <3>2
      <4>2. CASE i = k
        <5>1. EndOf(memos[i]) = memos[i].offset + size /\ memos[i].offset \in Int
          BY <1>2, <2>2, <2>4, <3>0, <4>2
        <5>2. memos'[i].offset = memos[i].offset - ItemSize
          BY <1>3, <4>1, <5>1 DEF ItemSize
        <5>3. i # 1 => EndOf(memos'[i - 1]) = EndOf(memos[i - 1]) - ItemSize
          <6>1. i # 1 => i - 1 < k
            BY <3>0, <4>2
          <6>. QED
            BY <2>5, <3>0, <6>1
        <5>. QED
          BY <1>8, <2>3, <3>0, <5>2, <5>3
      <4>3. CASE i # k
        <5>1. i # 1 /\ ~(i - 1 < k) /\ (i - 1) + 1 = i
          BY <1>2, <3>0, <3>2, <4>3
        <5>2. EndOf(memos'[i - 1]) = EndOf(memos[i]) - size - ItemSize
          BY <2>5, <3>0, <5>1
        <5>. QED
          BY <4>1, <5>1, <5>2
      <4>. QED
        BY <4>2, <4>3
    <3>. QED
      BY <3>1, <3>2
  <2>7. \A i \in 1..(n - 1) :
          /\ memos'[i].hlen = Cp1251Len[memos'[i].header]
          /\ memos'[i].tlen = Cp1251Len[memos'[i].text]
          /\ {memos'[i].header, memos'[i].text} \subseteq Encodable /\ memos'[i].id # 0
    <3> TAKE i \in 1..(n - 1)
    <3>1. /\ from(i) \in 1..n
          /\ memos'[i].hlen = memos[from(i)].hlen /\ memos'[i].tlen = memos[from(i)].tlen
          /\ memos'[i].header = memos[from(i)].header
          /\ memos'[i].text = memos[from(i)].text
          /\ memos'[i].id = memos[from(i)].id
      BY <1>7
    <3> HIDE DEF from
    <3>. QED
      BY <2>1, <2>3, <3>1
  <2>8. LaidOut(memos')
    BY <1>6, <2>6, <2>7 DEF LaidOut
  <2>. QED
    BY <1>6, <2>7, <2>8 DEF Savable
<1>. QED
  BY <1>10, <1>11, <1>12, <1>13 DEF IInv

LEMMA DeleteCategoryHolds ==
  ASSUME IInv, NEW id \in SlotIds, DeleteCategory(id)
  PROVE  IInv'
<1> DEFINE n == Len(memos)
<1>1. /\ open /\ open' = open /\ UNCHANGED <<appInfo, exact>> /\ UNCHANGED disk /\ Operation
      /\ slots' = CategoryDelete(slots, id)
      /\ memos' = [i \in DOMAIN memos |->
           IF memos[i].slot = id THEN [memos[i] EXCEPT !.asked = NoName] ELSE memos[i]]
  BY DEF DeleteCategory
<1>2. /\ memos \in Seq(Memo) /\ n \in Nat
      /\ DOMAIN memos = 1..n /\ \A i \in 1..n : memos[i] \in Memo
      /\ slots \in [SlotIds -> Slot] /\ CategoriesRead(slots) = slots
  BY <1>1 DEF IInv, TypeOK, AppInfoFollows, NothingToPrune
<1>3. \A i \in 1..n :
        /\ [memos[i] EXCEPT !.asked = NoName] \in Memo
        /\ memos'[i] = memos[i] \/ memos'[i] = [memos[i] EXCEPT !.asked = NoName]
  BY <1>1, <1>2 DEF Memo
<1>4. memos' \in [1..n -> Memo]
  BY <1>1, <1>2, <1>3
<1>5. memos' \in Seq(Memo) /\ Len(memos') = n /\ DOMAIN memos' = 1..n
  BY <1>2, <1>4
<1>6. \A i \in 1..n :
        /\ memos'[i].id = memos[i].id /\ memos'[i].offset = memos[i].offset
        /\ memos'[i].header = memos[i].header /\ memos'[i].text = memos[i].text
        /\ memos'[i].hlen = memos[i].hlen /\ memos'[i].tlen = memos[i].tlen
  BY <1>2, <1>3 DEF Memo
<1>7. slots' \in [SlotIds -> Slot] /\ NothingToPrune'
  BY <1>1, <1>2, CategoryDeleteType DEF NothingToPrune
<1>8. exact' \in BOOLEAN /\ open' \in BOOLEAN /\ (exact' => exact)
  BY <1>1 DEF IInv, TypeOK
<1>9. FileTyped' /\ FileFollows' /\ file'.appInfo = AppInfoAt(Len(file'.list))
      /\ torn' \in BOOLEAN
  BY <1>1, <1>8, DiskStays
<1>10. TypeOK' /\ AppInfoFollows'
  BY <1>1, <1>5, <1>7, <1>8, <1>9, OperationCounts DEF IInv, TypeOK, AppInfoFollows
<1>11. MemosFollow'
  <2> SUFFICES ASSUME exact' PROVE Savable(memos)'
    BY DEF MemosFollow
  <2>1. Savable(memos)
    BY <1>1, <1>8 DEF IInv, MemosFollow
  <2>2. \A i \in 1..n : EndOf(memos'[i]) = EndOf(memos[i])
    BY <1>6 DEF EndOf
  <2>3. \A i \in 1..n : i # 1 => i - 1 \in 1..n
    BY <1>2
  <2>4. LaidOut(memos')
    BY <1>2, <1>5, <1>6, <2>1, <2>2, <2>3 DEF LaidOut, Savable
  <2>. QED
    BY <1>2, <1>5, <1>6, <2>1, <2>4 DEF Savable
<1>. QED
  BY <1>7, <1>9, <1>10, <1>11 DEF IInv

\* Writing memos leaves a file of the same kind, laid out or not.
LEMMA BytesStayNumbered ==
  ASSUME NEW queue \in Seq(Memo), NEW bytes, DOMAIN bytes \subseteq Int
  PROVE  DOMAIN BytesWith(bytes, queue) \subseteq Int
<1>1. \A i \in DOMAIN queue : Span(queue[i]) \subseteq Int
  <2> TAKE i \in DOMAIN queue
  <2>1. queue[i] \in Memo
    BY LenProperties, ElementOfSeq
  <2>2. queue[i].offset \in Int /\ EndOf(queue[i]) \in Int
    BY <2>1, MemoFields
  <2>. QED
    BY <2>1, <2>2, SpanOfMemo
<1>. QED
  BY <1>1 DEF BytesWith

LEMMA WrittenFile ==
  ASSUME IInv, NEW queue \in Seq(Memo),
         file' = FileWith(memos, slots, BytesWith(file.bytes, queue))
  PROVE  FileTyped' /\ file'.appInfo = AppInfoAt(Len(file'.list))
         /\ Len(file'.list) = Len(memos)
<1>1. memos \in Seq(Memo) /\ slots \in [SlotIds -> Slot] /\ DOMAIN file.bytes \subseteq Int
  BY DEF IInv, TypeOK, FileTyped
<1>2. /\ file'.list = ListOf(memos) /\ file'.slots = slots
      /\ file'.bytes = BytesWith(file.bytes, queue) /\ file'.appInfo = AppInfoAt(Len(memos))
  BY DEF FileWith
<1>. QED
  BY <1>1, <1>2, ListOfQueue, BytesStayNumbered DEF FileTyped

LEMMA AppInfoOfQueue ==
  ASSUME NEW queue, Len(queue) \in Nat
  PROVE  AppInfoAt(Len(queue)) \in Nat
BY DEF AppInfoAt, HeaderSize, ItemSize, PaddingSize

LEMMA WriteHolds ==
  ASSUME IInv, Write
  PROVE  IInv'
<1>1. /\ open' = open /\ open /\ UNCHANGED <<memos, slots, exact>> /\ Operation
      /\ file' = FileWith(memos, slots, BytesWith(file.bytes, memos))
      /\ appInfo' = AppInfoAt(Len(memos)) /\ torn' = FALSE /\ saved' = View(memos, slots)
  BY DEF Write
<1>2. /\ memos \in Seq(Memo) /\ slots \in [SlotIds -> Slot] /\ CategoriesRead(slots) = slots
      /\ DOMAIN file.bytes \subseteq Int /\ Len(memos) \in Nat
  BY DEF IInv, TypeOK, FileTyped, NothingToPrune
<1>3. FileTyped' /\ file'.appInfo = AppInfoAt(Len(file'.list)) /\ Len(file'.list) = Len(memos)
  BY <1>1, <1>2, WrittenFile
<1>4. torn' \in BOOLEAN /\ exact' \in BOOLEAN /\ open' \in BOOLEAN
  BY <1>1 DEF IInv, TypeOK
<1>5. TypeOK'
  <2>1. appInfo' \in Nat
    BY <1>1, <1>2, AppInfoOfQueue
  <2>2. ops' \in 0..MaxOps
    BY <1>1, OperationCounts DEF IInv, TypeOK
  <2>. QED
    BY <1>1, <1>2, <1>4, <2>1, <2>2 DEF TypeOK
<1>6. AppInfoFollows' /\ NothingToPrune' /\ MemosFollow'
  BY <1>1, <1>3 DEF IInv, AppInfoFollows, NothingToPrune, MemosFollow
<1>7. FileFollows'
  <2> SUFFICES ASSUME exact' PROVE Holds(file', saved') /\ Savable(MemosRead(file'))
    BY DEF FileFollows
  <2>1. Savable(memos)
    BY <1>1 DEF IInv, MemosFollow
  <2>. QED
    BY <1>1, <1>2, <2>1, SavedIsRead
<1>. QED
  BY <1>3, <1>5, <1>6, <1>7 DEF IInv

LEMMA WriteFailsHolds ==
  ASSUME IInv, WriteFails
  PROVE  IInv'
<1>1. /\ open' = open /\ open /\ UNCHANGED <<memos, slots, exact>> /\ Operation
      /\ appInfo' = AppInfoAt(Len(memos)) /\ torn' = TRUE
  BY DEF WriteFails
<1>2. PICK k \in 0..Len(memos) :
        file' = FileWith(memos, slots, BytesWith(file.bytes, SubSeq(memos, 1, k)))
  BY DEF WriteFails
<1>3. memos \in Seq(Memo) /\ slots \in [SlotIds -> Slot] /\ Len(memos) \in Nat
  BY DEF IInv, TypeOK
<1>4. SubSeq(memos, 1, k) \in Seq(Memo)
  <2>1. 1 \in Int /\ k \in Int /\ \A i \in 1..k : memos[i] \in Memo
    BY <1>3
  <2>. QED
    BY <2>1, SubSeqProperties
<1>5. FileTyped' /\ file'.appInfo = AppInfoAt(Len(file'.list)) /\ Len(file'.list) = Len(memos)
  BY <1>2, <1>4, WrittenFile
<1>6. torn' \in BOOLEAN /\ exact' \in BOOLEAN /\ open' \in BOOLEAN
  BY <1>1 DEF IInv, TypeOK
<1>7. TypeOK'
  <2>1. appInfo' \in Nat
    BY <1>1, <1>3, AppInfoOfQueue
  <2>2. ops' \in 0..MaxOps
    BY <1>1, OperationCounts DEF IInv, TypeOK
  <2>. QED
    BY <1>1, <1>3, <1>6, <2>1, <2>2 DEF TypeOK
<1>8. AppInfoFollows' /\ NothingToPrune' /\ MemosFollow' /\ FileFollows'
  BY <1>1, <1>5 DEF IInv, AppInfoFollows, NothingToPrune, MemosFollow, FileFollows
<1>. QED
  BY <1>5, <1>7, <1>8 DEF IInv

-----------------------------------------------------------------------------
(* Memos and their categories *)

\* What FiledAsAsked says of one memo.
Filed(memo, cats) == memo.asked # NoName => cats[memo.slot].name = memo.asked

Filing == CategoriesSound /\ FiledAsAsked

\* A memo that has been moved is still where it was asked to be.
LEMMA MovedIsFiled ==
  ASSUME NEW memo \in Memo, NEW moved, NEW by, NEW cats, Filed(memo, cats),
         moved = [memo EXCEPT !.offset = @ + by]
  PROVE  Filed(moved, cats)
BY MovedFields DEF Filed

\* Adding a category leaves the others as they are, and its memos go where it is.
LEMMA FoundOrAddedIsSound ==
  ASSUME slots \in [SlotIds -> Slot], NothingToPrune, SoundCategories(slots),
         NEW name \in Names, NEW found \in FoundOrAdded(name)
  PROVE  /\ SoundCategories(found.slots)
         /\ found.slots[found.id % Slots].name = Stored[name]
         /\ \A i \in SlotIds :
              slots[i].name # NoName => found.slots[i].name = slots[i].name
<1>1. CASE IdsOf(slots, name) # {}
  <2>1. PICK id \in IdsOf(slots, name) : found = [id |-> id, slots |-> slots]
    BY <1>1 DEF FoundOrAdded
  <2>. QED
    BY <2>1, FoundIsThere
<1>2. CASE IdsOf(slots, name) = {}
  <2>1. /\ Free(slots) # {}
        /\ found.id = FirstFree(slots) /\ found.slots = CategoryAdd(slots, name)
    BY <1>2 DEF FoundOrAdded
  <2>2. /\ FirstFree(slots) \in SlotIds /\ slots[FirstFree(slots)].name = NoName
        /\ FirstFree(slots) % Slots = FirstFree(slots)
    BY <2>1, FirstFreeIsFree, SlotNumbers
  <2>3. \A i \in SlotIds : found.slots[i] =
          IF i = FirstFree(slots) THEN [name |-> Stored[name], id |-> i] ELSE slots[i]
    BY <2>1, CategoryAddType DEF NothingToPrune
  <2> DEFINE f == FirstFree(slots)
             new == found.slots
  <2>4. /\ f \in SlotIds /\ slots[f].name = NoName /\ f % Slots = f /\ found.id = f
        /\ new[f].name = Stored[name] /\ new[f].id = f /\ Stored[Stored[name]] = Stored[name]
        /\ \A i \in SlotIds : i # f => new[i] = slots[i]
    <3>1. /\ new[f] = [name |-> Stored[name], id |-> f]
          /\ \A i \in SlotIds : i # f => new[i] = slots[i]
      BY <2>2, <2>3
    <3>2. f \in SlotIds /\ slots[f].name = NoName /\ f % Slots = f /\ found.id = f
      BY <2>1, <2>2
    <3> HIDE DEF f, new
    <3>3. new[f].name = Stored[name] /\ new[f].id = f
      BY <3>1
    <3>. QED
      BY <3>1, <3>2, <3>3, TruncationOK
  <2> HIDE DEF f, new
  <2>5. SoundCategories(new)
    BY <2>4 DEF SoundCategories
  <2>6. \A i \in SlotIds : slots[i].name # NoName => new[i].name = slots[i].name
    BY <2>4
  <2>. QED
    BY <2>4, <2>5, <2>6 DEF new
<1>. QED
  BY <1>1, <1>2

LEMMA SoundStays ==
  ASSUME Filing, UNCHANGED disk, SoundCategories(slots')
  PROVE  CategoriesSound'
BY DEF Filing, CategoriesSound, disk

LEMMA ForgottenFiles ==
  ASSUME Filing, Forgotten, UNCHANGED disk
  PROVE  Filing'
<1>1. SoundCategories(slots')
  BY EmptySlotIsSlot DEF Forgotten, SoundCategories
<1>2. memos' = <<>>
  BY DEF Forgotten
<1>. QED
  BY <1>1, <1>2, SoundStays DEF Filing, FiledAsAsked

LEMMA OpenFiles ==
  ASSUME IInv, Filing, Open
  PROVE  Filing'
<1>1. /\ memos' = MemosRead(file) /\ slots' = CategoriesRead(file.slots) /\ UNCHANGED disk
  BY DEF Open
<1>2. ASSUME NEW i \in DOMAIN memos' PROVE Filed(memos'[i], slots')
  BY <1>1 DEF MemosRead, MemoRead, Filed
<1>3. SoundCategories(slots')
  BY <1>1 DEF Filing, CategoriesSound
<1>. QED
  BY <1>1, <1>2, <1>3, SoundStays DEF Filing, FiledAsAsked, Filed

LEMMA MemoAddFiles ==
  ASSUME IInv, Filing, NEW header \in NewHeaders, NEW text \in NewTexts,
         NEW category \in Names \cup {Keep}, MemoAdd(header, text, category)
  PROVE  Filing'
<1> DEFINE n == Len(memos)
           moved == ItemsMoved(memos, ItemSize)
           name == CategoryAsked(category)
<1>1. PICK found \in FoundOrAdded(name), id \in Ids \ {memos[i].id : i \in DOMAIN memos} :
        /\ slots' = found.slots
        /\ memos' = Append(moved,
             [id |-> id, offset |-> OffsetBeyond(Last(memos)), slot |-> found.id % Slots,
              header |-> header, text |-> text,
              hlen |-> Cp1251Len[header], tlen |-> Cp1251Len[text],
              asked |-> Stored[name]])
  BY DEF MemoAdd
<1> DEFINE new ==
             [id |-> id, offset |-> OffsetBeyond(Last(memos)), slot |-> found.id % Slots,
              header |-> header, text |-> text,
              hlen |-> Cp1251Len[header], tlen |-> Cp1251Len[text],
              asked |-> Stored[name]]
<1>2. /\ memos \in Seq(Memo) /\ n \in Nat /\ slots \in [SlotIds -> Slot]
      /\ \A i \in 1..n : memos[i] \in Memo /\ memos[i].slot \in SlotIds
      /\ \A i \in 1..n : Filed(memos[i], slots)
      /\ SoundCategories(slots) /\ NothingToPrune /\ UNCHANGED disk
  BY MemoFields DEF IInv, TypeOK, Filing, FiledAsAsked, Filed, CategoriesSound, MemoAdd
<1>3. /\ SoundCategories(slots') /\ slots'[found.id % Slots].name = Stored[name]
      /\ \A i \in SlotIds : slots[i].name # NoName => slots'[i].name = slots[i].name
  BY <1>1, <1>2, CategoryAskedIsName, FoundOrAddedIsSound
<1>4. /\ moved \in Seq(Memo) /\ Len(moved) = n
      /\ \A i \in 1..n : moved[i] = [memos[i] EXCEPT !.offset = @ + ItemSize]
  BY <1>2, ItemsMovedType DEF ItemSize
<1>5. Filed(new, slots')
  BY <1>3 DEF Filed
<1>6. memos' = Append(moved, new)
  BY <1>1
<1> HIDE DEF moved, new, n
<1>7. /\ DOMAIN memos' = 1..(n + 1) /\ memos'[n + 1] = new
      /\ \A i \in 1..n : memos'[i] = moved[i]
  BY <1>2, <1>4, <1>6
<1>8. ASSUME NEW i \in 1..n PROVE Filed(memos'[i], slots')
  <2>1. /\ memos[i] \in Memo /\ memos[i].slot \in SlotIds /\ Filed(memos[i], slots)
        /\ memos'[i] = [memos[i] EXCEPT !.offset = @ + ItemSize]
    BY <1>2, <1>4, <1>7
  <2>2. Filed(memos[i], slots')
    BY <1>3, <2>1 DEF Filed
  <2>. QED
    BY <2>1, <2>2, MovedIsFiled
<1>9. \A i \in 1..(n + 1) : i \in 1..n \/ i = n + 1
  BY <1>2
<1>10. FiledAsAsked'
  BY <1>5, <1>7, <1>8, <1>9 DEF FiledAsAsked, Filed
<1>. QED
  BY <1>2, <1>3, <1>10, SoundStays DEF Filing

LEMMA MemoAddFailsFiles ==
  ASSUME IInv, Filing, NEW header, NEW text, NEW category \in Names \cup {Keep},
         MemoAddFails(header, text, category)
  PROVE  Filing'
<1>1. /\ slots \in [SlotIds -> Slot] /\ NothingToPrune /\ SoundCategories(slots)
      /\ \A i \in DOMAIN memos : memos[i].slot \in SlotIds
      /\ \A i \in DOMAIN memos : Filed(memos[i], slots)
  BY MemoFields DEF IInv, TypeOK, Filing, FiledAsAsked, Filed, CategoriesSound
<1>2. memos' = memos /\ UNCHANGED disk
  BY DEF MemoAddFails
<1>3. CASE slots' = slots
  BY <1>1, <1>2, <1>3, SoundStays DEF Filing, FiledAsAsked
<1>4. ASSUME NEW found \in FoundOrAdded(CategoryAsked(category)), slots' = found.slots
      PROVE  Filing'
  <2>1. /\ SoundCategories(slots')
        /\ \A i \in SlotIds : slots[i].name # NoName => slots'[i].name = slots[i].name
    BY <1>1, <1>4, CategoryAskedIsName, FoundOrAddedIsSound
  <2>2. FiledAsAsked'
    BY <1>1, <1>2, <2>1 DEF FiledAsAsked, Filed
  <2>. QED
    BY <1>2, <2>1, <2>2, SoundStays DEF Filing
<1>. QED
  BY <1>3, <1>4 DEF MemoAddFails

LEMMA MemoEditFiles ==
  ASSUME IInv, Filing, NEW k \in DOMAIN memos, NEW header \in NewHeaders \cup {Keep},
         NEW text \in NewTexts \cup {Keep}, NEW category \in Names \cup {Keep},
         MemoEdit(k, header, text, category)
  PROVE  Filing'
<1> DEFINE n == Len(memos)
           by == Growth(header, memos[k].hlen) + Growth(text, memos[k].tlen)
           moved == MovedAfter(k, by)
<1>1. PICK categoryId \in IF category = Keep THEN {memos[k].slot}
                          ELSE IdsOf(slots, category) :
        memos' = [moved EXCEPT
           ![k].header = Instead(header, @), ![k].text = Instead(text, @),
           ![k].slot = categoryId % Slots,
           ![k].asked = IF category = Keep THEN @ ELSE category]
  BY DEF MemoEdit
<1>2. /\ memos \in Seq(Memo) /\ n \in Nat /\ k \in 1..n /\ DOMAIN memos = 1..n
      /\ slots \in [SlotIds -> Slot] /\ slots' = slots /\ UNCHANGED disk
      /\ \A i \in 1..n : memos[i] \in Memo
      /\ \A i \in 1..n : Filed(memos[i], slots)
      /\ SoundCategories(slots)
  BY DEF IInv, TypeOK, Filing, FiledAsAsked, Filed, CategoriesSound, MemoEdit
<1>3. memos[k].slot \in SlotIds
  BY <1>2, MemoFields
<1>4. /\ DOMAIN moved = 1..n /\ moved[k] = memos[k]
      /\ \A i \in 1..n : moved[i] = IF i > k THEN [memos[i] EXCEPT !.offset = @ + by]
                                    ELSE memos[i]
  BY <1>2 DEF MovedAfter
<1> DEFINE edited == [memos[k] EXCEPT
             !.header = Instead(header, @), !.text = Instead(text, @),
             !.slot = categoryId % Slots,
             !.asked = IF category = Keep THEN @ ELSE category]
<1> HIDE DEF n, by, moved
<1>5. /\ DOMAIN memos' = 1..n /\ memos'[k] = edited
      /\ \A i \in 1..n : i # k => memos'[i] = moved[i]
  BY <1>1, <1>2, <1>4 DEF Memo
<1>6. /\ edited.slot = categoryId % Slots
      /\ edited.asked = IF category = Keep THEN memos[k].asked ELSE category
  BY <1>2 DEF Memo
<1> HIDE DEF edited
<1>7. Filed(edited, slots)
  <2>1. CASE category = Keep
    <3>1. categoryId % Slots = memos[k].slot
      BY <1>1, <1>3, <2>1, SlotNumbers
    <3>. QED
      BY <1>2, <1>6, <2>1, <3>1 DEF Filed
  <2>2. CASE category # Keep
    <3>1. category \in Names /\ categoryId \in IdsOf(slots, category)
      BY <1>1, <2>2
    <3>2. slots[categoryId % Slots].name = category
      BY <1>2, <3>1, FoundIsThere
    <3>. QED
      BY <1>6, <2>2, <3>2 DEF Filed
  <2>. QED
    BY <2>1, <2>2
<1>8. ASSUME NEW i \in 1..n, i # k PROVE Filed(memos'[i], slots)
  <2>1. memos[i] \in Memo /\ Filed(memos[i], slots)
    BY <1>2
  <2>2. memos'[i] = memos[i] \/ memos'[i] = [memos[i] EXCEPT !.offset = @ + by]
    BY <1>4, <1>5, <1>8
  <2>. QED
    BY <2>1, <2>2, MovedIsFiled
<1>9. FiledAsAsked'
  BY <1>2, <1>5, <1>7, <1>8 DEF FiledAsAsked, Filed
<1>. QED
  BY <1>2, <1>9, SoundStays DEF Filing

LEMMA MemoDeleteFiles ==
  ASSUME IInv, Filing, NEW k \in DOMAIN memos, MemoDelete(k)
  PROVE  Filing'
<1> DEFINE n == Len(memos)
           by == -SizeInMemory(memos[k])
           moved == MovedAfter(k, by)
           fewer == RemoveAt(moved, k)
           items == -ItemSize
<1>1. memos' = ItemsMoved(fewer, items) /\ slots' = slots /\ UNCHANGED disk
  BY DEF MemoDelete
<1>2. /\ memos \in Seq(Memo) /\ n \in Nat /\ k \in 1..n /\ DOMAIN memos = 1..n
      /\ \A i \in 1..n : memos[i] \in Memo
      /\ \A i \in 1..n : Filed(memos[i], slots)
      /\ SoundCategories(slots)
  BY DEF IInv, TypeOK, Filing, FiledAsAsked, Filed, CategoriesSound
<1>3. by \in Int
  <2>1. memos[k].header \in Strings /\ memos[k].text \in Strings
    BY <1>2, MemoFields
  <2>2. Utf8Len[memos[k].header] \in Nat /\ Utf8Len[memos[k].text] \in Nat
    BY <2>1, StringsOK
  <2>. QED
    BY <2>2 DEF SizeInMemory, Size
<1> HIDE DEF by
<1>4. /\ moved \in Seq(Memo) /\ Len(moved) = n
      /\ \A i \in 1..n : moved[i] = memos[i] \/ moved[i] = [memos[i] EXCEPT !.offset = @ + by]
  BY <1>2, <1>3, MovedAfterType
<1> HIDE DEF moved, n
<1>5. ASSUME NEW i \in 1..n PROVE moved[i] \in Memo /\ Filed(moved[i], slots)
  <2>1. memos[i] \in Memo /\ Filed(memos[i], slots)
    BY <1>2
  <2>2. moved[i] \in Memo
    BY <1>4, LenProperties, ElementOfSeq
  <2>. QED
    BY <1>4, <2>1, <2>2, MovedIsFiled
<1>6. /\ fewer \in Seq(Memo) /\ Len(fewer) = n - 1
      /\ \A i \in 1..(n - 1) : \E j \in 1..n : fewer[i] = moved[j]
  <2>1. moved \in Seq(Memo) /\ Len(moved) = n /\ k \in 1..Len(moved)
    BY <1>2, <1>4
  <2>2. /\ fewer \in Seq(Memo) /\ Len(fewer) = n - 1
        /\ \A i \in 1..(n - 1) : fewer[i] = IF i < k THEN moved[i] ELSE moved[i + 1]
    <3>1. /\ fewer \in Seq(Memo) /\ Len(fewer) = Len(moved) - 1
          /\ \A i \in 1..(Len(moved) - 1) :
               fewer[i] = IF i < k THEN moved[i] ELSE moved[i + 1]
      BY <2>1, RemoveAtType, Zenon
    <3>. QED
      BY <2>1, <3>1, Zenon
  <2>3. \A i \in 1..(n - 1) : i \in 1..n /\ i + 1 \in 1..n
    BY <1>2
  <2>. QED
    BY <2>2, <2>3
<1> HIDE DEF fewer
<1>7. items \in Int
  BY DEF ItemSize
<1> HIDE DEF items
<1>8. /\ ItemsMoved(fewer, items) \in Seq(Memo) /\ Len(ItemsMoved(fewer, items)) = Len(fewer)
      /\ \A i \in 1..Len(fewer) :
           ItemsMoved(fewer, items)[i] = [fewer[i] EXCEPT !.offset = @ + items]
  BY <1>6, <1>7, ItemsMovedType
<1>9. DOMAIN memos' = 1..(n - 1)
      /\ \A i \in 1..(n - 1) : memos'[i] = [fewer[i] EXCEPT !.offset = @ + items]
  BY <1>1, <1>6, <1>8, LenProperties
<1>10. ASSUME NEW i \in 1..(n - 1) PROVE Filed(memos'[i], slots)
  <2>1. fewer[i] \in Memo /\ Filed(fewer[i], slots)
    BY <1>5, <1>6
  <2>. QED
    BY <1>9, <2>1, MovedIsFiled
<1>11. FiledAsAsked'
  BY <1>1, <1>9, <1>10 DEF FiledAsAsked, Filed
<1>. QED
  BY <1>1, <1>2, <1>11, SoundStays DEF Filing

LEMMA DeleteCategoryFiles ==
  ASSUME IInv, Filing, NEW id \in SlotIds, DeleteCategory(id)
  PROVE  Filing'
<1>1. /\ slots' = CategoryDelete(slots, id) /\ UNCHANGED disk
      /\ memos' = [i \in DOMAIN memos |->
           IF memos[i].slot = id THEN [memos[i] EXCEPT !.asked = NoName] ELSE memos[i]]
  BY DEF DeleteCategory
<1>2. /\ memos \in Seq(Memo) /\ slots \in [SlotIds -> Slot] /\ SoundCategories(slots)
      /\ \A i \in DOMAIN memos : memos[i] \in Memo /\ memos[i].slot \in SlotIds
      /\ \A i \in DOMAIN memos : Filed(memos[i], slots)
  BY MemoFields DEF IInv, TypeOK, Filing, FiledAsAsked, Filed, CategoriesSound
<1>3. \A i \in SlotIds : slots'[i] = IF i = id THEN EmptySlot ELSE slots[i]
  BY <1>1, <1>2 DEF CategoryDelete
<1>4. SoundCategories(slots')
  BY <1>2, <1>3, EmptySlotIsSlot DEF SoundCategories
<1>5. ASSUME NEW i \in DOMAIN memos PROVE Filed(memos'[i], slots')
  <2>1. CASE memos[i].slot = id
    <3>1. memos'[i] = [memos[i] EXCEPT !.asked = NoName]
      BY <1>1, <2>1
    <3>2. memos'[i].asked = NoName
      BY <1>2, <3>1 DEF Memo
    <3>. QED
      BY <3>2 DEF Filed
  <2>2. CASE memos[i].slot # id
    <3>1. memos'[i] = memos[i] /\ slots'[memos[i].slot] = slots[memos[i].slot]
      BY <1>1, <1>2, <1>3, <2>2
    <3>. QED
      BY <1>2, <3>1 DEF Filed
  <2>. QED
    BY <2>1, <2>2
<1>6. DOMAIN memos' = DOMAIN memos
  BY <1>1
<1>7. FiledAsAsked'
  BY <1>5, <1>6 DEF FiledAsAsked, Filed
<1>. QED
  BY <1>1, <1>4, <1>7, SoundStays DEF Filing

\* Writing puts the categories in memory into the file, where reading prunes nothing
\* more; what becomes of the memos does not matter.
LEMMA WritingFiles ==
  ASSUME IInv, Filing, UNCHANGED <<memos, slots>>, file'.slots = slots
  PROVE  Filing'
BY DEF IInv, NothingToPrune, Filing, CategoriesSound, FiledAsAsked

-----------------------------------------------------------------------------
\* The inductive invariant holds in every state, after any operations.
THEOREM InvariantHolds == Spec => []IInv
<1>1. Init => IInv
  BY InitHolds
<1>2. IInv /\ [Next]_vars => IInv'
  <2> SUFFICES ASSUME IInv, [Next]_vars PROVE IInv'
    OBVIOUS
  <2>1. CASE UNCHANGED vars
    BY <2>1, StutterHolds
  <2>2. CASE Next
    BY <2>2, OpenHolds, CloseHolds, MemoAddHolds, MemoAddFailsHolds, MemoEditHolds,
       MemoEditCrashesHolds, MemoEditFailsHolds, MemoDeleteHolds, DeleteCategoryHolds,
       WriteHolds, WriteFailsHolds DEF Next
  <2>. QED
    BY <2>1, <2>2
<1>. QED
  BY <1>1, <1>2, PTL DEF Spec

\* Every variable has its type in every state.
THEOREM TypeCorrect == Spec => []TypeOK
<1>1. IInv => TypeOK
  BY DEF IInv
<1>. QED
  BY <1>1, InvariantHolds, PTL

\* The offsets lay the memos out one after another in every state, but for the two
\* changes of a length the code does not follow.
THEOREM OffsetsArePacked == Spec => []Packed
<1>1. IInv => Packed
  BY DEF IInv, Packed, AppInfoFollows, MemosFollow, Savable
<1>. QED
  BY <1>1, InvariantHolds, PTL

\* memos_read() gets a file that has what it is to have, if each of the strings is short
\* enough in UTF-8 for the buffer it is converted into.
LEMMA LegibleIsRead ==
  ASSUME NEW f, NEW view, Holds(f, view), AllLegible(view)
  PROVE  FileReads(f)
<1>1. Located(f) /\ DOMAIN f.list = DOMAIN view
  BY DEF Holds
<1>2. ASSUME NEW i \in DOMAIN f.list
      PROVE  LET offset    == f.list[i].offset
                 headerEnd == HeaderEnd(f.bytes, offset)
             IN /\ StoredLegibly(f.bytes, offset, headerEnd - 1)
                /\ StoredLegibly(f.bytes, headerEnd + 1, TextEnd(f.bytes, offset) - 1)
  <2> DEFINE offset == f.list[i].offset
             headerEnd == HeaderEnd(f.bytes, offset)
             textEnd == TextEnd(f.bytes, offset)
  <2>1. /\ view[i].header \in Encodable /\ view[i].text \in Encodable
        /\ IsStored(view[i].header, f.bytes, offset, headerEnd - 1)
        /\ IsStored(view[i].text, f.bytes, headerEnd + 1, textEnd - 1)
    BY <1>1 DEF Holds
  <2>2. Legible(view[i].header) /\ Legible(view[i].text)
    BY <1>1 DEF AllLegible
  <2> HIDE DEF offset, headerEnd, textEnd
  <2>3. /\ StoredLegibly(f.bytes, offset, headerEnd - 1)
        /\ StoredLegibly(f.bytes, headerEnd + 1, textEnd - 1)
    BY <2>1, <2>2, Zenon DEF StoredLegibly
  <2>. QED
    BY <2>3 DEF offset, headerEnd, textEnd
<1>. QED
  BY <1>1, <1>2, Zenon DEF FileReads

\* With the same exceptions a write that succeeds leaves a file that has just what was
\* saved, whatever it was written over, and that is read again, where no string is more
\* than twice as long in UTF-8 as in CP1251.
THEOREM WhatIsSavedIsReadBack == Spec => []SavedIsReadBack
<1>1. IInv => SavedIsReadBack
  BY LegibleIsRead DEF IInv, SavedIsReadBack, FileFollows
<1>. QED
  BY <1>1, InvariantHolds, PTL

\* In a file whose categories have the ids of their slots, as the handheld writes them, a
\* memo stays under the category it was put in, until that category is deleted.
THEOREM FiledUnderAsked ==
  ASSUME SoundCategories(CategoriesRead(Slots0))
  PROVE  Spec => []FiledAsAsked
<1>1. Init => Filing
  <2> SUFFICES ASSUME Init PROVE Filing
    OBVIOUS
  <2>1. file.slots = Slots0 /\ memos = <<>> /\ slots = [i \in SlotIds |-> EmptySlot]
    BY DEF Init, FileWith
  <2>. QED
    BY <2>1, EmptySlotIsSlot DEF Filing, CategoriesSound, SoundCategories, FiledAsAsked
<1>2. IInv /\ Filing /\ [Next]_vars => Filing'
  <2> SUFFICES ASSUME IInv, Filing, [Next]_vars PROVE Filing'
    OBVIOUS
  <2>1. CASE UNCHANGED vars
    BY <2>1 DEF vars, Filing, CategoriesSound, FiledAsAsked
  <2>2. CASE Open
    BY <2>2, OpenFiles
  <2>3. CASE Close
    BY <2>3, ForgottenFiles DEF Close
  <2>4. ASSUME NEW header \in NewHeaders, NEW text \in NewTexts,
               NEW category \in Names \cup {Keep},
               MemoAdd(header, text, category) \/ MemoAddFails(header, text, category)
        PROVE  Filing'
    BY <2>4, MemoAddFiles, MemoAddFailsFiles
  <2>5. ASSUME NEW k \in DOMAIN memos, NEW header \in NewHeaders \cup {Keep},
               NEW text \in NewTexts \cup {Keep}, NEW category \in Names \cup {Keep},
               \/ MemoEdit(k, header, text, category)
               \/ MemoEditCrashes(k, header, text, category)
        PROVE  Filing'
    BY <2>5, MemoEditFiles, ForgottenFiles DEF MemoEditCrashes
  <2>6. ASSUME NEW category \in Names, MemoEditFails(category) PROVE Filing'
    BY <2>6 DEF MemoEditFails, memory, disk, Filing, CategoriesSound, FiledAsAsked
  <2>7. ASSUME NEW k \in DOMAIN memos, MemoDelete(k) PROVE Filing'
    BY <2>7, MemoDeleteFiles
  <2>8. ASSUME NEW id \in SlotIds, DeleteCategory(id) PROVE Filing'
    BY <2>8, DeleteCategoryFiles
  <2>9. CASE Write
    BY <2>9, WritingFiles DEF Write, FileWith
  <2>10. CASE WriteFails
    BY <2>10, WritingFiles DEF WriteFails, FileWith
  <2>. QED
    BY <2>1, <2>2, <2>3, <2>4, <2>5, <2>6, <2>7, <2>8, <2>9, <2>10 DEF Next
<1>3. Filing => FiledAsAsked
  BY DEF Filing
<1>. QED
  BY <1>1, <1>2, <1>3, InvariantHolds, PTL DEF Spec
=============================================================================
