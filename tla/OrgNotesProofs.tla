--------------------------- MODULE OrgNotesProofs ---------------------------
(***************************************************************************)
(* Theorems about the org-file of OrgNotes, for any files, items and       *)
(* symbols.  The scanner and the parser go over a text of any length, so   *)
(* the lemmas are inductions: a set of the states in which the parser may  *)
(* be at a position of the text, which every token keeps.                  *)
(***************************************************************************)
EXTENDS OrgNotes, SequenceTheorems, FiniteSetTheorems, WellFoundedInduction, TLAPS

-----------------------------------------------------------------------------
(* Numbers *)

\* A set of natural numbers that is not empty has a least element.
LEMMA LeastOf ==
  ASSUME NEW S \in SUBSET Nat, S # {}
  PROVE  \E m \in S : \A k \in S : m <= k
<1>1. PICK x \in S : \A y \in S : ~(<<y, x>> \in OpToRel(<, Nat))
  BY NatLessThanWellFounded, WFMin
<1>2. \A y \in S : ~(y < x)
  BY <1>1 DEF OpToRel
<1>. QED
  BY <1>2

\* Induction, for a set.
LEMMA Counting ==
  ASSUME NEW S, 0 \in S, \A n \in Nat : n \in S => n + 1 \in S
  PROVE  \A n \in Nat : n \in S
<1> SUFFICES ASSUME Nat \ S # {} PROVE FALSE
  OBVIOUS
<1>1. PICK m \in Nat \ S : \A k \in Nat \ S : m <= k
  BY LeastOf
<1>2. m - 1 \in Nat /\ m - 1 \in S
  BY <1>1
<1>. QED
  BY <1>2

\* The same upwards to a bound, and downwards from it.
LEMMA CountingTo ==
  ASSUME NEW n \in Nat, NEW S, 0 \in S, \A m \in 0..(n - 1) : m \in S => m + 1 \in S
  PROVE  \A m \in 0..n : m \in S
<1> DEFINE T == {m \in Nat : m <= n => m \in S}
<1>1. \A m \in Nat : m \in T
  <2> HIDE DEF T
  <2>1. 0 \in T
    BY DEF T
  <2>2. \A m \in Nat : m \in T => m + 1 \in T
    BY DEF T
  <2>. QED
    BY <2>1, <2>2, Counting
<1>. QED
  BY <1>1

\* The first position behind those in the set.
LEMMA PastIs ==
  ASSUME NEW text \in Text, NEW i \in Nat \ {0}, i <= Len(text) + 1, NEW set,
         NEW p, p = Past(text, i, set)
  PROVE  /\ p \in i..(Len(text) + 1)
         /\ \A j \in i..(p - 1) : text[j] \in set
         /\ p <= Len(text) => text[p] \notin set
<1> DEFINE ends == {j \in i..Len(text) : text[j] \notin set}
<1>1. CASE ends = {}
  BY <1>1 DEF Past, Text
<1>2. CASE ends # {}
  <2>1. ends \in SUBSET Nat
    BY DEF Text
  <2>2. \E m \in ends : \A k \in ends : m <= k
    BY <1>2, <2>1, LeastOf
  <2>3. Min(ends) \in ends /\ \A k \in ends : Min(ends) <= k
    BY <2>2, Zenon DEF Min
  <2>4. p = Min(ends)
    BY <1>2 DEF Past
  <2>5. p \in i..Len(text) /\ text[p] \notin set
    BY <2>3, <2>4
  <2>6. \A j \in i..(p - 1) : text[j] \in set
    <3> TAKE j \in i..(p - 1)
    <3>1. j \in i..Len(text) /\ j < p
      BY <2>5
    <3>2. j \notin ends
      BY <2>3, <2>4, <3>1
    <3>. QED
      BY <3>1, <3>2
  <2>. QED
    BY <2>5, <2>6
<1>. QED
  BY <1>1, <1>2

-----------------------------------------------------------------------------
(* Folding *)

\* The state after some tokens, from a state on.
Over(carry, from, tokens) ==
  FoldLeft(LAMBDA s, token : Step(carry, s, token), from, tokens)

\* What a function defined by the fold of a sequence satisfies.
Folds(g, carry, from, tokens, n) ==
  g = [u \in SUBSET (1..n) |->
         IF u = {} THEN from ELSE Step(carry, g[u \ {Max(u)}], tokens[Max(u)])]

LEMMA MaxIs ==
  ASSUME NEW n \in Nat, NEW u \in SUBSET (1..n), u # {}
  PROVE  Max(u) \in u /\ \A k \in u : k <= Max(u)
<1> DEFINE T == {n - k : k \in u}
<1>1. T \in SUBSET Nat /\ T # {}
  <2>1. \A k \in u : n - k \in Nat
    OBVIOUS
  <2>. QED
    BY <2>1
<1>2. PICK t \in T : \A k \in T : t <= k
  BY <1>1, LeastOf
<1>3. PICK m \in u : t = n - m
  OBVIOUS
<1>4. \A k \in u : m >= k
  <2> TAKE k \in u
  <2>1. n - k \in T /\ k \in Int /\ m \in Int
    OBVIOUS
  <2>2. n - m <= n - k
    BY <1>2, <1>3, <2>1
  <2>. QED
    BY <2>2
<1>5. \E x \in u : \A y \in u : x >= y
  BY <1>4
<1>6. Max(u) \in u /\ \A y \in u : Max(u) >= y
  BY <1>5, Zenon DEF Max
<1>. QED
  BY <1>6

LEMMA FoldsExists ==
  ASSUME NEW carry, NEW from, NEW tokens
  PROVE  \A n \in Nat : \E g : Folds(g, carry, from, tokens, n)
<1> DEFINE S == {n \in Nat : \E g : Folds(g, carry, from, tokens, n)}
<1>1. 0 \in S
  <2>1. Folds([u \in SUBSET (1..0) |-> from], carry, from, tokens, 0)
    BY DEF Folds
  <2>. QED
    BY <2>1
<1>2. ASSUME NEW n \in Nat, n \in S
      PROVE  n + 1 \in S
  <2>1. PICK g : Folds(g, carry, from, tokens, n)
    BY <1>2
  <2> DEFINE h == [u \in SUBSET (1..(n + 1)) |->
                     IF u = {} THEN from
                     ELSE Step(carry, g[u \ {Max(u)}], tokens[Max(u)])]
  <2>2. \A u \in SUBSET (1..n) : h[u] = g[u]
    <3> TAKE u \in SUBSET (1..n)
    <3>1. u \in SUBSET (1..(n + 1))
      OBVIOUS
    <3>2. g[u] = IF u = {} THEN from ELSE Step(carry, g[u \ {Max(u)}], tokens[Max(u)])
      BY <2>1, Zenon DEF Folds
    <3>. QED
      BY <3>1, <3>2, Zenon
  <2>3. \A u \in SUBSET (1..(n + 1)) : u # {} => h[u \ {Max(u)}] = g[u \ {Max(u)}]
    <3> TAKE u \in SUBSET (1..(n + 1))
    <3> HAVE u # {}
    <3>1. Max(u) \in u /\ \A k \in u : k <= Max(u)
      BY MaxIs, n + 1 \in Nat
    <3>2. \A k \in u : k # Max(u) => k \in 1..n
      <4> TAKE k \in u
      <4>1. k \in 1..(n + 1) /\ Max(u) \in 1..(n + 1) /\ k <= Max(u)
        BY <3>1
      <4>. QED
        BY <4>1
    <3>. QED
      BY <3>2, <2>2, Zenon
  <2>4. Folds(h, carry, from, tokens, n + 1)
    <3> DEFINE k == [u \in SUBSET (1..(n + 1)) |->
                     IF u = {} THEN from
                     ELSE Step(carry, h[u \ {Max(u)}], tokens[Max(u)])]
    <3>1. \A u \in SUBSET (1..(n + 1)) : h[u] = k[u]
      BY <2>3, Zenon
    <3>2. h = k
      BY <3>1, Zenon
    <3>. QED
      BY <3>2, Zenon DEF Folds
  <2>. QED
    BY <2>4
<1> HIDE DEF S
<1>3. \A n \in Nat : n \in S
  BY <1>1, <1>2, Counting
<1>. QED
  BY <1>3 DEF S

\* The states after each of the tokens
Runs(l, carry, from, tokens, n) ==
  l[0] = from /\ \A m \in 1..n : l[m] = Step(carry, l[m - 1], tokens[m])

LEMMA StatesExist ==
  ASSUME NEW carry, NEW from, NEW tokens
  PROVE  \A n \in Nat : \E l : Runs(l, carry, from, tokens, n)
<1> TAKE n \in Nat
<1>1. PICK g : Folds(g, carry, from, tokens, n)
  BY FoldsExists
<1> DEFINE l == [m \in 0..n |-> g[1..m]]
<1>2. l[0] = from
  <2>1. 1..0 = {} /\ {} \in SUBSET (1..n) /\ l[0] = g[1..0]
    OBVIOUS
  <2>2. g[{}] = from
    BY <1>1, <2>1, Zenon DEF Folds
  <2>. QED
    BY <2>1, <2>2
<1>3. ASSUME NEW m \in 1..n
      PROVE  l[m] = Step(carry, l[m - 1], tokens[m])
  <2>1. 1..m \in SUBSET (1..n) /\ 1..m # {}
    <3>1. m \in 1..m /\ \A k \in 1..m : k \in 1..n
      OBVIOUS
    <3>. QED
      BY <3>1
  <2>2. Max(1..m) = m
    <3>1. Max(1..m) \in 1..m /\ \A k \in 1..m : k <= Max(1..m)
      BY <2>1, MaxIs
    <3>. QED
      BY <3>1
  <2>3. (1..m) \ {m} = 1..(m - 1) /\ m - 1 \in 0..n
    OBVIOUS
  <2>4. g[1..m] = Step(carry, g[1..(m - 1)], tokens[m])
    <3>1. g[1..m] = Step(carry, g[(1..m) \ {Max(1..m)}], tokens[Max(1..m)])
      BY <1>1, <2>1, Zenon DEF Folds
    <3>. QED
      BY <3>1, <2>2, <2>3, Zenon
  <2>. QED
    BY <2>3, <2>4
<1>4. Runs(l, carry, from, tokens, n)
  BY <1>2, <1>3 DEF Runs
<1>. QED
  BY <1>4

\* A fold is the last of them.
LEMMA OverIs ==
  ASSUME NEW carry, NEW from, NEW tokens, NEW n \in Nat, DOMAIN tokens = 1..n,
         NEW l, l[0] = from,
         \A m \in 1..n : l[m] = Step(carry, l[m - 1], tokens[m])
  PROVE  Over(carry, from, tokens) = l[n]
<1> DEFINE g == CHOOSE h : Folds(h, carry, from, tokens, n)
<1>1. Over(carry, from, tokens) = g[1..n]
  BY DEF Over, FoldLeft, MapThenFoldSet, Folds
<1>2. Folds(g, carry, from, tokens, n)
  BY FoldsExists
<1> HIDE DEF g
<1> DEFINE S == {m \in 0..n : g[1..m] = l[m]}
<1>3. 0 \in S
  <2>1. 1..0 = {} /\ {} \in SUBSET (1..n)
    OBVIOUS
  <2>2. g[{}] = from
    BY <1>2, <2>1, Zenon DEF Folds
  <2>. QED
    BY <2>1, <2>2
<1>4. ASSUME NEW m \in 0..(n - 1), m \in S
      PROVE  m + 1 \in S
  <2>1. 1..(m + 1) \in SUBSET (1..n) /\ 1..(m + 1) # {}
    <3>1. m + 1 \in 1..(m + 1) /\ \A k \in 1..(m + 1) : k \in 1..n
      OBVIOUS
    <3>. QED
      BY <3>1
  <2>2. Max(1..(m + 1)) = m + 1
    <3>1. Max(1..(m + 1)) \in 1..(m + 1) /\ \A k \in 1..(m + 1) : k <= Max(1..(m + 1))
      BY <2>1, MaxIs
    <3>. QED
      BY <3>1
  <2>3. (1..(m + 1)) \ {m + 1} = 1..m
    OBVIOUS
  <2>4. g[1..(m + 1)] = Step(carry, g[1..m], tokens[m + 1])
    <3>1. g[1..(m + 1)] = Step(carry, g[(1..(m + 1)) \ {Max(1..(m + 1))}],
                               tokens[Max(1..(m + 1))])
      BY <1>2, <2>1, Zenon DEF Folds
    <3>. QED
      BY <3>1, <2>2, <2>3, Zenon
  <2>5. l[m + 1] = Step(carry, l[m], tokens[m + 1])
    <3>1. m + 1 \in 1..n /\ (m + 1) - 1 = m
      OBVIOUS
    <3>. QED
      BY <3>1, Zenon
  <2>. QED
    BY <1>4, <2>4, <2>5
<1> HIDE DEF S
<1>5. \A m \in 0..n : m \in S
  BY <1>3, <1>4, CountingTo
<1>6. n \in S
  BY <1>5
<1>. QED
  BY <1>1, <1>6 DEF S

LEMMA OverEmpty ==
  ASSUME NEW carry, NEW from
  PROVE  Over(carry, from, <<>>) = from
<1> DEFINE l == [m \in 0..0 |-> from]
<1>1. DOMAIN <<>> = 1..0 /\ l[0] = from /\ \A m \in 1..0 : l[m] = Step(carry, l[m - 1], <<>>[m])
  OBVIOUS
<1> HIDE DEF l
<1>. QED
  BY <1>1, OverIs

LEMMA OverHead ==
  ASSUME NEW carry, NEW from, NEW Tok, NEW token \in Tok, NEW rest \in Seq(Tok)
  PROVE  Over(carry, from, <<token>> \o rest) = Over(carry, Step(carry, from, token), rest)
<1> DEFINE all == <<token>> \o rest
           n == Len(rest)
<1>1. n \in Nat /\ DOMAIN rest = 1..n /\ DOMAIN all = 1..(n + 1)
  OBVIOUS
<1>2. all[1] = token /\ \A m \in 1..n : all[m + 1] = rest[m]
  OBVIOUS
<1> HIDE DEF all, n
<1>3. PICK l : /\ l[0] = from
               /\ \A m \in 1..(n + 1) : l[m] = Step(carry, l[m - 1], all[m])
  <2>1. \A m \in Nat : \E l : Runs(l, carry, from, all, m)
    BY StatesExist
  <2>2. n + 1 \in Nat
    BY <1>1
  <2>3. \E l : Runs(l, carry, from, all, n + 1)
    BY <2>1, <2>2
  <2>. QED
    BY <2>3 DEF Runs
<1>4. Over(carry, from, all) = l[n + 1]
  BY <1>1, <1>3, OverIs, n + 1 \in Nat
<1> DEFINE k == [m \in 0..n |-> l[m + 1]]
<1>5. k[0] = Step(carry, from, token)
  <2>1. 1 \in 1..(n + 1) /\ 1 - 1 = 0 /\ 0 \in 0..n /\ 0 + 1 = 1
    BY <1>1
  <2>. QED
    BY <1>2, <1>3, <2>1
<1>6. ASSUME NEW m \in 1..n
      PROVE  k[m] = Step(carry, k[m - 1], rest[m])
  <2>1. m + 1 \in 1..(n + 1) /\ (m + 1) - 1 = m /\ (m - 1) + 1 = m /\ m \in 0..n /\ m - 1 \in 0..n
    BY <1>1
  <2>2. l[m + 1] = Step(carry, l[m], all[m + 1])
    BY <1>3, <2>1
  <2>. QED
    BY <1>2, <2>1, <2>2
<1>7. k[n] = l[n + 1]
  BY <1>1
<1> HIDE DEF k
<1>8. Over(carry, Step(carry, from, token), rest) = k[n]
  BY <1>1, <1>5, <1>6, OverIs
<1>. QED
  BY <1>4, <1>7, <1>8 DEF all

-----------------------------------------------------------------------------
(* The scanner *)

Kinds == {"STAR", "TODO", "PRIORITY", "SCHEDULED", "TAG", "DATE", "WORD", "NEWLINE"}
Tok == [kind : Kinds, word : Text, next : Nat]

\* What is at a position: a token, or something that is skipped; and what comes next.
IsSkipped(text, i) == DirectiveAt(text, i) \/ text[i] \in Blanks \cup RawBytes
TokenOf(text, i) == IF text[i] = NL THEN NewlineAt(text, i) ELSE TokenAt(text, i)
NextAt(text, i) ==
  IF DirectiveAt(text, i) THEN Past(text, i, Symbols \ {NL}) + 1
  ELSE IF text[i] \in Blanks \cup RawBytes THEN i + 1
  ELSE TokenOf(text, i).next

LEMMA SymbolsOf ==
  ASSUME NEW text \in Text, NEW i \in 1..Len(text)
  PROVE  /\ text[i] \in Symbols
         /\ text[i] = NL \/ text[i] \in Blanks \cup RawBytes \/ text[i] \in Glyphs
         /\ Len(text) \in Nat
BY DEF Text, Symbols

\* A word goes on to its end, a construct with its blank one further.
LEMMA TokenAtIs ==
  ASSUME NEW text \in Text, NEW i \in 1..Len(text), text[i] \in Glyphs,
         NEW next, next = Past(text, i, Glyphs)
  PROVE  /\ next \in (i + 1)..(Len(text) + 1)
         /\ SubSeq(text, i, next - 1) \in Text
         /\ Len(SubSeq(text, i, next - 1)) = next - i
         /\ \A j \in 1..(next - i) : SubSeq(text, i, next - 1)[j] = text[i + j - 1]
         /\ TokenAt(text, i) \in Tok
         /\ TokenAt(text, i).next \in (i + 1)..(Len(text) + 1)
         /\ \/ TokenAt(text, i).next \in (i + 1)..next
            \/ TokenAt(text, i).next = next + 1 /\ SpaceAt(text, next)
<1> DEFINE run == SubSeq(text, i, next - 1)
           Is(set) == Len(run) = 1 /\ run[1] \in set /\ SpaceAt(text, next)
<1>1. /\ next \in i..(Len(text) + 1)
      /\ \A j \in i..(next - 1) : text[j] \in Glyphs
      /\ next <= Len(text) => text[next] \notin Glyphs
  BY PastIs, i \in Nat \ {0}
<1>2. next \in (i + 1)..(Len(text) + 1) /\ Len(text) \in Nat
  BY <1>1 DEF Text
<1>3. run \in Text /\ Len(run) = next - i /\ \A j \in 1..(next - i) : run[j] = text[i + j - 1]
  BY <1>2 DEF Text
<1>4. SubSeq(run, 2, Len(run) - 1) \in Text
  <2>1. \A j \in 2..(Len(run) - 1) : run[j] \in Symbols
    BY <1>3 DEF Text
  <2>. QED
    BY <2>1, <1>3, SubSeqProperties DEF Text
<1>5. <<run[1]>> \in Text
  BY <1>2, <1>3 DEF Text
<1>6. TokenAt(text, i) =
        CASE Is({Star}) /\ AtBol(text, i) -> Token("STAR", run, next + 1)
          [] Is(Keywords)   -> Token("TODO", run, next + 1)
          [] Is(Priorities) -> Token("PRIORITY", run, next + 1)
          [] Is(Schedulers) -> Token("SCHEDULED", run, next + 1)
          [] IsTag(run)     -> Token("TAG", SubSeq(run, 2, Len(run) - 1), next)
          [] run[1] \in Dates \cup BadDates -> Token("DATE", <<run[1]>>, i + 1)
          [] OTHER -> Token("WORD", run, next)
  BY DEF TokenAt
<1>7. SpaceAt(text, next) => next + 1 \in (i + 1)..(Len(text) + 1)
  BY <1>2 DEF SpaceAt
<1> HIDE DEF run
<1>8. \/ \E kind \in {"STAR", "TODO", "PRIORITY", "SCHEDULED"} :
           TokenAt(text, i) = Token(kind, run, next + 1) /\ SpaceAt(text, next)
      \/ TokenAt(text, i) = Token("TAG", SubSeq(run, 2, Len(run) - 1), next)
      \/ TokenAt(text, i) = Token("DATE", <<run[1]>>, i + 1)
      \/ TokenAt(text, i) = Token("WORD", run, next)
  BY <1>6, Zenon
<1>9. next \in Nat /\ next + 1 \in Nat /\ i + 1 \in Nat
  BY <1>2
<1>10. TokenAt(text, i) \in Tok
  <2>1. \A kind \in Kinds, word \in Text, k \in Nat : Token(kind, word, k) \in Tok
    BY DEF Token, Tok
  <2>2. {"STAR", "TODO", "PRIORITY", "SCHEDULED", "TAG", "DATE", "WORD"} \subseteq Kinds
    BY DEF Kinds
  <2>3. CASE \E kind \in {"STAR", "TODO", "PRIORITY", "SCHEDULED"} :
               TokenAt(text, i) = Token(kind, run, next + 1) /\ SpaceAt(text, next)
    BY <1>3, <1>9, <2>1, <2>2, <2>3
  <2>4. CASE TokenAt(text, i) = Token("TAG", SubSeq(run, 2, Len(run) - 1), next)
    BY <1>4, <1>9, <2>1, <2>2, <2>4
  <2>5. CASE TokenAt(text, i) = Token("DATE", <<run[1]>>, i + 1)
    BY <1>5, <1>9, <2>1, <2>2, <2>5
  <2>6. CASE TokenAt(text, i) = Token("WORD", run, next)
    BY <1>3, <1>9, <2>1, <2>2, <2>6
  <2>. QED
    BY <1>8, <2>3, <2>4, <2>5, <2>6
<1>11. \/ TokenAt(text, i).next = next + 1 /\ SpaceAt(text, next)
       \/ TokenAt(text, i).next = next
       \/ TokenAt(text, i).next = i + 1
  BY <1>8 DEF Token
<1>. QED
  BY <1>2, <1>3, <1>7, <1>10, <1>11, SMTT(30) DEF run

LEMMA NewlineIs ==
  ASSUME NEW text \in Text, NEW i \in 1..Len(text), text[i] = NL
  PROVE  /\ NewlineAt(text, i) \in Tok
         /\ NewlineAt(text, i).kind = "NEWLINE"
         /\ NewlineAt(text, i).next \in (i + 1)..(Len(text) + 1)
         /\ \A j \in i..(NewlineAt(text, i).next - 1) : text[j] = NL
         /\ ~AtBol(text, i) => NewlineAt(text, i).next = i + 1
         /\ AtBol(text, i) /\ NewlineAt(text, i).next <= Len(text) =>
              text[NewlineAt(text, i).next] # NL
<1> DEFINE p == Past(text, i, {NL})
<1>1. /\ p \in i..(Len(text) + 1)
      /\ \A j \in i..(p - 1) : text[j] \in {NL}
      /\ p <= Len(text) => text[p] \notin {NL}
  BY PastIs, i \in Nat \ {0}
<1>2. p \in (i + 1)..(Len(text) + 1) /\ <<>> \in Text /\ Len(text) \in Nat
  BY <1>1 DEF Text
<1> HIDE DEF p
<1>3. NewlineAt(text, i) = Token("NEWLINE", <<>>, IF AtBol(text, i) THEN p ELSE i + 1)
  BY DEF NewlineAt, p
<1>. QED
  BY <1>1, <1>2, <1>3 DEF Token, Tok, Kinds

LEMMA DirectiveIs ==
  ASSUME NEW text \in Text, NEW i \in 1..Len(text), DirectiveAt(text, i)
  PROVE  /\ AtBol(text, i) /\ text[i] = Directive
         /\ NextAt(text, i) \in (i + 2)..(Len(text) + 1)
         /\ text[NextAt(text, i) - 1] = NL
         /\ \A j \in i..(NextAt(text, i) - 2) : text[j] # NL
<1> DEFINE p == Past(text, i, Symbols \ {NL})
<1>1. /\ p \in i..(Len(text) + 1)
      /\ \A j \in i..(p - 1) : text[j] \in Symbols \ {NL}
      /\ p <= Len(text) => text[p] \notin Symbols \ {NL}
  BY PastIs, i \in Nat \ {0}
<1>2. AtBol(text, i) /\ text[i] = Directive /\ p > i + 1 /\ p <= Len(text)
  BY DEF DirectiveAt
<1>3. NextAt(text, i) = p + 1 /\ Len(text) \in Nat
  BY DEF NextAt, Text
<1> HIDE DEF p
<1>4. text[p] = NL
  <2>1. p \in 1..Len(text)
    BY <1>1, <1>2
  <2>. QED
    BY <1>1, <1>2, <2>1, SymbolsOf
<1>. QED
  BY <1>1, <1>2, <1>3, <1>4

LEMMA NextIs ==
  ASSUME NEW text \in Text, NEW i \in 1..Len(text)
  PROVE  /\ NextAt(text, i) \in (i + 1)..(Len(text) + 1)
         /\ ~IsSkipped(text, i) => TokenOf(text, i) \in Tok /\ NextAt(text, i) = TokenOf(text, i).next
<1>0. Len(text) \in Nat
  BY DEF Text
<1>1. CASE DirectiveAt(text, i)
  BY <1>0, <1>1, DirectiveIs DEF IsSkipped
<1>2. CASE ~DirectiveAt(text, i) /\ text[i] \in Blanks \cup RawBytes
  BY <1>0, <1>2 DEF IsSkipped, NextAt
<1>3. CASE ~IsSkipped(text, i) /\ text[i] = NL
  <2>1. NextAt(text, i) = NewlineAt(text, i).next /\ TokenOf(text, i) = NewlineAt(text, i)
    BY <1>3 DEF IsSkipped, NextAt, TokenOf
  <2>. QED
    BY <1>3, <2>1, NewlineIs
<1>4. CASE ~IsSkipped(text, i) /\ text[i] # NL
  <2>1. NextAt(text, i) = TokenAt(text, i).next /\ TokenOf(text, i) = TokenAt(text, i)
    BY <1>4 DEF IsSkipped, NextAt, TokenOf
  <2>2. text[i] \in Glyphs
    BY <1>4, SymbolsOf DEF IsSkipped
  <2>. QED
    BY <2>1, <2>2, TokenAtIs
<1>. QED
  BY <1>1, <1>2, <1>3, <1>4 DEF IsSkipped

\* The tokens from a position on, given those of the positions behind it.
ScanAt(g, text, i) ==
  IF i > Len(text) THEN <<>>
  ELSE IF DirectiveAt(text, i) THEN g[Past(text, i, Symbols \ {NL}) + 1]
  ELSE IF text[i] \in Blanks \cup RawBytes THEN g[i + 1]
  ELSE LET token == IF text[i] = NL THEN NewlineAt(text, i) ELSE TokenAt(text, i)
       IN  <<token>> \o g[token.next]
Scans(g, text) == g = [i \in 1..(Len(text) + 1) |-> ScanAt(g, text, i)]

LEMMA ScanAtIs ==
  ASSUME NEW g, NEW text, NEW i
  PROVE  ScanAt(g, text, i) =
           IF i > Len(text) THEN <<>>
           ELSE IF IsSkipped(text, i) THEN g[NextAt(text, i)]
           ELSE <<TokenOf(text, i)>> \o g[NextAt(text, i)]
BY DEF ScanAt, IsSkipped, NextAt, TokenOf

LEMMA ScanExists ==
  ASSUME NEW text \in Text
  PROVE  \E g : Scans(g, text)
<1> DEFINE n == Len(text)
           Good(g, k) == \A i \in (n + 1 - k)..(n + 1) : g[i] = ScanAt(g, text, i)
           S == {k \in 0..n : \E g : Good(g, k)}
<1>0. n \in Nat
  BY DEF Text
<1>1. 0 \in S
  <2>1. Good([i \in 1..(n + 1) |-> <<>>], 0)
    <3> SUFFICES ASSUME NEW i \in (n + 1 - 0)..(n + 1)
                 PROVE  [j \in 1..(n + 1) |-> <<>>][i] = ScanAt([j \in 1..(n + 1) |-> <<>>], text, i)
      OBVIOUS
    <3>1. i = n + 1 /\ i > Len(text)
      BY <1>0
    <3>. QED
      BY <1>0, <3>1 DEF ScanAt
  <2>. QED
    BY <1>0, <2>1
<1>2. ASSUME NEW k \in 0..(n - 1), k \in S
      PROVE  k + 1 \in S
  <2>1. PICK g : Good(g, k)
    BY <1>2
  <2> DEFINE p == n + 1 - (k + 1)
             h == [i \in 1..(n + 1) |-> IF i = p THEN ScanAt(g, text, i) ELSE g[i]]
  <2>2. p \in 1..n
    BY <1>0
  <2>3. ASSUME NEW i \in p..(n + 1)
        PROVE  h[i] = ScanAt(h, text, i)
    <3>1. i \in 1..(n + 1) /\ h[i] = ScanAt(g, text, i)
      <4>1. CASE i = p
        BY <1>0, <2>2, <4>1
      <4>2. CASE i # p
        <5>1. i \in (n + 1 - k)..(n + 1) /\ i \in 1..(n + 1)
          BY <1>0, <2>2, <4>2
        <5>. QED
          BY <2>1, <4>2, <5>1
      <4>. QED
        BY <4>1, <4>2
    <3>2. CASE i > Len(text)
      BY <3>1, <3>2 DEF ScanAt
    <3>3. CASE ~(i > Len(text))
      <4>1. i \in 1..Len(text) /\ NextAt(text, i) \in (i + 1)..(Len(text) + 1)
        BY <1>0, <2>2, <3>1, <3>3, NextIs
      <4>2. NextAt(text, i) # p /\ NextAt(text, i) \in 1..(n + 1)
        BY <1>0, <2>2, <4>1
      <4>3. h[NextAt(text, i)] = g[NextAt(text, i)]
        BY <4>2
      <4> HIDE DEF h
      <4>. QED
        BY <3>1, <4>3, ScanAtIs
    <3>. QED
      BY <3>2, <3>3
  <2>4. Good(h, k + 1)
    BY <2>3
  <2> HIDE DEF Good, h
  <2>5. k + 1 \in 0..n
    BY <1>0
  <2>. QED
    BY <2>4, <2>5
<1> HIDE DEF S
<1>3. n \in S
  <2>1. \A k \in 0..n : k \in S
    BY <1>0, <1>1, <1>2, CountingTo
  <2>. QED
    BY <1>0, <2>1
<1>4. PICK g : Good(g, n)
  BY <1>3 DEF S
<1> DEFINE h == [i \in 1..(n + 1) |-> g[i]]
<1>5. ASSUME NEW i \in 1..(n + 1)
      PROVE  h[i] = ScanAt(h, text, i)
  <2>1. g[i] = ScanAt(g, text, i)
    BY <1>0, <1>4
  <2>2. CASE i > Len(text)
    BY <2>1, <2>2 DEF ScanAt
  <2>3. CASE ~(i > Len(text))
    <3>1. i \in 1..Len(text) /\ NextAt(text, i) \in (i + 1)..(Len(text) + 1)
      BY <1>0, <2>3, NextIs
    <3>2. h[NextAt(text, i)] = g[NextAt(text, i)] /\ h[i] = g[i]
      BY <1>0, <3>1
    <3> HIDE DEF h
    <3>. QED
      BY <2>1, <3>2, ScanAtIs
  <2>. QED
    BY <2>2, <2>3
<1>6. Scans(h, text)
  <2> DEFINE k == [i \in 1..(n + 1) |-> ScanAt(h, text, i)]
  <2>1. \A i \in 1..(n + 1) : h[i] = k[i]
    BY <1>5
  <2>2. h = k
    BY <2>1
  <2>. QED
    BY <2>2 DEF Scans
<1>. QED
  BY <1>6

\* The tokens from a position on.
Scan(text) == CHOOSE g : Scans(g, text)

LEMMA ScanIs ==
  ASSUME NEW text \in Text
  PROVE  /\ Tokens(text) = Scan(text)[1]
         /\ Scan(text)[Len(text) + 1] = <<>>
         /\ \A i \in 1..Len(text) :
              Scan(text)[i] = IF IsSkipped(text, i) THEN Scan(text)[NextAt(text, i)]
                              ELSE <<TokenOf(text, i)>> \o Scan(text)[NextAt(text, i)]
<1>0. Len(text) \in Nat
  BY DEF Text
<1>1. Tokens(text) = Scan(text)[1]
  BY DEF Tokens, Scan, Scans, ScanAt
<1>2. Scans(Scan(text), text)
  BY ScanExists DEF Scan
<1>3. \A i \in 1..(Len(text) + 1) : Scan(text)[i] = ScanAt(Scan(text), text, i)
  BY <1>2, Zenon DEF Scans
<1>4. Scan(text)[Len(text) + 1] = <<>>
  <2>1. Len(text) + 1 \in 1..(Len(text) + 1) /\ Len(text) + 1 > Len(text)
    BY <1>0
  <2>. QED
    BY <1>3, <2>1 DEF ScanAt
<1>5. ASSUME NEW i \in 1..Len(text)
      PROVE  Scan(text)[i] = IF IsSkipped(text, i) THEN Scan(text)[NextAt(text, i)]
                             ELSE <<TokenOf(text, i)>> \o Scan(text)[NextAt(text, i)]
  <2>1. i \in 1..(Len(text) + 1) /\ ~(i > Len(text))
    BY <1>0
  <2>2. Scan(text)[i] = ScanAt(Scan(text), text, i)
    BY <1>3, <2>1
  <2>. QED
    BY <2>1, <2>2, ScanAtIs
<1>. QED
  BY <1>1, <1>4, <1>5

LEMMA ScanTyped ==
  ASSUME NEW text \in Text
  PROVE  \A i \in 1..(Len(text) + 1) : Scan(text)[i] \in Seq(Tok)
<1> DEFINE n == Len(text)
           S == {k \in 0..n : \A i \in (n + 1 - k)..(n + 1) : Scan(text)[i] \in Seq(Tok)}
<1>0. n \in Nat
  BY DEF Text
<1>1. 0 \in S
  <2>1. \A i \in (n + 1 - 0)..(n + 1) : i = n + 1
    BY <1>0
  <2>2. Scan(text)[n + 1] = <<>>
    BY ScanIs
  <2>3. <<>> \in Seq(Tok)
    OBVIOUS
  <2>4. 0 \in 0..n
    BY <1>0
  <2> HIDE DEF n
  <2>. QED
    BY <2>1, <2>2, <2>3, <2>4
<1>2. ASSUME NEW k \in 0..(n - 1), k \in S
      PROVE  k + 1 \in S
  <2>1. ASSUME NEW i \in (n + 1 - (k + 1))..(n + 1)
        PROVE  Scan(text)[i] \in Seq(Tok)
    <3>1. CASE i \in (n + 1 - k)..(n + 1)
      BY <1>2, <3>1
    <3>2. CASE i = n - k
      <4>1. i \in 1..Len(text) /\ NextAt(text, i) \in (i + 1)..(Len(text) + 1)
        BY <1>0, <3>2, NextIs
      <4>2. NextAt(text, i) \in (n + 1 - k)..(n + 1)
        BY <1>0, <3>2, <4>1
      <4>3. Scan(text)[NextAt(text, i)] \in Seq(Tok)
        BY <1>2, <4>2
      <4>4. ~IsSkipped(text, i) => TokenOf(text, i) \in Tok
        BY <4>1, NextIs
      <4>5. \A token \in Tok, rest \in Seq(Tok) : <<token>> \o rest \in Seq(Tok)
        OBVIOUS
      <4>6. Scan(text)[i] = IF IsSkipped(text, i) THEN Scan(text)[NextAt(text, i)]
                            ELSE <<TokenOf(text, i)>> \o Scan(text)[NextAt(text, i)]
        BY <4>1, ScanIs
      <4>. QED
        BY <4>3, <4>4, <4>5, <4>6, Zenon
    <3>. QED
      BY <1>0, <3>1, <3>2
  <2>. QED
    BY <1>0, <2>1
<1> HIDE DEF S
<1>3. n \in S
  <2>1. \A k \in 0..n : k \in S
    BY <1>0, <1>1, <1>2, CountingTo
  <2>. QED
    BY <1>0, <2>1
<1>. QED
  BY <1>0, <1>3 DEF S

-----------------------------------------------------------------------------
(* The parser *)

Places == LineStarts \cup {"start", "begun", "star", "todo", "prio", "headline", "tagged",
                           "scheduled", "date", "line", "error"}
State == [place : Places, line : Text, tag : Text \cup {NULL}, date : Text,
          notes : Seq(Item), stop : Nat]

\* The last note with another line of text
LastWith(list, text) == [list EXCEPT ![Len(list)] = WithText(@, text)]

\* The moves of the grammar, by where they lead
Moves(place, kind, p) ==
  /\ p \in Places
  /\ p = "star" => kind = "STAR"
  /\ kind = "STAR" => p \in {"star", "error"}
  /\ kind = "STAR" /\ place \in LineStarts \cup {"start", "begun"} => p = "star"
  /\ p = "header" => kind = "NEWLINE" /\ place \in {"headline", "tagged"}
  /\ p = "dated" => kind = "NEWLINE" /\ place = "date"
  /\ p = "text" => kind = "NEWLINE" /\ place \in {"line", "text"}
  /\ p = "date" => kind = "DATE" /\ place = "scheduled"
  /\ p = "tagged" => kind = "TAG" /\ place = "headline"
  /\ p = "scheduled" => kind = "SCHEDULED" /\ place = "header"
  /\ p = "line" => kind = "WORD" /\ place \in LineStarts \cup {"line"}
  /\ p = "headline" =>
       kind = "WORD" /\ place \in {"star", "todo", "prio", "headline"}
  /\ p = "todo" => kind = "TODO" /\ place = "star"
  /\ p = "prio" => kind = "PRIORITY" /\ place \in {"star", "todo"}
  /\ p = "begun" => kind = "NEWLINE" /\ place = "start"
  /\ p # "start"
  /\ kind = "WORD" => p \in {"headline", "line", "error"}
  /\ kind = "TAG" => p \in {"tagged", "error"}
  /\ kind = "DATE" => p \in {"date", "error"}
  /\ kind = "NEWLINE" /\ place = "line" => p = "text"

LEMMA ShiftIs ==
  ASSUME NEW place \in Places, NEW kind \in Kinds
  PROVE  Moves(place, kind, Shift(place, kind))
<1>1. CASE kind = "STAR"
  BY <1>1, SMTT(20) DEF Moves, Shift, Places, LineStarts
<1>2. CASE kind = "TODO"
  BY <1>2, SMTT(20) DEF Moves, Shift, Places, LineStarts
<1>3. CASE kind = "PRIORITY"
  BY <1>3, SMTT(20) DEF Moves, Shift, Places, LineStarts
<1>4. CASE kind = "SCHEDULED"
  BY <1>4, SMTT(20) DEF Moves, Shift, Places, LineStarts
<1>5. CASE kind = "TAG"
  BY <1>5, SMTT(20) DEF Moves, Shift, Places, LineStarts
<1>6. CASE kind = "DATE"
  BY <1>6, SMTT(20) DEF Moves, Shift, Places, LineStarts
<1>7. CASE kind = "WORD"
  BY <1>7, SMTT(20) DEF Moves, Shift, Places, LineStarts
<1>8. CASE kind = "NEWLINE"
  BY <1>8, SMTT(20) DEF Moves, Shift, Places, LineStarts
<1>. QED
  BY <1>1, <1>2, <1>3, <1>4, <1>5, <1>6, <1>7, <1>8 DEF Kinds

\* What a token changes, field by field.
LEMMA TakeIs ==
  ASSUME NEW s \in State, NEW token \in Tok, NEW p, p = Shift(s.place, token.kind),
         NEW t, t = Take(s, token)
  PROVE  /\ p \in Places
         /\ t = [place |-> t.place, line |-> t.line, tag |-> t.tag, date |-> t.date,
                 notes |-> t.notes, stop |-> t.stop]
         /\ t.place = IF p = "dated" /\ IsRefused(s.date) THEN "start" ELSE p
         /\ t.line = IF p \in {"headline", "line"} THEN WithWord(s.place, s.line, token.word)
                     ELSE s.line
         /\ t.tag = IF p = "tagged" THEN token.word ELSE s.tag
         /\ t.date = IF p = "date" THEN token.word ELSE s.date
         /\ t.notes = IF p = "header" THEN Append(s.notes, Note(s.line, TagOf(s), NULL))
                      ELSE IF p = "text"
                      THEN LastWith(s.notes, IF s.place = "line" THEN s.line ELSE <<>>)
                      ELSE s.notes
         /\ t.stop = IF p = "dated" /\ IsRefused(s.date) THEN token.next ELSE s.stop
<1>1. s.place \in Places /\ token.kind \in Kinds
  BY DEF State, Tok
<1> DEFINE with == [place |-> p, line |-> s.line, tag |-> s.tag, date |-> s.date,
                    notes |-> s.notes, stop |-> s.stop]
           moved == [s EXCEPT !.place = p]
           word == [with EXCEPT !.line = WithWord(s.place, s.line, token.word)]
           tag == [with EXCEPT !.tag = token.word]
           date == [with EXCEPT !.date = token.word]
           note == [with EXCEPT !.notes = Append(s.notes, Note(s.line, TagOf(s), NULL))]
           gone == [place |-> "start", line |-> s.line, tag |-> s.tag, date |-> s.date,
                    notes |-> s.notes, stop |-> token.next]
           lined == [with EXCEPT !.notes =
                       LastWith(s.notes, IF s.place = "line" THEN s.line ELSE <<>>)]
<1>2. moved = with
  <2>1. s = [place |-> s.place, line |-> s.line, tag |-> s.tag, date |-> s.date,
             notes |-> s.notes, stop |-> s.stop]
    BY DEF State
  <2>. QED
    BY <2>1
<1>3. /\ [moved EXCEPT !.line = WithWord(s.place, @, token.word)] = word
      /\ [moved EXCEPT !.tag = token.word] = tag
      /\ [moved EXCEPT !.date = token.word] = date
      /\ [moved EXCEPT !.notes = Append(@, Note(s.line, TagOf(s), NULL))] = note
      /\ [moved EXCEPT !.place = "start", !.stop = token.next] = gone
  <2> HIDE DEF moved
  <2>1. /\ [moved EXCEPT !.line = WithWord(s.place, @, token.word)] = word
        /\ [moved EXCEPT !.tag = token.word] = tag
    BY <1>2
  <2>2. /\ [moved EXCEPT !.date = token.word] = date
        /\ [moved EXCEPT !.notes = Append(@, Note(s.line, TagOf(s), NULL))] = note
    BY <1>2
  <2>3. [moved EXCEPT !.place = "start", !.stop = token.next] = gone
    <3> DEFINE r == [moved EXCEPT !.place = "start", !.stop = token.next]
    <3>1. DOMAIN r = {"place", "line", "tag", "date", "notes", "stop"}
      BY <1>2
    <3>2. r.place = "start" /\ r.stop = token.next
      BY <1>2
    <3>3. r.line = s.line /\ r.tag = s.tag /\ r.date = s.date /\ r.notes = s.notes
      BY <1>2
    <3>4. r = [x \in {"place", "line", "tag", "date", "notes", "stop"} |-> r[x]]
      BY <3>1
    <3> HIDE DEF r
    <3>5. r = gone
      BY <3>2, <3>3, <3>4
    <3>. QED
      BY <3>5 DEF r
  <2>. QED
    BY <2>1, <2>2, <2>3
<1>4. WithLine(moved, IF s.place = "line" THEN s.line ELSE <<>>) = lined
  <2>1. moved.notes = s.notes
    BY <1>2
  <2> HIDE DEF moved
  <2>2. \A text : WithLine(moved, text) = [moved EXCEPT !.notes = LastWith(moved.notes, text)]
    BY DEF WithLine, LastWith
  <2>. QED
    BY <1>2, <2>1, <2>2
<1>5. t = CASE p \in {"headline", "line"} -> word
            [] p = "tagged" -> tag
            [] p = "date"   -> date
            [] p = "header" -> note
            [] p = "dated" /\ IsRefused(s.date) -> gone
            [] p = "text"   -> lined
            [] OTHER -> with
  <2>1. t = CASE p \in {"headline", "line"} ->
                   [moved EXCEPT !.line = WithWord(s.place, @, token.word)]
              [] p = "tagged" -> [moved EXCEPT !.tag = token.word]
              [] p = "date"   -> [moved EXCEPT !.date = token.word]
              [] p = "header" ->
                   [moved EXCEPT !.notes = Append(@, Note(s.line, TagOf(s), NULL))]
              [] p = "dated" /\ IsRefused(s.date) ->
                   [moved EXCEPT !.place = "start", !.stop = token.next]
              [] p = "text" -> WithLine(moved, IF s.place = "line" THEN s.line ELSE <<>>)
              [] OTHER -> moved
    BY Zenon DEF Take
  <2> HIDE DEF with, moved, word, tag, date, note, gone, lined
  <2>. QED
    BY <1>2, <1>3, <1>4, <2>1, Zenon
<1>6. p \in Places
  BY <1>1, ShiftIs DEF Moves
<1> DEFINE Fields(r) ==
      /\ r = [place |-> r.place, line |-> r.line, tag |-> r.tag, date |-> r.date,
              notes |-> r.notes, stop |-> r.stop]
      /\ r.place = IF p = "dated" /\ IsRefused(s.date) THEN "start" ELSE p
      /\ r.line = IF p \in {"headline", "line"} THEN WithWord(s.place, s.line, token.word)
                  ELSE s.line
      /\ r.tag = IF p = "tagged" THEN token.word ELSE s.tag
      /\ r.date = IF p = "date" THEN token.word ELSE s.date
      /\ r.notes = IF p = "header" THEN Append(s.notes, Note(s.line, TagOf(s), NULL))
                   ELSE IF p = "text"
                   THEN LastWith(s.notes, IF s.place = "line" THEN s.line ELSE <<>>)
                   ELSE s.notes
      /\ r.stop = IF p = "dated" /\ IsRefused(s.date) THEN token.next ELSE s.stop
<1>7. /\ p \in {"headline", "line"} => Fields(word)
      /\ p = "tagged" => Fields(tag)
      /\ p = "date" => Fields(date)
      /\ p = "header" => Fields(note)
      /\ p = "dated" /\ IsRefused(s.date) => Fields(gone)
      /\ p = "text" => Fields(lined)
      /\ p \notin {"headline", "line", "tagged", "date", "header", "text"}
           /\ ~(p = "dated" /\ IsRefused(s.date)) => Fields(with)
  <2>1. CASE p \in {"headline", "line"}
    BY <2>1
  <2>2. CASE p = "tagged"
    BY <2>2
  <2>3. CASE p = "date"
    BY <2>3
  <2>4. CASE p = "header"
    BY <2>4
  <2>5. CASE p = "dated" /\ IsRefused(s.date)
    BY <2>5
  <2>6. CASE p = "text"
    BY <2>6
  <2>7. CASE p \notin {"headline", "line", "tagged", "date", "header", "text"}
               /\ ~(p = "dated" /\ IsRefused(s.date))
    BY <2>7
  <2> HIDE DEF with, moved, word, tag, date, note, gone, lined, Fields
  <2>. QED
    BY <2>1, <2>2, <2>3, <2>4, <2>5, <2>6, <2>7
<1> HIDE DEF with, moved, word, tag, date, note, gone, lined, Fields
<1>8. Fields(t)
  BY <1>5, <1>7
<1>. QED
  BY <1>6, <1>8 DEF Fields

LEMMA WithTextTyped ==
  ASSUME NEW note \in Item, NEW text \in Text
  PROVE  WithText(note, text) \in Item
<1>1. <<NL>> \in Text
  BY DEF Text, Symbols
<1>2. \A a, b \in Text : a \o b \in Text
  BY DEF Text
<1>3. (IF note.text = NULL THEN text ELSE note.text \o <<NL>> \o text) \in Text
  BY <1>1, <1>2 DEF Item
<1>. QED
  BY <1>3 DEF WithText, Item

LEMMA TakeTyped ==
  ASSUME NEW s \in State, NEW token \in Tok
  PROVE  Take(s, token) \in State
<1> DEFINE t == Take(s, token)
           p == Shift(s.place, token.kind)
<1>1. /\ p \in Places
      /\ t = [place |-> t.place, line |-> t.line, tag |-> t.tag, date |-> t.date,
              notes |-> t.notes, stop |-> t.stop]
      /\ t.place = IF p = "dated" /\ IsRefused(s.date) THEN "start" ELSE p
      /\ t.line = IF p \in {"headline", "line"} THEN WithWord(s.place, s.line, token.word)
                  ELSE s.line
      /\ t.tag = IF p = "tagged" THEN token.word ELSE s.tag
      /\ t.date = IF p = "date" THEN token.word ELSE s.date
      /\ t.notes = IF p = "header" THEN Append(s.notes, Note(s.line, TagOf(s), NULL))
                   ELSE IF p = "text"
                   THEN LastWith(s.notes, IF s.place = "line" THEN s.line ELSE <<>>)
                   ELSE s.notes
      /\ t.stop = IF p = "dated" /\ IsRefused(s.date) THEN token.next ELSE s.stop
  BY TakeIs
<1>2. /\ s.place \in Places /\ s.line \in Text /\ s.tag \in Text \cup {NULL}
      /\ s.date \in Text /\ s.notes \in Seq(Item) /\ s.stop \in Nat
      /\ token.word \in Text /\ token.next \in Nat
  BY DEF State, Tok
<1> HIDE DEF t, p
<1>3. t.place \in Places
  BY <1>1 DEF Places
<1>4. t.line \in Text
  <2>1. WithWord(s.place, s.line, token.word) \in Text
    <3>1. <<SP>> \in Text
      BY DEF Text, Symbols, Blanks
    <3>2. \A a, b \in Text : a \o b \in Text
      BY DEF Text
    <3>. QED
      BY <1>2, <3>1, <3>2 DEF WithWord
  <2>. QED
    BY <1>1, <1>2, <2>1
<1>5. t.tag \in Text \cup {NULL} /\ t.date \in Text /\ t.stop \in Nat
  BY <1>1, <1>2
<1>6. t.notes \in Seq(Item)
  <2>1. Note(s.line, TagOf(s), NULL) \in Item
    BY <1>2 DEF Note, TagOf, Item
  <2>2. Append(s.notes, Note(s.line, TagOf(s), NULL)) \in Seq(Item)
    BY <1>2, <2>1
  <2>3. \A text \in Text : LastWith(s.notes, text) \in Seq(Item)
    <3> TAKE text \in Text
    <3>1. Len(s.notes) \in DOMAIN s.notes => WithText(s.notes[Len(s.notes)], text) \in Item
      BY <1>2, WithTextTyped
    <3>2. CASE Len(s.notes) \in DOMAIN s.notes
      <4>1. LastWith(s.notes, text) =
              [s.notes EXCEPT ![Len(s.notes)] = WithText(s.notes[Len(s.notes)], text)]
        BY DEF LastWith
      <4>. QED
        BY <1>2, <3>1, <3>2, <4>1
    <3>3. CASE Len(s.notes) \notin DOMAIN s.notes
      <4>1. LastWith(s.notes, text) = s.notes
        BY <1>2, <3>3 DEF LastWith
      <4>. QED
        BY <1>2, <4>1
    <3>. QED
      BY <3>2, <3>3
  <2>4. <<>> \in Text
    BY DEF Text
  <2>5. (IF s.place = "line" THEN s.line ELSE <<>>) \in Text
    BY <1>2, <2>4
  <2>. QED
    BY <1>1, <1>2, <2>2, <2>3, <2>5
<1>7. t \in State
  BY <1>1, <1>3, <1>4, <1>5, <1>6 DEF State
<1>. QED
  BY <1>7 DEF t

-----------------------------------------------------------------------------
(* The parser's way through a text *)

\* What the parser makes of what is at a position.
Move(carry, text, i, s) ==
  IF IsSkipped(text, i) THEN s ELSE Step(carry, s, TokenOf(text, i))

LEMMA MoveTyped ==
  ASSUME NEW carry, NEW text \in Text, NEW i \in 1..Len(text), NEW s \in State
  PROVE  Move(carry, text, i, s) \in State /\ NextAt(text, i) \in 1..(Len(text) + 1)
<1>1. NextAt(text, i) \in (i + 1)..(Len(text) + 1) /\ Len(text) \in Nat
  BY NextIs DEF Text
<1>2. ~IsSkipped(text, i) => TokenOf(text, i) \in Tok
  BY NextIs
<1>3. \A token \in Tok : Step(carry, s, token) \in State
  BY TakeTyped DEF Step
<1>. QED
  BY <1>1, <1>2, <1>3 DEF Move

\* A fold over the tokens from a position on begins with a move.
LEMMA MoveIs ==
  ASSUME NEW carry, NEW text \in Text, NEW i \in 1..Len(text), NEW s
  PROVE  Over(carry, s, Scan(text)[i])
           = Over(carry, Move(carry, text, i, s), Scan(text)[NextAt(text, i)])
<1>1. CASE IsSkipped(text, i)
  BY <1>1, ScanIs DEF Move
<1>2. CASE ~IsSkipped(text, i)
  <2>1. TokenOf(text, i) \in Tok
    BY <1>2, NextIs
  <2>2. NextAt(text, i) \in 1..(Len(text) + 1)
    <3>1. NextAt(text, i) \in (i + 1)..(Len(text) + 1) /\ Len(text) \in Nat
      BY NextIs DEF Text
    <3>. QED
      BY <3>1
  <2>3. Scan(text)[NextAt(text, i)] \in Seq(Tok)
    BY <2>2, ScanTyped
  <2>4. Scan(text)[i] = <<TokenOf(text, i)>> \o Scan(text)[NextAt(text, i)]
    BY <1>2, ScanIs
  <2>5. Move(carry, text, i, s) = Step(carry, s, TokenOf(text, i))
    BY <1>2 DEF Move
  <2>. QED
    BY <2>1, <2>3, <2>4, <2>5, OverHead
<1>. QED
  BY <1>1, <1>2

\* What every move keeps holds at the end.
LEMMA Walk ==
  ASSUME NEW carry, NEW text \in Text,
         NEW from \in State, NEW first \in 1..(Len(text) + 1),
         NEW I \in SUBSET (State \X (1..(Len(text) + 1))),
         <<from, first>> \in I,
         \A s \in State, i \in 1..Len(text) :
           <<s, i>> \in I => <<Move(carry, text, i, s), NextAt(text, i)>> \in I
  PROVE  <<Over(carry, from, Scan(text)[first]), Len(text) + 1>> \in I
<1> DEFINE n == Len(text)
           Ends(s, i) == <<Over(carry, s, Scan(text)[i]), n + 1>> \in I
           S == {k \in 0..n : \A i \in (n + 1 - k)..(n + 1), s \in State :
                                <<s, i>> \in I => Ends(s, i)}
<1>0. n \in Nat
  BY DEF Text
<1>1. 0 \in S
  <2>1. ASSUME NEW i \in (n + 1 - 0)..(n + 1), NEW s \in State, <<s, i>> \in I
        PROVE  Ends(s, i)
    <3>1. i = n + 1
      BY <1>0
    <3>2. Scan(text)[i] = <<>>
      BY <3>1, ScanIs
    <3>. QED
      BY <2>1, <3>1, <3>2, OverEmpty
  <2> HIDE DEF Ends
  <2>. QED
    BY <1>0, <2>1
<1>2. ASSUME NEW k \in 0..(n - 1), k \in S
      PROVE  k + 1 \in S
  <2>1. ASSUME NEW i \in (n + 1 - (k + 1))..(n + 1), NEW s \in State, <<s, i>> \in I
        PROVE  Ends(s, i)
    <3>1. CASE i \in (n + 1 - k)..(n + 1)
      BY <1>2, <2>1, <3>1
    <3>2. CASE i = n - k
      <4>1. i \in 1..Len(text) /\ NextAt(text, i) \in (i + 1)..(Len(text) + 1)
        BY <1>0, <3>2, NextIs
      <4>2. NextAt(text, i) \in (n + 1 - k)..(n + 1)
        BY <1>0, <3>2, <4>1
      <4>3. Move(carry, text, i, s) \in State
        BY <4>1, MoveTyped
      <4>4. <<Move(carry, text, i, s), NextAt(text, i)>> \in I
        BY <2>1, <4>1
      <4>5. Ends(Move(carry, text, i, s), NextAt(text, i))
        BY <1>2, <4>2, <4>3, <4>4
      <4>6. Over(carry, s, Scan(text)[i])
              = Over(carry, Move(carry, text, i, s), Scan(text)[NextAt(text, i)])
        BY <4>1, MoveIs
      <4>. QED
        BY <4>5, <4>6
    <3>. QED
      BY <1>0, <3>1, <3>2
  <2> HIDE DEF Ends
  <2>2. k + 1 \in 0..n
    BY <1>0
  <2>. QED
    BY <2>1, <2>2
<1> HIDE DEF S
<1>3. n \in S
  <2>1. \A k \in 0..n : k \in S
    BY <1>0, <1>1, <1>2, CountingTo
  <2>. QED
    BY <1>0, <2>1
<1>4. first \in (n + 1 - n)..(n + 1)
  BY <1>0
<1>. QED
  BY <1>3, <1>4 DEF S

LEMMA ParsedIs ==
  ASSUME NEW carry \in Text, NEW text \in Text
  PROVE  /\ carry \o text \in Text
         /\ Parsed(carry, text) = Over(carry, Fresh, Scan(carry \o text)[1])
         /\ Fresh \in State
         /\ 1 \in 1..(Len(carry \o text) + 1)
<1>1. carry \o text \in Text
  BY DEF Text
<1>2. Parsed(carry, text) = Over(carry, Fresh, Tokens(carry \o text))
  BY DEF Parsed, Over
<1>3. Tokens(carry \o text) = Scan(carry \o text)[1]
  BY <1>1, ScanIs
<1>4. Fresh \in State
  <2>1. <<>> \in Text /\ <<>> \in Seq(Item) /\ "start" \in Places /\ 0 \in Nat
    BY DEF Text, Places
  <2>. QED
    BY <2>1 DEF Fresh, State
<1>5. Len(carry \o text) \in Nat
  BY <1>1 DEF Text
<1>. QED
  BY <1>1, <1>2, <1>3, <1>4, <1>5

\* The parser reads no further than the text goes.
LEMMA ParsedTyped ==
  ASSUME NEW carry \in Text, NEW text \in Text
  PROVE  Parsed(carry, text) \in State /\ Parsed(carry, text).stop <= Len(carry \o text) + 1
<1> DEFINE all == carry \o text
           I == {m \in State \X (1..(Len(all) + 1)) : m[1].stop <= Len(all) + 1}
<1>1. all \in Text /\ Fresh \in State /\ 1 \in 1..(Len(all) + 1) /\ Len(all) \in Nat
  <2>1. all \in Text
    BY ParsedIs
  <2>2. Len(all) \in Nat
    BY <2>1 DEF Text
  <2>. QED
    BY <2>1, <2>2, ParsedIs
<1> HIDE DEF all
<1>2. <<Fresh, 1>> \in I
  BY <1>1 DEF Fresh
<1>3. ASSUME NEW s \in State, NEW i \in 1..Len(all), <<s, i>> \in I
      PROVE  <<Move(carry, all, i, s), NextAt(all, i)>> \in I
  <2>1. Move(carry, all, i, s) \in State /\ NextAt(all, i) \in 1..(Len(all) + 1)
    BY <1>1, MoveTyped
  <2>2. s.stop <= Len(all) + 1
    BY <1>3
  <2>3. Move(carry, all, i, s).stop <= Len(all) + 1
    <3>1. CASE IsSkipped(all, i)
      BY <2>2, <3>1 DEF Move
    <3>2. CASE ~IsSkipped(all, i)
      <4>1. TokenOf(all, i) \in Tok /\ TokenOf(all, i).next = NextAt(all, i)
        BY <1>1, <3>2, NextIs
      <4>2. Take(s, TokenOf(all, i)).stop \in {s.stop, NextAt(all, i)}
        BY <4>1, TakeIs
      <4>3. Take(s, TokenOf(all, i)).stop <= Len(all) + 1
        BY <2>1, <2>2, <4>2
      <4>. QED
        BY <2>2, <3>2, <4>3 DEF Move, Step
    <3>. QED
      BY <3>1, <3>2
  <2>. QED
    BY <2>1, <2>3
<1>4. <<Over(carry, Fresh, Scan(all)[1]), Len(all) + 1>> \in I
  <2>1. I \in SUBSET (State \X (1..(Len(all) + 1)))
    OBVIOUS
  <2> HIDE DEF I
  <2>. QED
    BY <1>1, <1>2, <1>3, <2>1, Walk
<1>5. Parsed(carry, text) = Over(carry, Fresh, Scan(all)[1])
  BY ParsedIs DEF all
<1>. QED
  BY <1>4, <1>5 DEF all

-----------------------------------------------------------------------------
(* What is written and what is returned *)

LEMMA TextJoins ==
  /\ \A a, b \in Text : a \o b \in Text
  /\ \A a \in Text : Len(a) \in Nat
  /\ <<>> \in Text
  /\ <<NL>> \in Text /\ <<Star, SP>> \in Text /\ <<Star>> \in Text
  /\ <<Colon>> \in Text /\ <<TAB, TAB, Colon>> \in Text
<1>1. {NL, Star, SP, TAB, Colon} \subseteq Symbols
  BY DEF Symbols, Glyphs, Blanks
<1> DEFINE Sy == Symbols
<1>2. Text = Seq(Sy)
  BY DEF Text
<1> HIDE DEF Sy
<1>3. NL \in Sy /\ Star \in Sy /\ SP \in Sy /\ TAB \in Sy /\ Colon \in Sy
  BY <1>1 DEF Sy
<1>4. /\ <<NL>> \in Seq(Sy) /\ <<Star, SP>> \in Seq(Sy) /\ <<Star>> \in Seq(Sy)
      /\ <<Colon>> \in Seq(Sy) /\ <<TAB, TAB, Colon>> \in Seq(Sy)
  BY <1>3
<1>. QED
  BY <1>2, <1>4

LEMMA WrittenTyped ==
  ASSUME NEW item \in Item
  PROVE  Written(item) \in Text
<1> DEFINE text == item.text
           line == <<Star, SP>> \o item.header \o TagText(item.category) \o <<NL>>
<1>1. item.header \in Text /\ item.text \in Text \cup {NULL} /\ item.category \in Text \cup {NULL}
  BY DEF Item
<1>2. TagText(item.category) \in Text
  BY <1>1, TextJoins DEF TagText
<1>3. text \in Text \cup {NULL}
  BY <1>1
<1>4. line \in Text
  BY <1>1, <1>2, TextJoins
<1>5. Written(item) = line \o (IF text = NULL THEN <<>> ELSE text \o <<NL>>)
  BY DEF Written
<1> HIDE DEF text, line
<1>. QED
  BY <1>3, <1>4, <1>5, TextJoins

\* Whatever the conversion leaves of an item is one.
LEMMA FormsAreItems ==
  ASSUME NEW item \in Item
  PROVE  Forms(item) \subseteq Item
<1>1. /\ item.header \in Text /\ item.text \in Text \cup {NULL}
      /\ item.category \in Text \cup {NULL}
      /\ item = [header |-> item.header, category |-> item.category, text |-> item.text]
  BY DEF Item
<1>2. ASSUME NEW text \in Text \cup {NULL}
      PROVE  ToUtf8(text) \subseteq Text \cup {NULL}
  <2>1. text # NULL => \A tail \in Tails : text \o tail \in Text
    BY TextJoins, ConversionOK
  <2>. QED
    BY <2>1 DEF ToUtf8
<1>3. ASSUME NEW form \in Forms(item) PROVE form \in Item
  <2> DEFINE H == ToUtf8(item.header) \ {NULL}
             T == ToUtf8(item.text)
             As(header, text) == Note(header, item.category, text)
  <2>1. Forms(item) = {As(header, text) : header \in H, text \in T}
    BY DEF Forms
  <2>2. H \subseteq Text /\ T \subseteq Text \cup {NULL}
    BY <1>1, <1>2
  <2>3. \A header \in Text : \A text \in Text \cup {NULL} : As(header, text) \in Item
    BY <1>1 DEF Item, Note
  <2> HIDE DEF H, T, As
  <2>4. \E header \in H : \E text \in T : form = As(header, text)
    BY <1>3, <2>1
  <2>. QED
    BY <2>2, <2>3, <2>4
<1>. QED
  BY <1>3

LEMMA NotesTyped ==
  ASSUME NEW entries \in Seq(Item), ~Crashes(entries)
  PROVE  NotesOf(entries) \in Seq(Item) /\ Len(NotesOf(entries)) = Len(entries)
<1>1. ASSUME NEW i \in 1..Len(entries)
      PROVE  Note(ToCp1251(entries[i].header), entries[i].category,
                  ToCp1251(entries[i].text)) \in Item
  <2>1. entries[i] \in Item /\ i \in DOMAIN entries
    OBVIOUS
  <2>2. ~Has(entries[i].header, Foreign)
    BY <2>1 DEF Crashes
  <2>3. entries[i].header \in Text /\ entries[i].text \in Text \cup {NULL}
        /\ entries[i].category \in Text \cup {NULL}
    BY <2>1 DEF Item
  <2>4. ToCp1251(entries[i].header) \in Text
    BY <2>2, <2>3, NullIsNothing DEF ToCp1251
  <2>5. ToCp1251(entries[i].text) \in Text \cup {NULL}
    BY <2>3 DEF ToCp1251
  <2>. QED
    BY <2>3, <2>4, <2>5 DEF Note, Item
<1>2. NotesOf(entries) =
        [i \in 1..Len(entries) |-> Note(ToCp1251(entries[i].header),
           entries[i].category, ToCp1251(entries[i].text))]
  BY DEF NotesOf
<1>. QED
  BY <1>1, <1>2

LEMMA RestTyped ==
  ASSUME NEW carry \in Text, NEW text \in Text
  PROVE  Rest(carry, text, Parsed(carry, text)) \in Text
<1> DEFINE all == carry \o text
           s == Parsed(carry, text)
<1>1. all \in Text /\ Len(all) \in Nat /\ Len(carry) \in Nat
  BY TextJoins
<1>2. s.stop \in Nat /\ s.stop <= Len(all) + 1
  BY ParsedTyped DEF State
<1> HIDE DEF all, s
<1>3. s.stop > Len(carry) + 1 => SubSeq(all, s.stop, Len(all)) \in Text
  BY <1>1, <1>2 DEF Text
<1>. QED
  BY <1>3, TextJoins DEF Rest, Stopped, all, s

-----------------------------------------------------------------------------
(* Types *)

LEMMA TypeOKInit == Init => TypeOK
<1> SUFFICES ASSUME Init PROVE TypeOK
  OBVIOUS
<1>1. <<>> \in Text /\ <<>> \in Seq(Item)
  BY TextJoins
<1>2. OwnerFiles \subseteq Text
  BY FilesAndItems
<1>. QED
  BY <1>1, <1>2 DEF Init, TypeOK

LEMMA TypeOKNext == TypeOK /\ [Next]_vars => TypeOK'
<1> SUFFICES ASSUME TypeOK, [Next]_vars PROVE TypeOK'
  OBVIOUS
<1>1. <<>> \in Text /\ <<>> \in Seq(Item)
  BY TextJoins
<1>2. OwnerFiles \subseteq Text /\ Items \subseteq Item
  BY FilesAndItems
<1>3. /\ file \in Text /\ buffer \in Text /\ notes \in Seq(Item) /\ kept \subseteq Items
      /\ saves \in Nat /\ appends \in Nat /\ failures \in Nat /\ cycles \in Nat
      /\ daemon \in {"idle", "cycle", "dead"}
      /\ daemon # "cycle" => notes = <<>>
      /\ daemon = "dead" => buffer = <<>>
  BY DEF TypeOK
<1>4. ASSUME /\ file' \in Text /\ buffer' \in Text /\ notes' \in Seq(Item) /\ kept' \subseteq Items
             /\ saves' \in Nat /\ appends' \in Nat /\ failures' \in Nat /\ cycles' \in Nat
             /\ daemon' \in {"idle", "cycle", "dead"}
             /\ daemon' # "cycle" => notes' = <<>>
             /\ daemon' = "dead" => buffer' = <<>>
      PROVE  TypeOK'
  BY <1>4 DEF TypeOK
<1>5. CASE Save
  BY <1>2, <1>3, <1>4, <1>5 DEF Save
<1>6. CASE ParseRefused
  BY <1>3, <1>4, <1>6 DEF ParseRefused, BeginCycle
<1>7. CASE Parse
  <2> DEFINE s == Parsed(buffer, file)
  <2>1. s.notes \in Seq(Item)
    BY <1>3, ParsedTyped DEF State
  <2>2. Rest(buffer, file, s) \in Text
    BY <1>3, RestTyped
  <2> HIDE DEF s
  <2>3. ~Crashes(s.notes) => NotesOf(s.notes) \in Seq(Item)
    BY <2>1, NotesTyped
  <2>4. BeginCycle /\ (IF Accepted(buffer, s) /\ ~Crashes(s.notes)
                       THEN /\ daemon' = "cycle"
                            /\ notes' = NotesOf(s.notes)
                            /\ buffer' = Rest(buffer, file, s)
                       ELSE Dies)
    BY <1>7 DEF Parse, s
  <2>5. CASE Accepted(buffer, s) /\ ~Crashes(s.notes)
    <3>1. /\ daemon' = "cycle" /\ notes' = NotesOf(s.notes) /\ buffer' = Rest(buffer, file, s)
          /\ cycles' = cycles + 1 /\ file' = file /\ kept' = kept /\ saves' = saves
          /\ appends' = appends /\ failures' = failures
      BY <2>4, <2>5 DEF BeginCycle
    <3>2. notes' \in Seq(Item) /\ buffer' \in Text
      BY <2>2, <2>3, <2>5, <3>1
    <3>. QED
      BY <1>3, <1>4, <3>1, <3>2
  <2>6. CASE ~(Accepted(buffer, s) /\ ~Crashes(s.notes))
    <3>1. /\ daemon' = "dead" /\ notes' = <<>> /\ buffer' = <<>>
          /\ cycles' = cycles + 1 /\ file' = file /\ kept' = kept /\ saves' = saves
          /\ appends' = appends /\ failures' = failures
      BY <2>4, <2>6 DEF BeginCycle, Dies
    <3>. QED
      BY <1>1, <1>3, <1>4, <3>1
  <2>. QED
    BY <2>5, <2>6
<1>8. CASE AppendItem
  <2> PICK item \in Items : Write(item) \/ WriteFails(item) \/ WriteCrashes(item)
    BY <1>8 DEF AppendItem
  <2>1. \A form \in Forms(item) : Written(form) \in Text
    BY <1>2, FormsAreItems, WrittenTyped
  <2>2. CASE Write(item)
    <3>1. PICK form \in Forms(item) : WriteAs(item, form)
      BY <2>2 DEF Write
    <3>2. file \o Written(form) \in Text
      BY <1>3, <2>1, TextJoins
    <3>. QED
      BY <1>3, <1>4, <3>1, <3>2 DEF WriteAs, CanAppend, Unharmed
  <2>3. CASE WriteFails(item)
    <3>1. PICK form \in Forms(item) : \E n \in Cuts \cap 0..(Len(Written(form)) - 1) :
                 file' = file \o SubSeq(Written(form), 1, n)
      BY <2>3 DEF WriteFails
    <3> PICK n \in Cuts \cap 0..(Len(Written(form)) - 1) :
               file' = file \o SubSeq(Written(form), 1, n)
      BY <3>1
    <3>2. SubSeq(Written(form), 1, n) \in Text
      BY <2>1 DEF Text
    <3>3. file' \in Text
      BY <1>3, <3>2, TextJoins
    <3>4. /\ daemon = "cycle" /\ saves' = saves /\ cycles' = cycles /\ kept' \subseteq kept
          /\ appends' = appends /\ failures' = failures + 1
          /\ Dies \/ UNCHANGED <<daemon, notes, buffer>>
      BY <2>3 DEF WriteFails, CanAppend, Unharmed
    <3>5. CASE Dies
      BY <1>1, <1>3, <1>4, <3>3, <3>4, <3>5 DEF Dies
    <3>6. CASE UNCHANGED <<daemon, notes, buffer>>
      BY <1>3, <1>4, <3>3, <3>4, <3>6
    <3>. QED
      BY <3>4, <3>5, <3>6
  <2>4. CASE WriteCrashes(item)
    BY <1>1, <1>3, <1>4, <2>4 DEF WriteCrashes, Dies
  <2>. QED
    BY <2>2, <2>3, <2>4
<1>9. CASE EndCycle
  BY <1>1, <1>3, <1>4, <1>9 DEF EndCycle
<1>10. CASE Restart
  BY <1>3, <1>4, <1>10 DEF Restart
<1>11. CASE UNCHANGED vars
  BY <1>3, <1>4, <1>11 DEF vars
<1>. QED
  BY <1>5, <1>6, <1>7, <1>8, <1>9, <1>10, <1>11 DEF Next

\* A process that is not in a cycle holds no notes, a dead one has no buffer,
\* and file, buffer and notes stay texts and notes whatever is appended or cut.
THEOREM TypeCorrect == Spec => []TypeOK
<1>1. Init => TypeOK
  BY TypeOKInit
<1>2. TypeOK /\ [Next]_vars => TypeOK'
  BY TypeOKNext
<1>. QED
  BY <1>1, <1>2, PTL DEF Spec

-----------------------------------------------------------------------------
(* Headings *)

\* The scanner stops before what begins a line.
LEMMA NotJumped ==
  ASSUME NEW text \in Text, NEW i \in 1..Len(text), NEW h \in (i + 1)..Len(text),
         text[h - 1] = NL, text[h] # NL, text[h] # SP
  PROVE  NextAt(text, i) <= h
<1>0. Len(text) \in Nat /\ h - 1 \in 1..Len(text)
  BY DEF Text
<1>1. CASE DirectiveAt(text, i)
  <2>1. /\ NextAt(text, i) \in (i + 2)..(Len(text) + 1)
        /\ \A j \in i..(NextAt(text, i) - 2) : text[j] # NL
    BY <1>1, DirectiveIs
  <2>2. h - 1 \notin i..(NextAt(text, i) - 2)
    BY <2>1
  <2>. QED
    BY <1>0, <2>1, <2>2
<1>2. CASE ~DirectiveAt(text, i) /\ text[i] \in Blanks \cup RawBytes
  BY <1>2, <1>0 DEF NextAt
<1>3. CASE ~IsSkipped(text, i) /\ text[i] = NL
  <2>1. NextAt(text, i) = NewlineAt(text, i).next
    BY <1>3 DEF IsSkipped, NextAt, TokenOf
  <2>2. NextAt(text, i) \in (i + 1)..(Len(text) + 1) /\ \A j \in i..(NextAt(text, i) - 1) : text[j] = NL
    BY <1>3, <2>1, NewlineIs
  <2>3. h \notin i..(NextAt(text, i) - 1)
    BY <2>2
  <2>. QED
    BY <1>0, <2>2, <2>3
<1>4. CASE ~IsSkipped(text, i) /\ text[i] # NL
  <2>1. NextAt(text, i) = TokenAt(text, i).next /\ TokenOf(text, i) = TokenAt(text, i)
    BY <1>4 DEF IsSkipped, NextAt, TokenOf
  <2>2. text[i] \in Glyphs
    BY <1>4, SymbolsOf DEF IsSkipped
  <2> DEFINE next == Past(text, i, Glyphs)
  <2>3. /\ next \in (i + 1)..(Len(text) + 1)
        /\ \/ NextAt(text, i) \in (i + 1)..next
           \/ NextAt(text, i) = next + 1 /\ SpaceAt(text, next)
    BY <2>1, <2>2, TokenAtIs
  <2>4. \A j \in i..(next - 1) : text[j] \in Glyphs
    BY <1>0, PastIs, i \in Nat \ {0}, i <= Len(text) + 1
  <2> HIDE DEF next
  <2>5. h - 1 \notin i..(next - 1)
    BY <2>4, SymbolsDiffer
  <2>6. h # next \/ ~SpaceAt(text, next)
    BY DEF SpaceAt
  <2>. QED
    BY <1>0, <2>3, <2>5, <2>6
<1>. QED
  BY <1>1, <1>2, <1>3, <1>4 DEF IsSkipped

LEMMA HeadingsAre ==
  ASSUME NEW text \in Text, NEW h \in Headings(text)
  PROVE  /\ h \in 1..(Len(text) - 1) /\ AtBol(text, h)
         /\ text[h] = Star /\ text[h + 1] = SP
         /\ \A i \in 1..Len(text) : i < h => NextAt(text, i) <= h
<1>1. /\ h \in 1..(Len(text) - 1) /\ (h = 1 \/ text[h - 1] = NL)
      /\ text[h] = Star /\ text[h + 1] = SP
  BY DEF Headings
<1>2. ASSUME NEW i \in 1..Len(text), i < h
      PROVE  NextAt(text, i) <= h
  <2>1. h \in (i + 1)..Len(text) /\ text[h - 1] = NL
    BY <1>1, <1>2, TextJoins
  <2>2. Star # NL /\ Star # SP
    BY DEF Star, NL, SP
  <2>. QED
    BY <1>1, <2>1, <2>2, NotJumped
<1>. QED
  BY <1>1, <1>2 DEF AtBol

\* A heading is where the scanner gives a star.
LEMMA StarIs ==
  ASSUME NEW text \in Text, NEW i \in 1..Len(text)
  PROVE  i \in Headings(text) <=>
           ~IsSkipped(text, i) /\ TokenOf(text, i).kind = "STAR"
<1>0. Len(text) \in Nat
  BY TextJoins
<1> DEFINE next == Past(text, i, Glyphs)
           run == SubSeq(text, i, next - 1)
           Is(set) == Len(run) = 1 /\ run[1] \in set /\ SpaceAt(text, next)
<1>1. Star \in Glyphs /\ SP \notin Glyphs /\ Star # NL /\ Star # Directive
  <2>1. Star \in Glyphs /\ SP \in Blanks
    BY DEF Glyphs, Blanks
  <2>2. Star # NL /\ Star # Directive
    BY DEF Star, NL, Directive
  <2>. QED
    BY <2>1, <2>2, SymbolsDiffer
<1>2. text[i] \in Glyphs =>
        /\ next \in (i + 1)..(Len(text) + 1) /\ Len(run) = next - i
        /\ \A j \in 1..(next - i) : run[j] = text[i + j - 1]
  BY TokenAtIs
<1>3. TokenAt(text, i) =
        CASE Is({Star}) /\ AtBol(text, i) -> Token("STAR", run, next + 1)
          [] Is(Keywords)   -> Token("TODO", run, next + 1)
          [] Is(Priorities) -> Token("PRIORITY", run, next + 1)
          [] Is(Schedulers) -> Token("SCHEDULED", run, next + 1)
          [] IsTag(run)     -> Token("TAG", SubSeq(run, 2, Len(run) - 1), next)
          [] run[1] \in Dates \cup BadDates -> Token("DATE", <<run[1]>>, i + 1)
          [] OTHER -> Token("WORD", run, next)
  BY DEF TokenAt
<1>4. ASSUME i \in Headings(text)
      PROVE  ~IsSkipped(text, i) /\ TokenOf(text, i).kind = "STAR"
  <2>1. /\ i \in 1..(Len(text) - 1) /\ AtBol(text, i) /\ text[i] = Star /\ text[i + 1] = SP
    BY <1>4, HeadingsAre
  <2>2. ~IsSkipped(text, i)
    BY <1>1, <2>1, SymbolsDiffer DEF IsSkipped, DirectiveAt
  <2>3. next = i + 1
    <3>1. /\ next \in i..(Len(text) + 1)
          /\ \A j \in i..(next - 1) : text[j] \in Glyphs
      BY <1>0, PastIs, i \in Nat \ {0}, i <= Len(text) + 1
    <3>2. i + 1 \notin i..(next - 1)
      BY <1>1, <2>1, <3>1
    <3>. QED
      BY <1>0, <1>1, <1>2, <2>1, <3>1, <3>2
  <2>4. Len(run) = 1 /\ run[1] = Star /\ SpaceAt(text, next)
    BY <1>0, <1>1, <1>2, <2>1, <2>3 DEF SpaceAt
  <2>5. /\ Is({Star}) /\ AtBol(text, i) /\ ~Is(Keywords) /\ ~Is(Priorities) /\ ~Is(Schedulers)
        /\ ~IsTag(run) /\ run[1] \notin Dates \cup BadDates
    <3>1. Star \notin Keywords /\ Star \notin Priorities /\ Star \notin Schedulers
      BY DEF Star, Keywords, Priorities, Schedulers
    <3>2. Star \notin Dates \cup BadDates
      BY SymbolsDiffer
    <3> HIDE DEF run, next
    <3>3. ~IsTag(run)
      BY <2>4 DEF IsTag
    <3>. QED
      BY <2>1, <2>4, <3>1, <3>2, <3>3
  <2>6. TokenAt(text, i) = Token("STAR", run, next + 1)
    <3> HIDE DEF run, next, Is
    <3>. QED
      BY <1>3, <2>5, Zenon
  <2>7. TokenOf(text, i) = TokenAt(text, i)
    BY <1>1, <2>1 DEF TokenOf
  <2>. QED
    BY <2>2, <2>6, <2>7 DEF Token
<1>5. ASSUME ~IsSkipped(text, i), TokenOf(text, i).kind = "STAR"
      PROVE  i \in Headings(text)
  <2>1. text[i] # NL
    <3> SUFFICES ASSUME text[i] = NL PROVE FALSE
      OBVIOUS
    <3>1. TokenOf(text, i).kind = "NEWLINE"
      BY NewlineIs DEF TokenOf
    <3>. QED
      BY <1>5, <3>1
  <2>2. text[i] \in Glyphs /\ TokenOf(text, i) = TokenAt(text, i)
    BY <1>5, <2>1, SymbolsOf DEF IsSkipped, TokenOf
  <2>3. Is({Star}) /\ AtBol(text, i)
    <3> SUFFICES ASSUME ~(Is({Star}) /\ AtBol(text, i)) PROVE FALSE
      OBVIOUS
    <3>1. \/ TokenAt(text, i) = Token("TODO", run, next + 1)
          \/ TokenAt(text, i) = Token("PRIORITY", run, next + 1)
          \/ TokenAt(text, i) = Token("SCHEDULED", run, next + 1)
          \/ TokenAt(text, i) = Token("TAG", SubSeq(run, 2, Len(run) - 1), next)
          \/ TokenAt(text, i) = Token("DATE", <<run[1]>>, i + 1)
          \/ TokenAt(text, i) = Token("WORD", run, next)
      <4> HIDE DEF run, next, Is
      <4>. QED
        BY <1>3, Zenon
    <3>. QED
      BY <1>5, <2>2, <3>1 DEF Token
  <2>4. text[i] = Star /\ next = i + 1 /\ SpaceAt(text, next)
    <3>1. Len(run) = 1 /\ run[1] = Star /\ SpaceAt(text, next)
      BY <2>3
    <3>2. next \in (i + 1)..(Len(text) + 1) /\ Len(run) = next - i /\ 1 \in 1..(next - i)
      BY <1>0, <1>2, <2>2
    <3>3. run[1] = text[i + 1 - 1]
      BY <1>2, <2>2, <3>2
    <3>4. i + 1 - 1 = i
      OBVIOUS
    <3>5. next = i + 1
      <4>1. next - i = 1
        BY <3>1, <3>2, Zenon
      <4>2. next \in Int /\ i \in Int
        BY <1>0, <3>2
      <4> HIDE DEF next
      <4>. QED
        BY <4>1, <4>2
    <3>6. text[i] = Star
      <4> HIDE DEF run, next
      <4>. QED
        BY <3>1, <3>3, <3>4
    <3>. QED
      BY <3>1, <3>5, <3>6
  <2>. QED
    BY <1>0, <2>3, <2>4 DEF Headings, AtBol, SpaceAt
<1>. QED
  BY <1>4, <1>5

-----------------------------------------------------------------------------
(* Timestamps *)

LEMMA DateIs ==
  ASSUME NEW text \in Text, NEW i \in 1..Len(text), ~IsSkipped(text, i)
  PROVE  /\ TokenOf(text, i).kind = "NEWLINE" <=> text[i] = NL
         /\ TokenOf(text, i).kind = "DATE" =>
              /\ text[i] # NL
              /\ NextAt(text, i) = i + 1
              /\ IsRefused(TokenOf(text, i).word) => text[i] \in BadDates
<1>0. Len(text) \in Nat
  BY TextJoins
<1>1. CASE text[i] = NL
  <2>1. TokenOf(text, i).kind = "NEWLINE"
    BY <1>1, NewlineIs DEF TokenOf
  <2>. QED
    BY <1>1, <2>1
<1>2. CASE text[i] # NL
  <2> DEFINE next == Past(text, i, Glyphs)
             run == SubSeq(text, i, next - 1)
             Is(set) == Len(run) = 1 /\ run[1] \in set /\ SpaceAt(text, next)
  <2>1. text[i] \in Glyphs /\ TokenOf(text, i) = TokenAt(text, i)
    BY <1>2, SymbolsOf DEF IsSkipped, TokenOf
  <2>2. /\ next \in (i + 1)..(Len(text) + 1)
        /\ \A j \in 1..(next - i) : run[j] = text[i + j - 1]
    BY <2>1, TokenAtIs
  <2>3. run[1] = text[i]
    <3>1. 1 \in 1..(next - i)
      BY <1>0, <2>2
    <3>2. run[1] = text[i + 1 - 1]
      BY <2>2, <3>1
    <3>3. i + 1 - 1 = i
      OBVIOUS
    <3>. QED
      BY <3>2, <3>3
  <2>4. \/ \E kind \in {"STAR", "TODO", "PRIORITY", "SCHEDULED"} :
             TokenAt(text, i) = Token(kind, run, next + 1)
        \/ TokenAt(text, i) = Token("TAG", SubSeq(run, 2, Len(run) - 1), next)
        \/ TokenAt(text, i) = Token("DATE", <<run[1]>>, i + 1)
        \/ TokenAt(text, i) = Token("WORD", run, next)
    <3>1. TokenAt(text, i) =
            CASE Is({Star}) /\ AtBol(text, i) -> Token("STAR", run, next + 1)
              [] Is(Keywords)   -> Token("TODO", run, next + 1)
              [] Is(Priorities) -> Token("PRIORITY", run, next + 1)
              [] Is(Schedulers) -> Token("SCHEDULED", run, next + 1)
              [] IsTag(run)     -> Token("TAG", SubSeq(run, 2, Len(run) - 1), next)
              [] run[1] \in Dates \cup BadDates -> Token("DATE", <<run[1]>>, i + 1)
              [] OTHER -> Token("WORD", run, next)
      BY DEF TokenAt
    <3> HIDE DEF run, next, Is
    <3>. QED
      BY <3>1, Zenon
  <2> HIDE DEF run, next, Is
  <2>5. TokenAt(text, i).kind # "NEWLINE"
    BY <2>4 DEF Token
  <2>6. ASSUME TokenAt(text, i).kind = "DATE"
        PROVE  NextAt(text, i) = i + 1 /\ (IsRefused(TokenAt(text, i).word) => text[i] \in BadDates)
    <3>1. TokenAt(text, i) = Token("DATE", <<text[i]>>, i + 1)
      BY <2>3, <2>4, <2>6 DEF Token
    <3>2. TokenAt(text, i).next = i + 1 /\ TokenAt(text, i).word = <<text[i]>>
      BY <3>1 DEF Token
    <3>3. NextAt(text, i) = i + 1
      BY <2>1, <3>2, NextIs
    <3>4. IsRefused(<<text[i]>>) => text[i] \in BadDates
      BY DEF IsRefused, Has
    <3>. QED
      BY <3>2, <3>3, <3>4
  <2>. QED
    BY <1>2, <2>1, <2>5, <2>6
<1>. QED
  BY <1>1, <1>2

\* The parser gives up in what an earlier file left, if at all.
LEMMA NeverStops ==
  ASSUME NEW carry \in Text, NEW text \in Text, AtLineStart(carry), ~Has(text, BadDates)
  PROVE  Parsed(carry, text).stop <= Len(carry) + 1
<1> DEFINE all == carry \o text
           Behind(s, i) == s.place = "date" /\ IsRefused(s.date) =>
                             \E j \in 1..(i - 1) : /\ j <= Len(carry)
                                                   /\ \A k \in j..(i - 1) : all[k] # NL
           I == {m \in State \X (1..(Len(all) + 1)) :
                   m[1].stop <= Len(carry) + 1 /\ Behind(m[1], m[2])}
<1>1. /\ all \in Text /\ Fresh \in State /\ 1 \in 1..(Len(all) + 1)
      /\ Len(all) \in Nat /\ Len(carry) \in Nat
  BY ParsedIs, TextJoins
<1>2. /\ Len(all) = Len(carry) + Len(text)
      /\ \A i \in 1..Len(carry) : all[i] = carry[i]
      /\ \A i \in 1..Len(all) : i > Len(carry) => all[i] = text[i - Len(carry)]
  BY DEF Text
<1>3. carry # <<>> => Len(carry) \in 1..Len(all) /\ all[Len(carry)] = NL
  <2>1. carry # <<>> => Len(carry) \in 1..Len(carry) /\ Last(carry) = carry[Len(carry)]
    BY DEF Text, Last
  <2>. QED
    BY <1>1, <1>2, <2>1, TextJoins DEF AtLineStart
<1>4. \A i \in 1..Len(all) : all[i] \in BadDates => i <= Len(carry)
  <2> SUFFICES ASSUME NEW i \in 1..Len(all), all[i] \in BadDates, i > Len(carry)
               PROVE  FALSE
    BY <1>1
  <2>1. i - Len(carry) \in 1..Len(text) /\ text[i - Len(carry)] \in BadDates
    BY <1>1, <1>2
  <2>2. DOMAIN text = 1..Len(text)
    BY DEF Text
  <2>. QED
    BY <2>1, <2>2 DEF Has
<1> HIDE DEF all
<1>5. <<Fresh, 1>> \in I
  BY <1>1 DEF Fresh
<1>6. ASSUME NEW s \in State, NEW i \in 1..Len(all), <<s, i>> \in I
      PROVE  <<Move(carry, all, i, s), NextAt(all, i)>> \in I
  <2> DEFINE t == Move(carry, all, i, s)
             next == NextAt(all, i)
  <2>1. t \in State /\ next \in 1..(Len(all) + 1)
    BY <1>1, MoveTyped
  <2>2. s.stop <= Len(carry) + 1 /\ Behind(s, i) /\ s.stop \in Nat
    BY <1>6 DEF State
  <2>3. next \in (i + 1)..(Len(all) + 1)
    BY <1>1, NextIs
  <2>4. t.stop <= Len(carry) + 1 /\ Behind(t, next)
    <3>1. CASE s.place = "error"
      <4>1. t = s
        BY <3>1 DEF Move, Step
      <4>. QED
        BY <2>2, <3>1, <4>1
    <3>2. CASE IsSkipped(all, i) /\ s.place # "error"
      <4>1. t = s
        BY <3>2 DEF Move
      <4>2. ASSUME s.place = "date", IsRefused(s.date)
            PROVE  \E j \in 1..(next - 1) : /\ j <= Len(carry)
                                            /\ \A k \in j..(next - 1) : all[k] # NL
        <5>1. PICK j \in 1..(i - 1) : j <= Len(carry) /\ \A k \in j..(i - 1) : all[k] # NL
          BY <2>2, <4>2
        <5>2. ~DirectiveAt(all, i)
          <6>1. i # 1 /\ i - 1 \in j..(i - 1)
            BY <5>1
          <6>. QED
            BY <5>1, <6>1 DEF DirectiveAt, AtBol
        <5>3. all[i] \in Blanks \cup RawBytes
          BY <3>2, <5>2 DEF IsSkipped
        <5>4. next = i + 1 /\ all[i] # NL
          <6>1. NL \notin Blanks
            BY DEF NL, Blanks, SP, TAB
          <6>. QED
            BY <5>2, <5>3, <6>1, SymbolsDiffer DEF NextAt
        <5>5. j \in 1..(next - 1) /\ \A k \in j..(next - 1) : k \in j..(i - 1) \/ k = i
          BY <5>4
        <5>. QED
          BY <5>1, <5>4, <5>5
      <4>. QED
        BY <2>2, <4>1, <4>2
    <3>3. CASE ~IsSkipped(all, i) /\ s.place # "error"
      <4> DEFINE token == TokenOf(all, i)
      <4>1. token \in Tok /\ token.next = next
        BY <1>1, <3>3, NextIs
      <4>2. t = Take(s, token)
        BY <2>2, <1>1, <3>3 DEF Move, Step
      <4>3. s.place \in Places /\ token.kind \in Kinds
        BY <4>1 DEF State, Tok
      <4> DEFINE p == Shift(s.place, token.kind)
      <4>4. Moves(s.place, token.kind, p)
        BY <4>3, ShiftIs
      <4>5. /\ t.place = IF p = "dated" /\ IsRefused(s.date) THEN "start" ELSE p
            /\ t.date = IF p = "date" THEN token.word ELSE s.date
            /\ t.stop = IF p = "dated" /\ IsRefused(s.date) THEN next ELSE s.stop
        BY <4>1, <4>2, TakeIs
      <4>6. /\ token.kind = "NEWLINE" <=> all[i] = NL
            /\ token.kind = "DATE" => /\ all[i] # NL
                                      /\ next = i + 1
                                      /\ IsRefused(token.word) => all[i] \in BadDates
        BY <1>1, <3>3, DateIs
      <4> HIDE DEF t, token, next, p
      <4>7. t.stop <= Len(carry) + 1
        <5>1. CASE ~(p = "dated" /\ IsRefused(s.date))
          BY <2>2, <4>5, <5>1
        <5>2. CASE p = "dated" /\ IsRefused(s.date)
          <6>1. token.kind = "NEWLINE" /\ s.place = "date"
            BY <4>4, <5>2 DEF Moves
          <6>2. PICK j \in 1..(i - 1) : j <= Len(carry) /\ \A k \in j..(i - 1) : all[k] # NL
            BY <2>2, <5>2, <6>1
          <6>3. i <= Len(carry)
            <7>1. carry # <<>>
              BY <6>2
            <7>2. Len(carry) \notin j..(i - 1)
              BY <1>3, <6>2, <7>1
            <7>. QED
              BY <1>1, <6>2, <7>2
          <6>4. ~AtBol(all, i)
            <7>1. i # 1 /\ i - 1 \in j..(i - 1)
              BY <6>2
            <7>. QED
              BY <6>2, <7>1 DEF AtBol
          <6>5. next = i + 1
            <7>1. all[i] = NL
              BY <4>6, <6>1
            <7>2. NewlineAt(all, i).next = i + 1
              BY <1>1, <6>4, <7>1, NewlineIs
            <7>3. token = NewlineAt(all, i)
              BY <7>1 DEF TokenOf, token
            <7>. QED
              BY <4>1, <7>2, <7>3
          <6>. QED
            BY <1>1, <4>5, <5>2, <6>3, <6>5
        <5>. QED
          BY <5>1, <5>2
      <4>8. Behind(t, next)
        <5> SUFFICES ASSUME t.place = "date", IsRefused(t.date)
                     PROVE  \E j \in 1..(next - 1) : /\ j <= Len(carry)
                                                     /\ \A k \in j..(next - 1) : all[k] # NL
          OBVIOUS
        <5>1. p = "date"
          BY <4>5
        <5>2. token.kind = "DATE" /\ t.date = token.word
          BY <4>4, <4>5, <5>1 DEF Moves
        <5>3. next = i + 1 /\ all[i] # NL /\ all[i] \in BadDates
          BY <4>6, <5>2
        <5>4. i <= Len(carry) /\ i \in 1..(next - 1) /\ \A k \in i..(next - 1) : k = i
          BY <1>4, <5>3
        <5>. QED
          BY <5>3, <5>4
      <4>. QED
        BY <4>7, <4>8
    <3>. QED
      BY <3>1, <3>2, <3>3
  <2>. QED
    BY <2>1, <2>4
<1>7. <<Over(carry, Fresh, Scan(all)[1]), Len(all) + 1>> \in I
  <2>1. I \in SUBSET (State \X (1..(Len(all) + 1)))
    OBVIOUS
  <2> HIDE DEF I
  <2>. QED
    BY <1>1, <1>5, <1>6, <2>1, Walk
<1>8. Parsed(carry, text) = Over(carry, Fresh, Scan(all)[1])
  BY ParsedIs DEF all
<1>. QED
  BY <1>7, <1>8

\* What a parse that returns notes does.
LEMMA AliveIs ==
  ASSUME TypeOK, [Next]_vars, Alive
  PROVE  /\ buffer \in Text /\ file \in Text
         /\ Accepted(buffer, Parsed(buffer, file))
         /\ ~Crashes(Parsed(buffer, file).notes)
         /\ notes' = NotesOf(Parsed(buffer, file).notes)
         /\ buffer' = Rest(buffer, file, Parsed(buffer, file))
<1>1. cycles \in Nat /\ cycles' = cycles + 1 /\ daemon' = "cycle"
  BY DEF TypeOK, Alive
<1>2. ~Save /\ ~AppendItem /\ ~EndCycle /\ ~Restart /\ ~UNCHANGED vars
  <2>1. cycles' # cycles
    BY <1>1
  <2>2. AppendItem => cycles' = cycles
    BY DEF AppendItem, Write, WriteAs, WriteFails, WriteCrashes, CanAppend
  <2>. QED
    BY <2>1, <2>2 DEF Save, EndCycle, Restart, vars
<1>3. ~ParseRefused
  BY <1>1 DEF ParseRefused, BeginCycle
<1>4. Parse
  BY <1>2, <1>3 DEF Next
<1>. QED
  BY <1>1, <1>4 DEF Parse, Dies, TypeOK

\* What a refused timestamp leaves is used up by one more parse of a sound file,
\* unless it ends without a newline, whatever it holds.
THEOREM LeftoverGone == Spec => LeftoverIsUsedUp
<1>1. TypeOK /\ [Next]_vars =>
        [Alive /\ Sound /\ AtLineStart(buffer) => buffer' = <<>>]_vars
  <2> SUFFICES ASSUME TypeOK, [Next]_vars, Alive, Sound, AtLineStart(buffer)
               PROVE  buffer' = <<>>
    BY DEF vars
  <2>2. buffer' = Rest(buffer, file, Parsed(buffer, file))
    BY AliveIs
  <2>3. buffer \in Text /\ file \in Text
    BY DEF TypeOK
  <2>4. Parsed(buffer, file).stop <= Len(buffer) + 1
    BY <2>3, NeverStops DEF Sound
  <2>5. Parsed(buffer, file).stop \in Nat /\ Len(buffer) \in Nat
    BY <2>3, ParsedTyped, TextJoins DEF State
  <2>. QED
    BY <2>2, <2>4, <2>5 DEF Rest, Stopped
<1>. QED
  BY <1>1, TypeCorrect, PTL DEF Spec, LeftoverIsUsedUp

-----------------------------------------------------------------------------
(* A note for every heading *)

\* Places in an entry whose headline is not complete
InHeadline == {"star", "todo", "prio", "headline", "tagged"}
HeadingsBefore(text, i) == {h \in Headings(text) : h < i}

LEMMA HeadingsCount ==
  ASSUME NEW text \in Text, NEW i \in 1..Len(text)
  PROVE  /\ Cardinality(HeadingsBefore(text, i)) \in Nat
         /\ Cardinality(HeadingsBefore(text, NextAt(text, i)))
              = Cardinality(HeadingsBefore(text, i)) + IF i \in Headings(text) THEN 1 ELSE 0
<1>0. Len(text) \in Nat /\ NextAt(text, i) \in (i + 1)..(Len(text) + 1)
  BY TextJoins, NextIs
<1>1. IsFiniteSet(HeadingsBefore(text, i))
  <2>1. HeadingsBefore(text, i) \subseteq 1..Len(text)
    BY <1>0 DEF HeadingsBefore, Headings
  <2>2. IsFiniteSet(1..Len(text))
    BY <1>0, FS_Interval, 1 \in Int, Len(text) \in Int
  <2>. QED
    BY <2>1, <2>2, FS_Subset
<1>2. HeadingsBefore(text, NextAt(text, i))
        = HeadingsBefore(text, i) \cup (IF i \in Headings(text) THEN {i} ELSE {})
  <2>1. ASSUME NEW h \in Headings(text)
        PROVE  h < NextAt(text, i) <=> h < i \/ h = i
    <3>1. h \in 1..Len(text) /\ (i < h => NextAt(text, i) <= h)
      <4>1. h \in 1..(Len(text) - 1) /\ \A k \in 1..Len(text) : k < h => NextAt(text, k) <= h
        BY HeadingsAre
      <4>. QED
        BY <1>0, <4>1
    <3>. QED
      BY <1>0, <3>1
  <2>. QED
    BY <2>1 DEF HeadingsBefore
<1>3. CASE i \in Headings(text)
  <2>1. i \notin HeadingsBefore(text, i)
    BY DEF HeadingsBefore
  <2>. QED
    BY <1>1, <1>2, <1>3, <2>1, FS_AddElement, FS_CardinalityType
<1>4. CASE i \notin Headings(text)
  <2>1. HeadingsBefore(text, NextAt(text, i)) = HeadingsBefore(text, i)
    BY <1>2, <1>4
  <2>2. Cardinality(HeadingsBefore(text, i)) \in Nat
    BY <1>1, FS_CardinalityType
  <2>. QED
    BY <1>4, <2>1, <2>2
<1>. QED
  BY <1>3, <1>4

LEMMA NotesAreHeadings ==
  ASSUME NEW text \in Text, ~Has(text, BadDates), Accepted(<<>>, Parsed(<<>>, text))
  PROVE  Len(Parsed(<<>>, text).notes) = Cardinality(Headings(text))
<1> DEFINE Counted(s, i) ==
             /\ s.stop = 0
             /\ s.place = "date" => ~IsRefused(s.date)
             /\ s.place = "error"
                  \/ Len(s.notes) + (IF s.place \in InHeadline THEN 1 ELSE 0)
                       = Cardinality(HeadingsBefore(text, i))
           I == {m \in State \X (1..(Len(text) + 1)) : Counted(m[1], m[2])}
<1>1. /\ Fresh \in State /\ 1 \in 1..(Len(text) + 1) /\ Len(text) \in Nat
      /\ Parsed(<<>>, text) = Over(<<>>, Fresh, Scan(text)[1])
      /\ Len(<<>>) = 0
  <2>1. <<>> \in Text /\ <<>> \o text = text
    BY TextJoins DEF Text
  <2>2. Parsed(<<>>, text) = Over(<<>>, Fresh, Scan(<<>> \o text)[1]) /\ Fresh \in State
    BY <2>1, ParsedIs
  <2>. QED
    BY <2>1, <2>2, TextJoins
<1>2. <<Fresh, 1>> \in I
  <2>1. HeadingsBefore(text, 1) = {}
    BY <1>1 DEF HeadingsBefore, Headings
  <2>2. Cardinality(HeadingsBefore(text, 1)) = 0
    BY <2>1, FS_EmptySet
  <2>3. /\ Fresh.stop = 0 /\ Fresh.place = "start" /\ Len(Fresh.notes) = 0
        /\ "start" \notin InHeadline
    BY DEF Fresh, InHeadline
  <2>4. Counted(Fresh, 1)
    <3> HIDE DEF Fresh
    <3>. QED
      BY <2>2, <2>3
  <2> HIDE DEF Counted
  <2>. QED
    BY <1>1, <2>4
<1>3. ASSUME NEW s \in State, NEW i \in 1..Len(text), <<s, i>> \in I
      PROVE  <<Move(<<>>, text, i, s), NextAt(text, i)>> \in I
  <2> DEFINE t == Move(<<>>, text, i, s)
             next == NextAt(text, i)
  <2>1. t \in State /\ next \in 1..(Len(text) + 1)
    BY MoveTyped
  <2>2. Counted(s, i)
    BY <1>3
  <2>3. /\ Cardinality(HeadingsBefore(text, i)) \in Nat
        /\ Cardinality(HeadingsBefore(text, next))
             = Cardinality(HeadingsBefore(text, i)) + IF i \in Headings(text) THEN 1 ELSE 0
    BY HeadingsCount
  <2>4. i \in Headings(text) <=> ~IsSkipped(text, i) /\ TokenOf(text, i).kind = "STAR"
    BY StarIs
  <2>5. Counted(t, next)
    <3>1. CASE s.place = "error"
      <4>1. t = s
        BY <3>1 DEF Move, Step
      <4>. QED
        BY <2>2, <3>1, <4>1
    <3>2. CASE IsSkipped(text, i) /\ s.place # "error"
      <4>1. t = s /\ i \notin Headings(text)
        BY <2>4, <3>2 DEF Move
      <4> HIDE DEF t, next
      <4>2. Cardinality(HeadingsBefore(text, next)) = Cardinality(HeadingsBefore(text, i))
        BY <2>3, <4>1
      <4>. QED
        BY <2>2, <4>1, <4>2
    <3>3. CASE ~IsSkipped(text, i) /\ s.place # "error"
      <4> DEFINE token == TokenOf(text, i)
                 p == Shift(s.place, token.kind)
      <4>1. token \in Tok /\ token.next = next
        BY <3>3, NextIs
      <4>2. t = Take(s, token)
        BY <1>1, <2>2, <3>3 DEF Move, Step
      <4>3. s.place \in Places /\ token.kind \in Kinds /\ s.notes \in Seq(Item)
        BY <4>1 DEF State, Tok
      <4>4. Moves(s.place, token.kind, p)
        BY <4>3, ShiftIs
      <4>5. /\ t.place = IF p = "dated" /\ IsRefused(s.date) THEN "start" ELSE p
            /\ t.date = IF p = "date" THEN token.word ELSE s.date
            /\ t.stop = IF p = "dated" /\ IsRefused(s.date) THEN token.next ELSE s.stop
            /\ t.notes = IF p = "header" THEN Append(s.notes, Note(s.line, TagOf(s), NULL))
                         ELSE IF p = "text"
                         THEN LastWith(s.notes, IF s.place = "line" THEN s.line ELSE <<>>)
                         ELSE s.notes
        BY <4>1, <4>2, TakeIs
      <4>6. i \in Headings(text) <=> token.kind = "STAR"
        BY <2>4, <3>3
      <4>7. token.kind = "DATE" => ~IsRefused(token.word)
        <5>1. token.kind = "DATE" /\ IsRefused(token.word) => text[i] \in BadDates
          BY <3>3, DateIs
        <5>2. i \in DOMAIN text
          BY DEF Text
        <5>. QED
          BY <5>1, <5>2 DEF Has
      <4>8. /\ Len(Append(s.notes, Note(s.line, TagOf(s), NULL))) = Len(s.notes) + 1
            /\ \A line : Len(LastWith(s.notes, line)) = Len(s.notes)
            /\ Len(s.notes) \in Nat
        BY <4>3 DEF LastWith
      <4> HIDE DEF t, next, token, p
      <4>9. t.place = p /\ t.stop = 0
        BY <2>2, <4>4, <4>5 DEF Moves
      <4>10. t.place = "date" => ~IsRefused(t.date)
        BY <4>4, <4>5, <4>7, <4>9 DEF Moves
      <4>11. Len(t.notes) = Len(s.notes) + (IF p = "header" THEN 1 ELSE 0)
        <5>1. CASE p = "header"
          BY <4>5, <4>8, <5>1
        <5>2. CASE p = "text"
          <6>1. t.notes = LastWith(s.notes, IF s.place = "line" THEN s.line ELSE <<>>)
            BY <4>5, <5>2
          <6>2. Len(t.notes) = Len(s.notes)
            BY <4>8, <6>1
          <6>3. Len(s.notes) + 0 = Len(s.notes)
            BY <4>8
          <6>4. (IF p = "header" THEN 1 ELSE 0) = 0
            BY <5>2
          <6>. QED
            BY <6>2, <6>3, <6>4, Zenon
        <5>3. CASE p \notin {"header", "text"}
          <6>1. t.notes = s.notes /\ p # "header"
            BY <4>5, <5>3
          <6>2. Len(s.notes) \in Nat
            BY <4>8
          <6>. QED
            BY <6>1, <6>2
        <5>. QED
          BY <5>1, <5>2, <5>3
      <4>12. CASE p = "error"
        BY <4>9, <4>10, <4>12
      <4>13. CASE p = "star"
        <5>1. token.kind = "STAR" /\ s.place \notin InHeadline
          <6>1. token.kind = "STAR"
            BY <4>4, <4>13 DEF Moves
          <6>2. Shift(s.place, "STAR") = "star"
            BY <4>13, <6>1 DEF p
          <6>. QED
            BY <4>3, <6>1, <6>2 DEF Shift, InHeadline, LineStarts
        <5>. QED
          BY <2>2, <2>3, <3>3, <4>6, <4>8, <4>9, <4>10, <4>11, <4>13, <5>1 DEF InHeadline
      <4>14. CASE p \notin {"star", "error"}
        <5>1. token.kind # "STAR"
          BY <4>4, <4>14 DEF Moves
        <5>2. (IF p = "header" THEN 1 ELSE 0) + (IF p \in InHeadline THEN 1 ELSE 0)
                = IF s.place \in InHeadline THEN 1 ELSE 0
          <6>1. p \in Places /\ p # "start"
            BY <4>4 DEF Moves
          <6>2. CASE p \in {"todo", "prio", "headline", "tagged"}
            BY <4>4, <6>2 DEF Moves, InHeadline
          <6>3. CASE p = "header"
            BY <4>4, <6>3 DEF Moves, InHeadline
          <6>4. CASE p \in {"begun", "scheduled", "date", "dated", "line", "text"}
            BY <4>4, <6>4 DEF Moves, InHeadline, LineStarts
          <6>. QED
            BY <4>14, <6>1, <6>2, <6>3, <6>4 DEF Places, LineStarts
        <5>3. Len(s.notes) + (IF s.place \in InHeadline THEN 1 ELSE 0)
                = Cardinality(HeadingsBefore(text, i))
          BY <2>2, <3>3
        <5>4. Cardinality(HeadingsBefore(text, next)) = Cardinality(HeadingsBefore(text, i))
          BY <2>3, <4>6, <5>1
        <5>5. Len(t.notes) + (IF p \in InHeadline THEN 1 ELSE 0)
                = Cardinality(HeadingsBefore(text, next))
          <6> DEFINE a == IF p = "header" THEN 1 ELSE 0
                     b == IF p \in InHeadline THEN 1 ELSE 0
                     c == IF s.place \in InHeadline THEN 1 ELSE 0
          <6>1. a \in Nat /\ b \in Nat /\ c \in Nat
            OBVIOUS
          <6>2. a + b = c /\ Len(t.notes) = Len(s.notes) + a
            BY <4>11, <5>2
          <6>3. Len(s.notes) + c = Cardinality(HeadingsBefore(text, next))
            BY <5>3, <5>4
          <6> HIDE DEF a, b, c
          <6>4. Len(t.notes) + b = Cardinality(HeadingsBefore(text, next))
            BY <4>8, <6>1, <6>2, <6>3
          <6>. QED
            BY <6>4 DEF b
        <5>. QED
          BY <4>9, <4>10, <5>5
      <4>. QED
        BY <4>12, <4>13, <4>14
    <3>. QED
      BY <3>1, <3>2, <3>3
  <2>. QED
    BY <2>1, <2>5
<1>4. <<Over(<<>>, Fresh, Scan(text)[1]), Len(text) + 1>> \in I
  <2>1. I \in SUBSET (State \X (1..(Len(text) + 1)))
    OBVIOUS
  <2> HIDE DEF I
  <2>. QED
    BY <1>1, <1>2, <1>3, <2>1, Walk
<1>5. Counted(Parsed(<<>>, text), Len(text) + 1) /\ Parsed(<<>>, text) \in State
  <2> HIDE DEF Counted
  <2>. QED
    BY <1>1, <1>4
<1> DEFINE s == Parsed(<<>>, text)
<1>6. s.place \in LineStarts
  BY <1>1, <1>5 DEF Accepted, Stopped
<1>7. HeadingsBefore(text, Len(text) + 1) = Headings(text)
  BY <1>1 DEF HeadingsBefore, Headings
<1>8. Len(s.notes) \in Nat
  BY <1>5 DEF State
<1> HIDE DEF s
<1>9. Len(s.notes) + 0 = Cardinality(Headings(text))
  BY <1>5, <1>6, <1>7 DEF s, LineStarts, InHeadline
<1>. QED
  BY <1>8, <1>9 DEF s

\* A cycle that gets notes at all gets one for each heading of a sound file, so
\* that none is taken for a record the owner has deleted.
THEOREM HeadingsAreNotes == Spec => EveryHeadingIsANote
<1>1. TypeOK /\ [Next]_vars =>
        [Alive /\ Sound /\ buffer = <<>> => Len(notes') = Cardinality(Headings(file))]_vars
  <2> SUFFICES ASSUME TypeOK, [Next]_vars, Alive, Sound, buffer = <<>>
               PROVE  Len(notes') = Cardinality(Headings(file))
    BY DEF vars
  <2>1. /\ file \in Text /\ Accepted(<<>>, Parsed(<<>>, file))
        /\ ~Crashes(Parsed(<<>>, file).notes) /\ notes' = NotesOf(Parsed(<<>>, file).notes)
    BY AliveIs
  <2>2. Parsed(<<>>, file).notes \in Seq(Item)
    BY <2>1, TextJoins, ParsedTyped DEF State
  <2>3. Len(notes') = Len(Parsed(<<>>, file).notes)
    BY <2>1, <2>2, NotesTyped
  <2>. QED
    BY <2>1, <2>3, NotesAreHeadings DEF Sound
<1>. QED
  BY <1>1, TypeCorrect, PTL DEF Spec, EveryHeadingIsANote

-----------------------------------------------------------------------------
(* Tokens by what they are made of *)

Single(run, set, space) == Len(run) = 1 /\ run[1] \in set /\ space
TokenFrom(run, next, i, bol, space) ==
  CASE Single(run, {Star}, space) /\ bol -> Token("STAR", run, next + 1)
    [] Single(run, Keywords, space)   -> Token("TODO", run, next + 1)
    [] Single(run, Priorities, space) -> Token("PRIORITY", run, next + 1)
    [] Single(run, Schedulers, space) -> Token("SCHEDULED", run, next + 1)
    [] IsTag(run)     -> Token("TAG", SubSeq(run, 2, Len(run) - 1), next)
    [] run[1] \in Dates \cup BadDates -> Token("DATE", <<run[1]>>, i + 1)
    [] OTHER -> Token("WORD", run, next)

LEMMA TokenAtFrom ==
  ASSUME NEW text, NEW i
  PROVE  TokenAt(text, i) = TokenFrom(SubSeq(text, i, Past(text, i, Glyphs) - 1),
                                      Past(text, i, Glyphs), i, AtBol(text, i),
                                      SpaceAt(text, Past(text, i, Glyphs)))
BY Zenon DEF TokenAt, TokenFrom, Single

LEMMA TokenFromIs ==
  ASSUME NEW run, NEW next, NEW i, NEW bol \in BOOLEAN, NEW space \in BOOLEAN,
         NEW t, t = TokenFrom(run, next, i, bol, space)
  PROVE  /\ Single(run, {Star}, space) /\ bol => t = Token("STAR", run, next + 1)
         /\ Single(run, Keywords, space) => t = Token("TODO", run, next + 1)
         /\ Single(run, Priorities, space) => t = Token("PRIORITY", run, next + 1)
         /\ Single(run, Schedulers, space) => t = Token("SCHEDULED", run, next + 1)
         /\ IsTag(run) => t = Token("TAG", SubSeq(run, 2, Len(run) - 1), next)
         /\ run[1] \in Dates \cup BadDates => t = Token("DATE", <<run[1]>>, i + 1)
         /\ /\ ~(Single(run, {Star}, space) /\ bol)
            /\ ~Single(run, Keywords \cup Priorities \cup Schedulers, space)
            /\ ~IsTag(run)
            /\ run[1] \notin Dates \cup BadDates
            => t = Token("WORD", run, next)
<1> DEFINE star == Single(run, {Star}, space) /\ bol
           todo == Single(run, Keywords, space)
           prio == Single(run, Priorities, space)
           plan == Single(run, Schedulers, space)
           tag  == IsTag(run)
           date == run[1] \in Dates \cup BadDates
<1>1. t = CASE star -> Token("STAR", run, next + 1)
            [] todo -> Token("TODO", run, next + 1)
            [] prio -> Token("PRIORITY", run, next + 1)
            [] plan -> Token("SCHEDULED", run, next + 1)
            [] tag  -> Token("TAG", SubSeq(run, 2, Len(run) - 1), next)
            [] date -> Token("DATE", <<run[1]>>, i + 1)
            [] OTHER -> Token("WORD", run, next)
  BY Zenon DEF TokenFrom
<1>2. /\ star => ~todo /\ ~prio /\ ~plan
      /\ todo => ~star /\ ~prio /\ ~plan
      /\ prio => ~star /\ ~todo /\ ~plan
      /\ plan => ~star /\ ~todo /\ ~prio
  BY DEF Single, Star, Keywords, Priorities, Schedulers
<1>3. (star \/ todo \/ prio \/ plan) => ~tag
  BY DEF Single, IsTag
<1>4. (star \/ todo \/ prio \/ plan \/ tag) => ~date
  <2>1. (star \/ todo \/ prio \/ plan) =>
           run[1] \in Keywords \cup Priorities \cup Schedulers \cup {Star, Colon, Directive, Default}
    BY DEF Single
  <2>2. tag => run[1] \in Keywords \cup Priorities \cup Schedulers \cup {Star, Colon, Directive, Default}
    BY DEF IsTag
  <2>. QED
    BY <2>1, <2>2, SymbolsDiffer
<1>5. Single(run, Keywords \cup Priorities \cup Schedulers, space) <=> todo \/ prio \/ plan
  BY DEF Single
<1> HIDE DEF star, todo, prio, plan, tag, date
<1>6. /\ star => t = Token("STAR", run, next + 1)
      /\ todo => t = Token("TODO", run, next + 1)
      /\ prio => t = Token("PRIORITY", run, next + 1)
      /\ plan => t = Token("SCHEDULED", run, next + 1)
  BY <1>1, <1>2, <1>3, <1>4, Zenon
<1>7. /\ tag => t = Token("TAG", SubSeq(run, 2, Len(run) - 1), next)
      /\ date => t = Token("DATE", <<run[1]>>, i + 1)
      /\ ~star /\ ~todo /\ ~prio /\ ~plan /\ ~tag /\ ~date => t = Token("WORD", run, next)
  BY <1>1, <1>2, <1>3, <1>4, Zenon
<1>. QED
  BY <1>5, <1>6, <1>7 DEF star, todo, prio, plan, tag, date

\* A token behind some other text is the same token, further on.
Further(n, token) == Token(token.kind, token.word, n + token.next)

LEMMA TokenFromFurther ==
  ASSUME NEW run, NEW next \in Nat, NEW i \in Nat, NEW n \in Nat,
         NEW bol \in BOOLEAN, NEW space \in BOOLEAN
  PROVE  TokenFrom(run, n + next, n + i, bol, space) = Further(n, TokenFrom(run, next, i, bol, space))
<1> DEFINE t == TokenFrom(run, next, i, bol, space)
           u == TokenFrom(run, n + next, n + i, bol, space)
<1>1. /\ n + (next + 1) = n + next + 1 /\ n + (i + 1) = n + i + 1
      /\ \A kind, word, k : Further(n, Token(kind, word, k)) = Token(kind, word, n + k)
  BY DEF Further, Token
<1>2. CASE Single(run, {Star}, space) /\ bol
  <2>1. t = Token("STAR", run, next + 1) /\ u = Token("STAR", run, n + next + 1)
    BY <1>2, TokenFromIs
  <2> HIDE DEF t, u
  <2>. QED
    BY <1>1, <2>1 DEF t, u
<1>3. CASE Single(run, Keywords \cup Priorities \cup Schedulers, space)
  <2>1. \E kind \in {"TODO", "PRIORITY", "SCHEDULED"} :
          t = Token(kind, run, next + 1) /\ u = Token(kind, run, n + next + 1)
    <3>1. \/ Single(run, Keywords, space) \/ Single(run, Priorities, space)
          \/ Single(run, Schedulers, space)
      BY <1>3 DEF Single
    <3>2. CASE Single(run, Keywords, space)
      <4>1. t = Token("TODO", run, next + 1) /\ u = Token("TODO", run, n + next + 1)
        BY <3>2, TokenFromIs
      <4>. QED
        BY <4>1
    <3>3. CASE Single(run, Priorities, space)
      <4>1. t = Token("PRIORITY", run, next + 1) /\ u = Token("PRIORITY", run, n + next + 1)
        BY <3>3, TokenFromIs
      <4>. QED
        BY <4>1
    <3>4. CASE Single(run, Schedulers, space)
      <4>1. t = Token("SCHEDULED", run, next + 1) /\ u = Token("SCHEDULED", run, n + next + 1)
        BY <3>4, TokenFromIs
      <4>. QED
        BY <4>1
    <3>. QED
      BY <3>1, <3>2, <3>3, <3>4
  <2> HIDE DEF t, u
  <2>. QED
    BY <1>1, <2>1 DEF t, u
<1>4. CASE IsTag(run)
  <2>1. /\ t = Token("TAG", SubSeq(run, 2, Len(run) - 1), next)
        /\ u = Token("TAG", SubSeq(run, 2, Len(run) - 1), n + next)
    BY <1>4, TokenFromIs
  <2> HIDE DEF t, u
  <2>. QED
    BY <1>1, <2>1 DEF t, u
<1>5. CASE run[1] \in Dates \cup BadDates
  <2>1. t = Token("DATE", <<run[1]>>, i + 1) /\ u = Token("DATE", <<run[1]>>, n + i + 1)
    BY <1>5, TokenFromIs
  <2> HIDE DEF t, u
  <2>. QED
    BY <1>1, <2>1 DEF t, u
<1>6. CASE /\ ~(Single(run, {Star}, space) /\ bol)
           /\ ~Single(run, Keywords \cup Priorities \cup Schedulers, space)
           /\ ~IsTag(run)
           /\ run[1] \notin Dates \cup BadDates
  <2>1. t = Token("WORD", run, next) /\ u = Token("WORD", run, n + next)
    BY <1>6, TokenFromIs
  <2> HIDE DEF t, u
  <2>. QED
    BY <1>1, <2>1 DEF t, u
<1>. QED
  BY <1>2, <1>3, <1>4, <1>5, <1>6

-----------------------------------------------------------------------------
(* A text behind another *)

\* There is one first position behind those in the set.
LEMMA PastOnly ==
  ASSUME NEW text \in Text, NEW i \in Nat \ {0}, i <= Len(text) + 1, NEW set,
         NEW p \in i..(Len(text) + 1), \A j \in i..(p - 1) : text[j] \in set,
         p <= Len(text) => text[p] \notin set
  PROVE  Past(text, i, set) = p
<1> DEFINE q == Past(text, i, set)
<1>1. /\ q \in i..(Len(text) + 1)
      /\ \A j \in i..(q - 1) : text[j] \in set
      /\ q <= Len(text) => text[q] \notin set
  BY PastIs
<1>2. Len(text) \in Nat
  BY TextJoins
<1> HIDE DEF q
<1>3. ~(q < p)
  <2>1. q < p => q \in i..(p - 1) /\ q <= Len(text)
    BY <1>1, <1>2
  <2>. QED
    BY <1>1, <2>1
<1>4. ~(p < q)
  <2>1. p < q => p \in i..(q - 1) /\ p <= Len(text)
    BY <1>1, <1>2
  <2>. QED
    BY <1>1, <2>1
<1>5. q = p
  BY <1>1, <1>2, <1>3, <1>4
<1>. QED
  BY <1>5 DEF q

LEMMA JoinIs ==
  ASSUME NEW a \in Text, NEW b \in Text
  PROVE  /\ a \o b \in Text
         /\ Len(a) \in Nat /\ Len(b) \in Nat
         /\ Len(a \o b) = Len(a) + Len(b)
         /\ \A i \in 1..Len(a) : (a \o b)[i] = a[i]
         /\ \A i \in 1..Len(b) : (a \o b)[Len(a) + i] = b[i]
BY DEF Text

\* What comes behind a line does not change how it is read.
LEMMA ReadBefore ==
  ASSUME NEW a \in Text, NEW b \in Text, AtLineStart(a), b # <<>> => b[1] # NL,
         NEW i \in 1..Len(a)
  PROVE  /\ NextAt(a \o b, i) = NextAt(a, i)
         /\ IsSkipped(a \o b, i) = IsSkipped(a, i)
         /\ ~IsSkipped(a, i) => TokenOf(a \o b, i) = TokenOf(a, i)
<1> DEFINE all == a \o b
           n == Len(a)
<1>1. /\ all \in Text /\ n \in Nat /\ Len(b) \in Nat /\ Len(all) = n + Len(b)
      /\ \A k \in 1..n : all[k] = a[k]
  BY JoinIs
<1>2. a[n] = NL /\ n \in 1..n
  <2>1. n \in 1..n /\ a # <<>>
    BY <1>1
  <2>. QED
    BY <2>1 DEF AtLineStart, Last
<1>3. n < Len(all) => all[n + 1] = b[1] /\ b # <<>>
  <2>1. n < Len(all) => 1 \in 1..Len(b)
    BY <1>1
  <2>. QED
    BY <2>1, JoinIs
<1> HIDE DEF all
<1>4. ASSUME NEW set, NL \notin set
      PROVE  Past(all, i, set) = Past(a, i, set) /\ Past(a, i, set) \in i..n
  <2> DEFINE p == Past(a, i, set)
  <2>1. /\ p \in i..(n + 1)
        /\ \A j \in i..(p - 1) : a[j] \in set
        /\ p <= n => a[p] \notin set
    BY <1>1, PastIs, i \in Nat \ {0}, i <= Len(a) + 1
  <2> HIDE DEF p
  <2>2. p \in i..n
    <3>1. n \notin i..(p - 1)
      BY <1>2, <1>4, <2>1
    <3>. QED
      BY <1>1, <2>1, <3>1
  <2>3. /\ p \in i..(Len(all) + 1)
        /\ \A j \in i..(p - 1) : all[j] \in set
        /\ p <= Len(all) => all[p] \notin set
    BY <1>1, <2>1, <2>2
  <2>4. Past(all, i, set) = p
    BY <1>1, <2>3, PastOnly, i \in Nat \ {0}, i <= Len(all) + 1
  <2>. QED
    BY <2>2, <2>4 DEF p
<1>5. Past(all, i, {NL}) = Past(a, i, {NL})
  <2> DEFINE p == Past(a, i, {NL})
  <2>1. /\ p \in i..(n + 1)
        /\ \A j \in i..(p - 1) : a[j] \in {NL}
        /\ p <= n => a[p] \notin {NL}
    BY <1>1, PastIs, i \in Nat \ {0}, i <= Len(a) + 1
  <2> HIDE DEF p
  <2>2. /\ p \in i..(Len(all) + 1)
        /\ \A j \in i..(p - 1) : all[j] \in {NL}
    BY <1>1, <2>1
  <2>3. p <= Len(all) => all[p] \notin {NL}
    <3>1. CASE p <= n
      BY <1>1, <2>1, <3>1
    <3>2. CASE p = n + 1
      BY <1>1, <1>3, <3>2
    <3>. QED
      BY <1>1, <2>1, <3>1, <3>2
  <2>4. Past(all, i, {NL}) = p
    BY <1>1, <2>2, <2>3, PastOnly, i \in Nat \ {0}, i <= Len(all) + 1
  <2>. QED
    BY <2>4 DEF p
<1>6. /\ all[i] = a[i] /\ i <= Len(all)
      /\ AtBol(all, i) = AtBol(a, i)
  <2>1. i = 1 \/ i - 1 \in 1..n
    BY <1>1
  <2>2. i = 1 \/ all[i - 1] = a[i - 1]
    BY <1>1, <2>1
  <2>. QED
    BY <1>1, <2>2 DEF AtBol
<1>7. DirectiveAt(all, i) = DirectiveAt(a, i)
      /\ Past(all, i, Symbols \ {NL}) = Past(a, i, Symbols \ {NL})
  <2>1. /\ Past(all, i, Symbols \ {NL}) = Past(a, i, Symbols \ {NL})
        /\ Past(a, i, Symbols \ {NL}) \in i..n
    BY <1>4
  <2>. QED
    BY <1>1, <1>6, <2>1 DEF DirectiveAt
<1>8. IsSkipped(all, i) = IsSkipped(a, i)
  BY <1>6, <1>7 DEF IsSkipped
<1>9. TokenOf(all, i) = TokenOf(a, i)
  <2>1. NewlineAt(all, i) = NewlineAt(a, i)
    BY <1>5, <1>6 DEF NewlineAt
  <2> DEFINE p == Past(a, i, Glyphs)
  <2>2. NL \notin Glyphs
    BY SymbolsDiffer
  <2>3. Past(all, i, Glyphs) = p /\ p \in i..n
    BY <1>4, <2>2
  <2> HIDE DEF p
  <2>4. SubSeq(all, i, p - 1) = SubSeq(a, i, p - 1)
    <3>1. \A k \in 1..(p - i) : i + k - 1 \in 1..n
      BY <1>1, <2>3
    <3>2. SubSeq(all, i, p - 1) = [k \in 1..(p - i) |-> all[i + k - 1]]
      BY <1>1, <2>3, <3>1 DEF Text
    <3>3. SubSeq(a, i, p - 1) = [k \in 1..(p - i) |-> a[i + k - 1]]
      BY <1>1, <2>3, <3>1 DEF Text
    <3>4. \A k \in 1..(p - i) : all[i + k - 1] = a[i + k - 1]
      BY <1>1, <3>1
    <3>. QED
      BY <3>2, <3>3, <3>4
  <2>5. SpaceAt(all, p) = SpaceAt(a, p)
    BY <1>1, <2>3 DEF SpaceAt
  <2>6. /\ TokenAt(all, i) = TokenFrom(SubSeq(all, i, p - 1), p, i, AtBol(all, i), SpaceAt(all, p))
        /\ TokenAt(a, i) = TokenFrom(SubSeq(a, i, p - 1), p, i, AtBol(a, i), SpaceAt(a, p))
    BY <2>3, TokenAtFrom DEF p
  <2>7. TokenAt(all, i) = TokenAt(a, i)
    BY <1>6, <2>4, <2>5, <2>6
  <2>. QED
    BY <1>6, <2>1, <2>7 DEF TokenOf
<1>10. NextAt(all, i) = NextAt(a, i)
  BY <1>6, <1>7, <1>9 DEF NextAt
<1>. QED
  BY <1>8, <1>9, <1>10 DEF all

\* And what comes before a line does not change how it is read.
LEMMA ReadBehind ==
  ASSUME NEW a \in Text, NEW b \in Text, AtLineStart(a), NEW i \in 1..Len(b)
  PROVE  /\ NextAt(a \o b, Len(a) + i) = Len(a) + NextAt(b, i)
         /\ IsSkipped(a \o b, Len(a) + i) = IsSkipped(b, i)
         /\ ~IsSkipped(b, i) => TokenOf(a \o b, Len(a) + i) = Further(Len(a), TokenOf(b, i))
<1> DEFINE all == a \o b
           n == Len(a)
<1>1. /\ all \in Text /\ n \in Nat /\ Len(b) \in Nat /\ Len(all) = n + Len(b)
      /\ \A k \in 1..n : all[k] = a[k]
      /\ \A k \in 1..Len(b) : all[n + k] = b[k]
  BY JoinIs
<1>2. n # 0 => a[n] = NL /\ n \in 1..n
  <2>1. n # 0 => n \in 1..n /\ a # <<>>
    BY <1>1
  <2>. QED
    BY <2>1 DEF AtLineStart, Last
<1>3. i \in Nat \ {0} /\ i <= Len(b) + 1 /\ n + i \in Nat \ {0} /\ n + i <= Len(all) + 1
  BY <1>1
<1> HIDE DEF all, n
<1>4. ASSUME NEW set
      PROVE  Past(all, n + i, set) = n + Past(b, i, set) /\ Past(b, i, set) \in i..(Len(b) + 1)
  <2> DEFINE p == Past(b, i, set)
  <2>1. /\ p \in i..(Len(b) + 1)
        /\ \A j \in i..(p - 1) : b[j] \in set
        /\ p <= Len(b) => b[p] \notin set
    BY <1>3, PastIs
  <2> HIDE DEF p
  <2>2. n + p \in (n + i)..(Len(all) + 1)
    BY <1>1, <2>1
  <2>3. ASSUME NEW j \in (n + i)..(n + p - 1)
        PROVE  all[j] \in set
    <3>1. j - n \in i..(p - 1) /\ j - n \in 1..Len(b) /\ j = n + (j - n)
      BY <1>1, <2>1
    <3>2. all[n + (j - n)] = b[j - n]
      BY <1>1, <3>1
    <3>. QED
      BY <2>1, <3>1, <3>2
  <2>4. n + p <= Len(all) => all[n + p] \notin set
    <3>1. n + p <= Len(all) => p \in 1..Len(b)
      BY <1>1, <2>1
    <3>. QED
      BY <1>1, <2>1, <3>1
  <2>5. Past(all, n + i, set) = n + p
    <3> DEFINE first == n + i
               q == n + p
    <3>1. /\ first \in Nat \ {0} /\ first <= Len(all) + 1
          /\ q \in first..(Len(all) + 1) /\ \A j \in first..(q - 1) : all[j] \in set
          /\ q <= Len(all) => all[q] \notin set
      <4>1. \A j \in first..(q - 1) : all[j] \in set
        BY <1>1, <1>3, <2>1, <2>3
      <4>. QED
        BY <1>3, <2>2, <2>4, <4>1
    <3> HIDE DEF first, q
    <3>2. Past(all, first, set) = q
      BY <1>1, <3>1, PastOnly
    <3>. QED
      BY <3>2 DEF first, q
  <2>. QED
    BY <2>1, <2>5 DEF p
<1>5. /\ all[n + i] = b[i]
      /\ AtBol(all, n + i) = AtBol(b, i)
  <2>1. CASE i = 1
    <3>1. n = 0 \/ all[n + i - 1] = NL
      <4>1. n + i - 1 = n
        BY <1>1, <2>1
      <4>. QED
        BY <1>1, <1>2, <4>1
    <3>2. AtBol(b, i) /\ AtBol(all, n + i)
      BY <1>1, <2>1, <3>1 DEF AtBol
    <3>. QED
      BY <1>1, <3>2
  <2>2. CASE i # 1
    <3>1. i - 1 \in 1..Len(b) /\ n + i - 1 = n + (i - 1) /\ n + i # 1
      BY <1>1, <2>2
    <3>2. all[n + i - 1] = b[i - 1]
      BY <1>1, <3>1
    <3>. QED
      BY <1>1, <2>2, <3>1, <3>2 DEF AtBol
  <2>. QED
    BY <2>1, <2>2
<1>6. /\ Past(all, n + i, Symbols \ {NL}) = n + Past(b, i, Symbols \ {NL})
      /\ Past(b, i, Symbols \ {NL}) \in i..(Len(b) + 1)
  BY <1>4
<1>7. DirectiveAt(all, n + i) = DirectiveAt(b, i)
  <2> DEFINE p == Past(b, i, Symbols \ {NL})
  <2>1. p \in Nat
    BY <1>1, <1>6
  <2>2. Past(all, n + i, Symbols \ {NL}) = n + p
    BY <1>6
  <2> HIDE DEF p
  <2>3. (n + p > n + i + 1) = (p > i + 1) /\ (n + p <= Len(all)) = (p <= Len(b))
    BY <1>1, <1>3, <2>1
  <2>. QED
    BY <1>5, <2>2, <2>3 DEF DirectiveAt, p
<1>8. IsSkipped(all, n + i) = IsSkipped(b, i)
  BY <1>5, <1>7 DEF IsSkipped
<1>9. ASSUME ~IsSkipped(b, i)
      PROVE  TokenOf(all, n + i) = Further(n, TokenOf(b, i))
  <2>1. NewlineAt(all, n + i) = Further(n, NewlineAt(b, i))
    <3> DEFINE p == Past(b, i, {NL})
    <3>1. Past(all, n + i, {NL}) = n + p /\ p \in Nat
      BY <1>1, <1>4
    <3> HIDE DEF p
    <3>2. /\ NewlineAt(all, n + i)
               = Token("NEWLINE", <<>>, IF AtBol(b, i) THEN n + p ELSE n + i + 1)
          /\ NewlineAt(b, i) = Token("NEWLINE", <<>>, IF AtBol(b, i) THEN p ELSE i + 1)
      BY <1>5, <3>1 DEF NewlineAt, p
    <3>3. n + (i + 1) = n + i + 1
      BY <1>1
    <3>4. CASE AtBol(b, i)
      BY <3>2, <3>4 DEF Further, Token
    <3>5. CASE ~AtBol(b, i)
      BY <3>2, <3>3, <3>5 DEF Further, Token
    <3>. QED
      BY <3>4, <3>5
  <2> DEFINE p == Past(b, i, Glyphs)
  <2>2. Past(all, n + i, Glyphs) = n + p /\ p \in i..(Len(b) + 1)
    BY <1>4
  <2> HIDE DEF p
  <2>3. SubSeq(all, n + i, n + p - 1) = SubSeq(b, i, p - 1)
    <3>1. /\ n + p - 1 - (n + i) + 1 = p - i /\ p - 1 - i + 1 = p - i
          /\ \A k \in 1..(p - i) : n + i + k - 1 = n + (i + k - 1) /\ i + k - 1 \in 1..Len(b)
      BY <1>1, <2>2
    <3>2. SubSeq(all, n + i, n + p - 1) = [k \in 1..(p - i) |-> all[n + i + k - 1]]
      BY <1>1, <2>2, <3>1 DEF Text
    <3>3. SubSeq(b, i, p - 1) = [k \in 1..(p - i) |-> b[i + k - 1]]
      BY <1>1, <2>2, <3>1 DEF Text
    <3>4. \A k \in 1..(p - i) : all[n + i + k - 1] = b[i + k - 1]
      BY <1>1, <3>1
    <3>. QED
      BY <3>2, <3>3, <3>4
  <2>4. SpaceAt(all, n + p) = SpaceAt(b, p)
    <3>1. (n + p <= Len(all)) = (p <= Len(b)) /\ (p <= Len(b) => p \in 1..Len(b))
      BY <1>1, <2>2
    <3>. QED
      BY <1>1, <3>1 DEF SpaceAt
  <2>5. /\ TokenAt(all, n + i) = TokenFrom(SubSeq(all, n + i, n + p - 1), n + p, n + i,
                                           AtBol(all, n + i), SpaceAt(all, n + p))
        /\ TokenAt(b, i) = TokenFrom(SubSeq(b, i, p - 1), p, i, AtBol(b, i), SpaceAt(b, p))
    <3>1. TokenAt(all, n + i)
            = TokenFrom(SubSeq(all, n + i, Past(all, n + i, Glyphs) - 1), Past(all, n + i, Glyphs),
                        n + i, AtBol(all, n + i), SpaceAt(all, Past(all, n + i, Glyphs)))
      BY TokenAtFrom, Zenon
    <3>2. TokenAt(b, i) = TokenFrom(SubSeq(b, i, p - 1), p, i, AtBol(b, i), SpaceAt(b, p))
      BY TokenAtFrom, Zenon DEF p
    <3> DEFINE q == Past(all, n + i, Glyphs)
    <3>3. q = n + p
      BY <2>2
    <3>4. TokenAt(all, n + i)
            = TokenFrom(SubSeq(all, n + i, q - 1), q, n + i, AtBol(all, n + i), SpaceAt(all, q))
      BY <3>1
    <3> HIDE DEF q
    <3>5. TokenAt(all, n + i) = TokenFrom(SubSeq(all, n + i, n + p - 1), n + p, n + i,
                                          AtBol(all, n + i), SpaceAt(all, n + p))
      BY <1>1, <1>3, <2>2, <3>3, <3>4
    <3>. QED
      BY <3>2, <3>5
  <2>6. TokenAt(all, n + i) = Further(n, TokenAt(b, i))
    <3> DEFINE run == SubSeq(b, i, p - 1)
    <3>1. AtBol(b, i) \in BOOLEAN /\ SpaceAt(b, p) \in BOOLEAN /\ p \in Nat
      BY <1>1, <2>2 DEF AtBol, SpaceAt
    <3>2. TokenAt(all, n + i) = TokenFrom(run, n + p, n + i, AtBol(b, i), SpaceAt(b, p))
      BY <1>5, <2>3, <2>4, <2>5, Zenon
    <3>3. TokenAt(b, i) = TokenFrom(run, p, i, AtBol(b, i), SpaceAt(b, p))
      BY <2>5
    <3> HIDE DEF run
    <3>4. TokenFrom(run, n + p, n + i, AtBol(b, i), SpaceAt(b, p))
            = Further(n, TokenFrom(run, p, i, AtBol(b, i), SpaceAt(b, p)))
      BY <1>1, <1>3, <3>1, TokenFromFurther
    <3>. QED
      BY <3>2, <3>3, <3>4, Zenon
  <2>. QED
    BY <1>5, <2>1, <2>6 DEF TokenOf
<1>10. NextAt(all, n + i) = n + NextAt(b, i)
  <2>1. CASE DirectiveAt(b, i)
    <3>1. n + (Past(b, i, Symbols \ {NL}) + 1) = n + Past(b, i, Symbols \ {NL}) + 1
      BY <1>1, <1>6
    <3>. QED
      BY <1>6, <1>7, <2>1, <3>1 DEF NextAt
  <2>2. CASE ~DirectiveAt(b, i) /\ b[i] \in Blanks \cup RawBytes
    <3>1. n + (i + 1) = n + i + 1
      BY <1>1
    <3>. QED
      BY <1>5, <1>7, <2>2, <3>1 DEF NextAt
  <2>3. CASE ~IsSkipped(b, i)
    <3>1. NextAt(all, n + i) = TokenOf(all, n + i).next /\ NextAt(b, i) = TokenOf(b, i).next
      BY <1>8, <2>3 DEF NextAt, IsSkipped
    <3>. QED
      BY <1>9, <2>3, <3>1 DEF Further, Token
  <2>. QED
    BY <2>1, <2>2, <2>3 DEF IsSkipped
<1>. QED
  BY <1>8, <1>9, <1>10 DEF all, n

LEMMA FreshIs ==
  /\ Fresh \in State /\ Fresh.place = "start" /\ Fresh.stop = 0
  /\ Fresh.notes = <<>> /\ <<>> \in Text
<1>1. <<>> \in Text
  BY DEF Text
<1>. QED
  BY <1>1, ParsedIs DEF Fresh

\* The parser goes through a text and then through what is behind it.
LEMMA OverBefore ==
  ASSUME NEW carry, NEW a \in Text, NEW b \in Text, AtLineStart(a), b # <<>> => b[1] # NL
  PROVE  /\ Over(carry, Fresh, Scan(a)[1]) \in State
         /\ Over(carry, Fresh, Scan(a \o b)[1])
              = Over(carry, Over(carry, Fresh, Scan(a)[1]), Scan(a \o b)[Len(a) + 1])
<1> DEFINE all == a \o b
           from == Fresh
           first == 1
           to == Over(carry, from, Scan(a)[first])
           end == Over(carry, from, Scan(all)[first])
           I == {m \in State \X (1..(Len(a) + 1)) : Over(carry, m[1], Scan(all)[m[2]]) = end}
<1>1. /\ all \in Text /\ Len(a) \in Nat /\ Len(b) \in Nat /\ Len(all) = Len(a) + Len(b)
  BY JoinIs
<1>2. <<from, first>> \in I
  <2>1. from \in State /\ first \in 1..(Len(a) + 1)
    BY <1>1, FreshIs
  <2> HIDE DEF from, first, end, all
  <2>2. Over(carry, from, Scan(all)[first]) = end
    BY DEF end
  <2>. QED
    BY <2>1, <2>2
<1> HIDE DEF from, first
<1>3. ASSUME NEW s \in State, NEW i \in 1..Len(a), <<s, i>> \in I
      PROVE  <<Move(carry, a, i, s), NextAt(a, i)>> \in I
  <2>1. Move(carry, a, i, s) \in State /\ NextAt(a, i) \in 1..(Len(a) + 1)
    BY MoveTyped
  <2>2. /\ NextAt(all, i) = NextAt(a, i)
        /\ IsSkipped(all, i) = IsSkipped(a, i)
        /\ ~IsSkipped(a, i) => TokenOf(all, i) = TokenOf(a, i)
    BY ReadBefore
  <2>3. Move(carry, all, i, s) = Move(carry, a, i, s)
    BY <2>2 DEF Move
  <2>4. i \in 1..Len(all)
    BY <1>1
  <2>5. Over(carry, s, Scan(all)[i]) = Over(carry, Move(carry, all, i, s), Scan(all)[NextAt(all, i)])
    <3> HIDE DEF all
    <3>. QED
      BY <1>1, <2>4, MoveIs
  <2>6. Over(carry, s, Scan(all)[i]) = end
    BY <1>3
  <2> HIDE DEF end, all
  <2>7. Over(carry, Move(carry, a, i, s), Scan(all)[NextAt(a, i)]) = end
    BY <2>2, <2>3, <2>5, <2>6
  <2>. QED
    BY <2>1, <2>7
<1>4. I \in SUBSET (State \X (1..(Len(a) + 1)))
  OBVIOUS
<1>5. <<to, Len(a) + 1>> \in I
  <2>1. from \in State /\ first \in 1..(Len(a) + 1)
    BY <1>2
  <2> HIDE DEF I
  <2>. QED
    BY <1>2, <1>3, <1>4, <2>1, Walk
<1> HIDE DEF to, end, all
<1>6. to \in State /\ Over(carry, to, Scan(all)[Len(a) + 1]) = end
  BY <1>5
<1>. QED
  BY <1>6 DEF from, first, to, end, all

-----------------------------------------------------------------------------
(* An item behind a file *)

\* What the states of two parsers have in common when one of them reads an item alone, and
\* the other has "before" from the file in front of it.
Alike(before, s, t) ==
  /\ s.place = t.place
  /\ s.stop > 1 <=> t.stop > 1
  /\ s.notes = before \o t.notes
  /\ t.place \in {"headline", "tagged", "line"} => s.line = t.line
  /\ t.place = "tagged" => s.tag = t.tag
  /\ t.place = "date" => s.date = t.date
  /\ t.place \in InHeadline \cup {"error"} \/ t.notes # <<>>

LEMMA LastWithBehind ==
  ASSUME NEW before \in Seq(Item), NEW entries \in Seq(Item), entries # <<>>, NEW text \in Text
  PROVE  LastWith(before \o entries, text) = before \o LastWith(entries, text)
         /\ LastWith(entries, text) # <<>>
<1> DEFINE n == Len(before)
           k == Len(entries)
           all == before \o entries
           note == WithText(entries[k], text)
<1>1. /\ n \in Nat /\ k \in Nat /\ k # 0 /\ all \in Seq(Item) /\ Len(all) = n + k
      /\ \A i \in 1..n : all[i] = before[i]
      /\ \A i \in 1..k : all[n + i] = entries[i]
      /\ \A i \in 1..(n + k) : i > n => all[i] = entries[i - n]
  OBVIOUS
<1>2. entries[k] \in Item /\ note \in Item
  BY <1>1, WithTextTyped
<1>3. LastWith(entries, text) = [i \in 1..k |-> IF i = k THEN note ELSE entries[i]]
  BY <1>1 DEF LastWith
<1>4. LastWith(all, text) = [i \in 1..(n + k) |-> IF i = n + k THEN note ELSE all[i]]
  <2>1. all[Len(all)] = entries[k]
    BY <1>1
  <2>2. LastWith(all, text) = [all EXCEPT ![n + k] = WithText(all[n + k], text)]
    BY <1>1 DEF LastWith
  <2>3. all = [i \in 1..(n + k) |-> all[i]]
    <3> HIDE DEF all, n, k
    <3>. QED
      BY <1>1
  <2> HIDE DEF all, note
  <2>4. WithText(all[n + k], text) = note
    BY <1>1, <2>1 DEF note
  <2>. QED
    BY <2>2, <2>3, <2>4
<1> DEFINE last == [i \in 1..k |-> IF i = k THEN note ELSE entries[i]]
<1>5. last \in Seq(Item) /\ Len(last) = k
  <2>1. \A i \in 1..k : (IF i = k THEN note ELSE entries[i]) \in Item
    BY <1>2
  <2> HIDE DEF note
  <2>. QED
    BY <1>1, <2>1
<1>6. before \o last = [i \in 1..(n + k) |-> IF i <= n THEN before[i] ELSE last[i - n]]
  <2> HIDE DEF last
  <2> DEFINE joined == before \o last
  <2>1. /\ joined \in Seq(Item) /\ Len(joined) = n + k
        /\ \A i \in 1..(n + k) : joined[i] = IF i <= n THEN before[i] ELSE last[i - n]
    <3>1. joined \in Seq(Item) /\ Len(joined) = n + k
      <4>1. last \in Seq(Item)
        BY <1>5
      <4>2. joined \in Seq(Item) /\ Len(joined) = Len(before) + Len(last)
        BY <4>1
      <4>. QED
        BY <1>5, <4>2
    <3>2. ASSUME NEW i \in 1..(n + k), i <= n
          PROVE  joined[i] = before[i]
      BY <1>1, <1>5, <3>2
    <3>3. ASSUME NEW i \in 1..(n + k), ~(i <= n)
          PROVE  joined[i] = last[i - n]
      <4>1. i - n \in 1..k
        BY <1>1, <3>3
      <4>. QED
        BY <1>1, <1>5, <3>3, <4>1
    <3>. QED
      BY <3>1, <3>2, <3>3
  <2> HIDE DEF joined, n, k
  <2>2. joined = [i \in 1..(n + k) |-> joined[i]]
    BY <2>1
  <2>3. joined = [i \in 1..(n + k) |-> IF i <= n THEN before[i] ELSE last[i - n]]
    BY <2>1, <2>2
  <2>. QED
    BY <2>3 DEF joined
<1>7. \A i \in 1..(n + k) :
         (IF i = n + k THEN note ELSE all[i]) = (IF i <= n THEN before[i] ELSE last[i - n])
  <2> TAKE i \in 1..(n + k)
  <2>1. CASE i <= n
    BY <1>1, <2>1
  <2>2. CASE i > n
    <3>1. i - n \in 1..k /\ (i = n + k <=> i - n = k)
      BY <1>1, <2>2
    <3>2. last[i - n] = IF i - n = k THEN note ELSE entries[i - n]
      BY <3>1
    <3>3. all[i] = entries[i - n] /\ ~(i <= n)
      BY <1>1, <2>2
    <3> HIDE DEF all, note, last
    <3>. QED
      BY <3>1, <3>2, <3>3
  <2>. QED
    BY <1>1, <2>1, <2>2
<1>8. LastWith(all, text) = before \o last
  <2> HIDE DEF all, note, last
  <2>. QED
    BY <1>4, <1>6, <1>7, SMTT(30)
<1>9. last # <<>>
  BY <1>1, <1>5
<1>. QED
  BY <1>3, <1>8, <1>9

\* The same token keeps them alike.
LEMMA TakeAlike ==
  ASSUME NEW before \in Seq(Item), NEW s \in State, NEW t \in State, Alike(before, s, t),
         NEW token \in Tok, token.next > 1, NEW n \in Nat
  PROVE  Alike(before, Step(<<>>, s, Further(n, token)), Step(<<>>, t, token))
<1>1. Stopped(<<>>, s) = (s.stop > 1) /\ Stopped(<<>>, t) = (t.stop > 1)
  <2>1. Len(<<>>) + 1 = 1
    OBVIOUS
  <2>. QED
    BY <2>1, Zenon DEF Stopped
<1>2. CASE s.place = "error" \/ s.stop > 1
  <2>1. t.place = "error" \/ t.stop > 1
    BY <1>2 DEF Alike
  <2>2. Step(<<>>, s, Further(n, token)) = s /\ Step(<<>>, t, token) = t
    BY <1>1, <1>2, <2>1 DEF Step, Stopped
  <2>. QED
    BY <2>2
<1>3. CASE ~(s.place = "error" \/ s.stop > 1)
  <2> DEFINE further == Further(n, token)
             s1 == Take(s, further)
             t1 == Take(t, token)
             p == Shift(t.place, token.kind)
  <2>1. s.place = t.place /\ ~(t.place = "error" \/ t.stop > 1)
    BY <1>3 DEF Alike
  <2>2. Step(<<>>, s, further) = s1 /\ Step(<<>>, t, token) = t1
    BY <1>1, <1>3, <2>1 DEF Step, Stopped
  <2>3. /\ further.kind = token.kind /\ further.word = token.word /\ further.next = n + token.next
        /\ token.kind \in Kinds /\ token.word \in Text /\ token.next \in Nat
    BY DEF Further, Token, Tok
  <2>4. further \in Tok /\ further.next > 1
    BY <2>3 DEF Further, Token, Tok
  <2>5. s.place \in Places /\ t.place \in Places /\ s.notes \in Seq(Item) /\ t.notes \in Seq(Item)
        /\ s.line \in Text /\ t.line \in Text /\ <<>> \in Text
    BY TextJoins DEF State
  <2>6. Moves(t.place, token.kind, p)
    BY <2>3, <2>5, ShiftIs
  <2> HIDE DEF further
  <2>7. /\ t1.place = IF p = "dated" /\ IsRefused(t.date) THEN "start" ELSE p
        /\ t1.line = IF p \in {"headline", "line"} THEN WithWord(t.place, t.line, token.word)
                     ELSE t.line
        /\ t1.tag = IF p = "tagged" THEN token.word ELSE t.tag
        /\ t1.date = IF p = "date" THEN token.word ELSE t.date
        /\ t1.notes = IF p = "header" THEN Append(t.notes, Note(t.line, TagOf(t), NULL))
                      ELSE IF p = "text"
                      THEN LastWith(t.notes, IF t.place = "line" THEN t.line ELSE <<>>)
                      ELSE t.notes
        /\ t1.stop = IF p = "dated" /\ IsRefused(t.date) THEN token.next ELSE t.stop
    BY TakeIs
  <2>8. Shift(s.place, further.kind) = p
    BY <2>1, <2>3
  <2>9. /\ s1.place = IF p = "dated" /\ IsRefused(s.date) THEN "start" ELSE p
        /\ s1.line = IF p \in {"headline", "line"} THEN WithWord(s.place, s.line, token.word)
                     ELSE s.line
        /\ s1.tag = IF p = "tagged" THEN token.word ELSE s.tag
        /\ s1.date = IF p = "date" THEN token.word ELSE s.date
        /\ s1.notes = IF p = "header" THEN Append(s.notes, Note(s.line, TagOf(s), NULL))
                      ELSE IF p = "text"
                      THEN LastWith(s.notes, IF s.place = "line" THEN s.line ELSE <<>>)
                      ELSE s.notes
        /\ s1.stop = IF p = "dated" /\ IsRefused(s.date) THEN further.next ELSE s.stop
    <3> HIDE DEF p
    <3>. QED
      BY <2>3, <2>4, <2>8, TakeIs
  <2> HIDE DEF p, s1, t1
  <2>10. p = "dated" => IsRefused(s.date) = IsRefused(t.date)
    BY <2>1, <2>6 DEF Moves, Alike
  <2>11. s1.place = t1.place
    BY <2>7, <2>9, <2>10
  <2>12. s1.stop > 1 <=> t1.stop > 1
    <3>1. CASE p = "dated" /\ IsRefused(t.date)
      BY <2>4, <2>7, <2>9, <2>10, <3>1
    <3>2. CASE ~(p = "dated" /\ IsRefused(t.date))
      BY <1>3, <2>1, <2>7, <2>9, <2>10, <3>2
    <3>. QED
      BY <3>1, <3>2
  <2>13. p \in {"headline", "line"} => s1.line = t1.line
    <3>1. s.place \in {"headline", "line"} => s.line = t.line
      BY <2>1 DEF Alike
    <3>. QED
      BY <2>1, <2>7, <2>9, <3>1 DEF WithWord
  <2>14. p = "tagged" => s1.line = t1.line /\ s1.tag = t1.tag
    <3>1. p = "tagged" => t.place = "headline"
      BY <2>6 DEF Moves
    <3>. QED
      BY <2>7, <2>9, <3>1 DEF Alike
  <2>15. p = "date" => s1.date = t1.date
    BY <2>7, <2>9
  <2>16. /\ p = "header" => Append(s.notes, Note(s.line, TagOf(s), NULL))
                              = before \o Append(t.notes, Note(t.line, TagOf(t), NULL))
         /\ Append(t.notes, Note(t.line, TagOf(t), NULL)) # <<>>
    <3>1. p = "header" => t.place \in {"headline", "tagged"}
      BY <2>6 DEF Moves
    <3>2. p = "header" => s.line = t.line /\ TagOf(s) = TagOf(t)
      BY <2>1, <3>1 DEF Alike, TagOf
    <3>3. \A x \in Item : /\ Append(before \o t.notes, x) = before \o Append(t.notes, x)
                          /\ Append(t.notes, x) # <<>>
      <4> DEFINE entries == t.notes
      <4>1. entries \in Seq(Item)
        BY <2>5
      <4> HIDE DEF entries
      <4>2. \A x \in Item : /\ Append(before \o entries, x) = before \o Append(entries, x)
                            /\ Append(entries, x) # <<>>
        BY <4>1
      <4>. QED
        BY <4>2 DEF entries
    <3>5. Note(t.line, TagOf(t), NULL) \in Item
      BY DEF Note, TagOf, Item, State
    <3>4. s.notes = before \o t.notes
      BY DEF Alike
    <3>. QED
      BY <3>2, <3>3, <3>4, <3>5
  <2>17. p = "text" =>
           /\ LastWith(s.notes, IF s.place = "line" THEN s.line ELSE <<>>)
                = before \o LastWith(t.notes, IF t.place = "line" THEN t.line ELSE <<>>)
           /\ LastWith(t.notes, IF t.place = "line" THEN t.line ELSE <<>>) # <<>>
    <3> SUFFICES ASSUME p = "text"
                 PROVE  /\ LastWith(s.notes, IF s.place = "line" THEN s.line ELSE <<>>)
                             = before \o LastWith(t.notes, IF t.place = "line" THEN t.line ELSE <<>>)
                        /\ LastWith(t.notes, IF t.place = "line" THEN t.line ELSE <<>>) # <<>>
      OBVIOUS
    <3>1. t.place \in {"line", "text"}
      BY <2>6 DEF Moves
    <3>2. t.notes # <<>> /\ s.notes = before \o t.notes /\ (t.place = "line" => s.line = t.line)
      BY <3>1 DEF Alike, InHeadline
    <3> DEFINE line == IF t.place = "line" THEN t.line ELSE <<>>
    <3>3. line \in Text /\ (IF s.place = "line" THEN s.line ELSE <<>>) = line
      BY <2>1, <2>5, <3>2
    <3> HIDE DEF line
    <3>4. LastWith(before \o t.notes, line) = before \o LastWith(t.notes, line)
          /\ LastWith(t.notes, line) # <<>>
      BY <2>5, <3>2, <3>3, LastWithBehind
    <3>. QED
      BY <3>2, <3>3, <3>4 DEF line
  <2>18. s1.notes = before \o t1.notes
    <3>1. s.notes = before \o t.notes
      BY DEF Alike
    <3>2. CASE p = "header"
      BY <2>7, <2>9, <2>16, <3>2
    <3>3. CASE p = "text"
      <4>1. t1.notes = LastWith(t.notes, IF t.place = "line" THEN t.line ELSE <<>>)
        BY <2>7, <3>3
      <4>2. s1.notes = LastWith(s.notes, IF s.place = "line" THEN s.line ELSE <<>>)
        BY <2>9, <3>3
      <4>. QED
        BY <2>17, <3>3, <4>1, <4>2
    <3>4. CASE p \notin {"header", "text"}
      <4>1. t1.notes = t.notes /\ s1.notes = s.notes
        BY <2>7, <2>9, <3>4
      <4>. QED
        BY <3>1, <4>1
    <3>. QED
      BY <3>2, <3>3, <3>4
  <2>19. t1.place \in InHeadline \cup {"error"} \/ t1.notes # <<>>
    <3>1. CASE p \in InHeadline \cup {"error"}
      BY <2>7, <3>1 DEF InHeadline
    <3>2. CASE p = "header"
      BY <2>7, <2>16, <3>2
    <3>3. CASE p = "text"
      <4>1. t1.notes = LastWith(t.notes, IF t.place = "line" THEN t.line ELSE <<>>)
        BY <2>7, <3>3
      <4>. QED
        BY <2>17, <3>3, <4>1
    <3>4. CASE p \notin InHeadline \cup {"error", "header", "text"}
      <4>1. t1.notes = t.notes
        BY <2>7, <3>4
      <4>2. t.place \notin InHeadline \cup {"error"}
        <5>1. p \in {"begun", "scheduled", "date", "dated", "line"}
          BY <2>6, <3>4 DEF Moves, Places, LineStarts, InHeadline
        <5>. QED
          BY <2>6, <5>1 DEF Moves, LineStarts, InHeadline
      <4>. QED
        BY <4>1, <4>2 DEF Alike
    <3>. QED
      BY <3>1, <3>2, <3>3, <3>4
  <2>20. t1.place = p \/ t1.place = "start"
    BY <2>7
  <2>21. Alike(before, s1, t1)
    BY <2>11, <2>12, <2>13, <2>14, <2>15, <2>18, <2>19, <2>20 DEF Alike
  <2>. QED
    BY <2>2, <2>21 DEF further
<1>. QED
  BY <1>2, <1>3

LEMMA JoinsAssociate ==
  ASSUME NEW a \in Text, NEW b \in Text, NEW c \in Text
  PROVE  (a \o b) \o c = a \o (b \o c)
BY DEF Text

LEMMA LineJoined ==
  ASSUME NEW h \in Text, NEW g \in Text, NEW x \in Text
  PROVE  (((<<Star, SP>> \o h) \o g) \o <<NL>>) \o x = <<Star, SP>> \o (((h \o g) \o <<NL>>) \o x)
<1> DEFINE y == <<Star, SP>>
           z == <<NL>>
<1>0. y \in Text /\ z \in Text
  BY TextJoins
<1> HIDE DEF y, z
<1>1. (y \o h) \o g = y \o (h \o g)
  BY <1>0, JoinsAssociate, SMTT(30)
<1> DEFINE u == h \o g
           v == u \o z
<1>2. u \in Text
  BY TextJoins
<1> HIDE DEF u
<1>3. (y \o u) \o z = y \o (u \o z)
  BY <1>0, <1>2, JoinsAssociate, SMTT(30)
<1>4. v \in Text
  BY <1>0, <1>2, TextJoins
<1> HIDE DEF v
<1>5. (y \o v) \o x = y \o (v \o x)
  BY <1>0, <1>4, JoinsAssociate, SMTT(30)
<1>. QED
  BY <1>1, <1>3, <1>5 DEF u, v, y, z

LEMMA WrittenBegins ==
  ASSUME NEW item \in Item
  PROVE  /\ Written(item) \in Text /\ Len(Written(item)) >= 2
         /\ Written(item)[1] = Star /\ Written(item)[2] = SP
         /\ Written(item) # <<>>
<1> DEFINE text == item.text
           rest == item.header \o TagText(item.category) \o <<NL>>
                     \o (IF text = NULL THEN <<>> ELSE text \o <<NL>>)
<1>1. item.header \in Text /\ item.text \in Text \cup {NULL} /\ item.category \in Text \cup {NULL}
  BY DEF Item
<1>2. TagText(item.category) \in Text /\ text \in Text \cup {NULL}
  BY <1>1, TextJoins DEF TagText
<1>3. rest \in Text
  <2> HIDE DEF text
  <2>1. (IF text = NULL THEN <<>> ELSE text \o <<NL>>) \in Text
    BY <1>2, TextJoins
  <2>. QED
    BY <1>1, <1>2, <2>1, TextJoins
<1>4. Written(item) = <<Star, SP>> \o rest
  <2> DEFINE h == item.header
             g == TagText(item.category)
             x == IF text = NULL THEN <<>> ELSE text \o <<NL>>
  <2>1. h \in Text /\ g \in Text /\ x \in Text /\ <<NL>> \in Text /\ <<Star, SP>> \in Text
    BY <1>1, <1>2, TextJoins
  <2>2. Written(item) = <<Star, SP>> \o h \o g \o <<NL>> \o x
    BY DEF Written
  <2> HIDE DEF h, g, x, text
  <2>4. (((<<Star, SP>> \o h) \o g) \o <<NL>>) \o x = <<Star, SP>> \o (((h \o g) \o <<NL>>) \o x)
    <3>1. h \in Text /\ g \in Text /\ x \in Text
      BY <2>1
    <3>. QED
      BY <3>1, LineJoined
  <2>5. rest = ((h \o g) \o <<NL>>) \o x
    BY DEF h, g, x
  <2>. QED
    BY <2>2, <2>4, <2>5, Zenon
<1> HIDE DEF rest
<1>5. /\ Len(<<Star, SP>> \o rest) = 2 + Len(rest)
      /\ (<<Star, SP>> \o rest)[1] = Star /\ (<<Star, SP>> \o rest)[2] = SP
      /\ Len(rest) \in Nat
  BY <1>3 DEF Text
<1>6. Written(item) \in Text
  BY WrittenTyped
<1>7. Len(<<>>) = 0
  OBVIOUS
<1>. QED
  BY <1>4, <1>5, <1>6, <1>7

LEMMA StarBegins ==
  ASSUME NEW text \in Text, Len(text) >= 2, text[1] = Star, text[2] = SP
  PROVE  /\ 1 \in 1..Len(text) /\ ~IsSkipped(text, 1)
         /\ TokenOf(text, 1) \in Tok /\ TokenOf(text, 1).kind = "STAR"
         /\ TokenOf(text, 1).next = NextAt(text, 1)
         /\ NextAt(text, 1) = 3
<1>1. Len(text) \in Nat /\ 1 \in 1..Len(text)
  BY TextJoins
<1>2. 1 \in Headings(text)
  BY <1>1 DEF Headings
<1>3. ~IsSkipped(text, 1) /\ TokenOf(text, 1).kind = "STAR"
  BY <1>1, <1>2, StarIs
<1>4. TokenOf(text, 1) \in Tok /\ TokenOf(text, 1).next = NextAt(text, 1)
  BY <1>1, <1>3, NextIs
<1>5. NextAt(text, 1) = 3
  <2> DEFINE next == Past(text, 1, Glyphs)
             run == SubSeq(text, 1, next - 1)
  <2>1. Star \in Glyphs /\ SP \notin Glyphs /\ Star # NL
    <3>1. Star \in Glyphs /\ SP \in Blanks /\ Star # NL
      BY DEF Glyphs, Blanks, Star, NL
    <3>. QED
      BY <3>1, SymbolsDiffer
  <2>2. next = 2
    <3>1. \A j \in 1..(2 - 1) : text[j] \in Glyphs
      BY <2>1
    <3>. QED
      BY <1>1, <2>1, <3>1, PastOnly
  <2>3. /\ run = <<Star>> /\ SpaceAt(text, next) /\ AtBol(text, 1)
    <3>1. run = SubSeq(text, 1, 1)
      <4>1. next - 1 = 1
        BY <2>2
      <4> HIDE DEF next
      <4>. QED
        BY <4>1
    <3>2. SubSeq(text, 1, 1) = <<text[1]>>
      <4>1. /\ SubSeq(text, 1, 1) \in Text /\ Len(SubSeq(text, 1, 1)) = 1
            /\ SubSeq(text, 1, 1)[1] = text[1]
        BY <1>1 DEF Text
      <4> DEFINE first == SubSeq(text, 1, 1)
      <4>2. first \in Text /\ Len(first) = 1 /\ first[1] = text[1]
        BY <4>1
      <4> HIDE DEF first
      <4>3. first = <<text[1]>>
        BY <4>2 DEF Text
      <4>. QED
        BY <4>3 DEF first
    <3>3. run = <<Star>>
      BY <3>1, <3>2
    <3>4. SpaceAt(text, next) /\ AtBol(text, 1)
      BY <1>1, <2>2 DEF SpaceAt, AtBol
    <3>. QED
      BY <3>3, <3>4
  <2>4. Single(run, {Star}, SpaceAt(text, next)) /\ AtBol(text, 1)
    <3> HIDE DEF run, next
    <3>. QED
      BY <2>3 DEF Single
  <2>5. TokenAt(text, 1) = Token("STAR", run, next + 1)
    <3>1. TokenAt(text, 1) = TokenFrom(run, next, 1, AtBol(text, 1), SpaceAt(text, next))
      BY TokenAtFrom, Zenon
    <3>2. AtBol(text, 1) \in BOOLEAN /\ SpaceAt(text, next) \in BOOLEAN
      BY DEF AtBol, SpaceAt
    <3> HIDE DEF run, next
    <3>. QED
      BY <2>4, <3>1, <3>2, TokenFromIs
  <2>6. TokenOf(text, 1) = TokenAt(text, 1)
    BY <2>1 DEF TokenOf
  <2> HIDE DEF run, next
  <2>. QED
    BY <1>4, <2>2, <2>5, <2>6 DEF Token
<1>. QED
  BY <1>1, <1>3, <1>4, <1>5

\* A star begins an entry wherever one may end.
LEMMA StarTaken ==
  ASSUME NEW carry, NEW s \in State, s.place \in LineStarts \cup {"start", "begun"},
         ~Stopped(carry, s), NEW token \in Tok, token.kind = "STAR",
         NEW t, t = Step(carry, s, token)
  PROVE  /\ t \in State /\ t.place = "star"
         /\ t.stop = s.stop /\ t.notes = s.notes
<1>1. t = Take(s, token)
  <2>1. s.place # "error"
    BY DEF LineStarts
  <2>. QED
    BY <2>1 DEF Step, Stopped
<1>2. s.place \in Places /\ token.kind \in Kinds
  BY DEF State, Tok
<1>3. Moves(s.place, token.kind, Shift(s.place, token.kind))
  BY <1>2, ShiftIs
<1>4. Shift(s.place, token.kind) = "star"
  BY <1>3 DEF Moves
<1>5. /\ t.place = "star" /\ t.stop = s.stop /\ t.notes = s.notes
  BY <1>1, <1>4, TakeIs
<1>. QED
  BY <1>1, <1>5, TakeTyped

LEMMA ParsedAlone ==
  ASSUME NEW text \in Text
  PROVE  /\ Parsed(<<>>, text) = Over(<<>>, Fresh, Scan(text)[1])
         /\ Fresh \in State /\ Parsed(<<>>, text) \in State
<1>1. <<>> \in Text /\ <<>> \o text = text
  BY TextJoins DEF Text
<1>. QED
  BY <1>1, ParsedIs, ParsedTyped

LEMMA ItemBehind ==
  ASSUME NEW text \in Text, AtLineStart(text), NEW item \in Item,
         Parsed(<<>>, text).place \in LineStarts, Parsed(<<>>, text).stop <= 1
  PROVE  Alike(Parsed(<<>>, text).notes,
               Parsed(<<>>, text \o Written(item)), Parsed(<<>>, Written(item)))
<1> DEFINE W == Written(item)
           n == Len(text)
           all == text \o W
           s1 == Parsed(<<>>, text)
           before == s1.notes
           end == Over(<<>>, Fresh, Scan(all)[1])
           I == {m \in State \X (1..(Len(W) + 1)) :
                   \E s \in State : /\ Alike(before, s, m[1])
                                    /\ Over(<<>>, s, Scan(all)[n + m[2]]) = end}
<1>1. /\ W \in Text /\ Len(W) >= 2 /\ W[1] = Star /\ W[2] = SP /\ W # <<>> /\ W[1] # NL
  <2>1. Star # NL
    BY DEF Star, NL
  <2>. QED
    BY <2>1, WrittenBegins
<1>2. /\ all \in Text /\ n \in Nat /\ Len(W) \in Nat /\ Len(all) = n + Len(W)
  BY <1>1, JoinIs
<1> HIDE DEF W
<1>3. s1 \in State /\ before \in Seq(Item)
  BY ParsedAlone DEF State
<1>4. Parsed(<<>>, all) = end /\ Fresh \in State
  BY <1>2, ParsedAlone
<1>5. Over(<<>>, s1, Scan(all)[n + 1]) = end
  <2>1. s1 = Over(<<>>, Fresh, Scan(text)[1]) /\ 1 \in 1..(Len(text) + 1)
    BY <1>2, ParsedAlone
  <2>2. AtLineStart(text) /\ W[1] # NL /\ W \in Text
    BY <1>1
  <2>. QED
    BY <2>1, <2>2, OverBefore
<1> HIDE DEF s1, end
<1>6. ASSUME NEW s \in State, NEW i \in 1..Len(W)
      PROVE  Over(<<>>, s, Scan(all)[n + i])
               = Over(<<>>, Move(<<>>, all, n + i, s), Scan(all)[n + NextAt(W, i)])
  <2>1. n + i \in 1..Len(all)
    BY <1>2
  <2>2. NextAt(all, n + i) = n + NextAt(W, i)
    BY <1>1, ReadBehind
  <2> HIDE DEF all, n
  <2>. QED
    BY <1>2, <2>1, <2>2, MoveIs
<1>7. /\ 1 \in 1..Len(W) /\ ~IsSkipped(W, 1)
      /\ TokenOf(W, 1) \in Tok /\ TokenOf(W, 1).kind = "STAR"
      /\ NextAt(W, 1) \in 1..(Len(W) + 1)
  <2>1. NextAt(W, 1) = 3
    BY <1>1, StarBegins
  <2>. QED
    BY <1>1, <1>2, <2>1, StarBegins
<1> DEFINE t2 == Move(<<>>, W, 1, Fresh)
           s2 == Move(<<>>, all, n + 1, s1)
<1>8. /\ t2 \in State /\ t2.place = "star" /\ t2.stop = 0 /\ t2.notes = <<>>
  <2>1. t2 = Step(<<>>, Fresh, TokenOf(W, 1))
    BY <1>7 DEF Move
  <2>2. Fresh.place = "start" /\ Fresh.stop = 0 /\ Fresh.notes = <<>>
    BY DEF Fresh
  <2>3. ~Stopped(<<>>, Fresh)
    BY <2>2 DEF Stopped
  <2> HIDE DEF t2
  <2>. QED
    BY <1>4, <1>7, <2>1, <2>2, <2>3, StarTaken
<1>9. /\ s2 \in State /\ s2.place = "star" /\ s2.stop = s1.stop /\ s2.notes = before
  <2>1. IsSkipped(all, n + 1) = IsSkipped(W, 1) /\ TokenOf(all, n + 1) = Further(n, TokenOf(W, 1))
    BY <1>1, <1>7, ReadBehind
  <2>2. s2 = Step(<<>>, s1, Further(n, TokenOf(W, 1)))
    BY <1>7, <2>1 DEF Move
  <2>3. Further(n, TokenOf(W, 1)) \in Tok /\ Further(n, TokenOf(W, 1)).kind = "STAR"
    BY <1>2, <1>7 DEF Further, Token, Tok
  <2>4. s1.place \in LineStarts /\ ~Stopped(<<>>, s1)
    <3>1. s1.stop <= 1 /\ s1.stop \in Nat /\ Len(<<>>) = 0
      BY <1>3 DEF s1, State
    <3>. QED
      BY <3>1 DEF s1, Stopped
  <2> HIDE DEF s2, n
  <2>. QED
    BY <1>3, <2>2, <2>3, <2>4, StarTaken
<1>10. Alike(before, s2, t2)
  <2>1. s1.stop <= 1 /\ s1.stop \in Nat
    BY <1>3 DEF s1, State
  <2>2. before = before \o <<>>
    <3> HIDE DEF before
    <3>. QED
      BY <1>3
  <2> HIDE DEF s2, t2, before
  <2>. QED
    BY <1>8, <1>9, <2>1, <2>2 DEF Alike, InHeadline
<1>11. <<t2, NextAt(W, 1)>> \in I
  <2>1. Over(<<>>, s2, Scan(all)[n + NextAt(W, 1)]) = end
    BY <1>3, <1>5, <1>6, <1>7
  <2> HIDE DEF s2, t2, all, n
  <2>. QED
    BY <1>7, <1>8, <1>9, <1>10, <2>1
<1>12. ASSUME NEW t \in State, NEW i \in 1..Len(W), <<t, i>> \in I
       PROVE  <<Move(<<>>, W, i, t), NextAt(W, i)>> \in I
  <2>1. PICK s \in State : Alike(before, s, t) /\ Over(<<>>, s, Scan(all)[n + i]) = end
    BY <1>12
  <2>2. Move(<<>>, W, i, t) \in State /\ NextAt(W, i) \in 1..(Len(W) + 1)
    BY <1>1, MoveTyped
  <2>3. n + i \in 1..Len(all)
    BY <1>2
  <2>4. Move(<<>>, all, n + i, s) \in State
    BY <1>2, <2>3, MoveTyped
  <2>5. Over(<<>>, Move(<<>>, all, n + i, s), Scan(all)[n + NextAt(W, i)]) = end
    BY <1>6, <2>1
  <2>6. /\ IsSkipped(all, n + i) = IsSkipped(W, i)
        /\ ~IsSkipped(W, i) => TokenOf(all, n + i) = Further(n, TokenOf(W, i))
    BY <1>1, ReadBehind
  <2>7. Alike(before, Move(<<>>, all, n + i, s), Move(<<>>, W, i, t))
    <3>1. CASE IsSkipped(W, i)
      BY <2>1, <2>6, <3>1 DEF Move
    <3>2. CASE ~IsSkipped(W, i)
      <4>1. TokenOf(W, i) \in Tok /\ TokenOf(W, i).next > 1
        <5>1. NextAt(W, i) \in (i + 1)..(Len(W) + 1) /\ TokenOf(W, i) \in Tok
              /\ NextAt(W, i) = TokenOf(W, i).next
          BY <1>1, <3>2, NextIs
        <5>. QED
          BY <1>2, <5>1
      <4>2. Alike(before, Step(<<>>, s, Further(n, TokenOf(W, i))), Step(<<>>, t, TokenOf(W, i)))
        BY <1>2, <1>3, <2>1, <4>1, TakeAlike
      <4>. QED
        BY <2>6, <3>2, <4>2 DEF Move
    <3>. QED
      BY <3>1, <3>2
  <2> HIDE DEF all, n, before
  <2>. QED
    BY <2>2, <2>4, <2>5, <2>7
<1>13. I \in SUBSET (State \X (1..(Len(W) + 1)))
  OBVIOUS
<1> DEFINE tW == Over(<<>>, t2, Scan(W)[NextAt(W, 1)])
<1>14. <<tW, Len(W) + 1>> \in I
  <2> HIDE DEF I, t2
  <2>. QED
    BY <1>1, <1>7, <1>8, <1>11, <1>12, <1>13, Walk
<1>15. Parsed(<<>>, W) = tW
  <2>1. Parsed(<<>>, W) = Over(<<>>, Fresh, Scan(W)[1])
    BY <1>1, ParsedAlone
  <2>. QED
    BY <1>1, <1>7, <2>1, MoveIs
<1>16. PICK s \in State : Alike(before, s, tW) /\ Over(<<>>, s, Scan(all)[n + (Len(W) + 1)]) = end
  <2> HIDE DEF tW
  <2>. QED
    BY <1>14
<1>17. s = end
  <2>1. n + (Len(W) + 1) = Len(all) + 1
    BY <1>2
  <2>2. Scan(all)[Len(all) + 1] = <<>>
    BY <1>2, ScanIs
  <2>3. Over(<<>>, s, <<>>) = s
    BY OverEmpty
  <2>. QED
    BY <1>16, <2>1, <2>2, <2>3
<1>. QED
  BY <1>4, <1>15, <1>16, <1>17 DEF W, s1

LEMMA NotesJoin ==
  ASSUME NEW a \in Seq(Item), NEW b \in Seq(Item)
  PROVE  NotesOf(a \o b) = NotesOf(a) \o NotesOf(b)
<1> DEFINE One(e) == Note(ToCp1251(e.header), e.category, ToCp1251(e.text))
           Of(e) == [i \in 1..Len(e) |-> One(e[i])]
           n == Len(a)
           k == Len(b)
<1>1. /\ n \in Nat /\ k \in Nat /\ a \o b \in Seq(Item) /\ Len(a \o b) = n + k
      /\ \A i \in 1..(n + k) : (a \o b)[i] = IF i <= n THEN a[i] ELSE b[i - n]
  <2>1. ASSUME NEW i \in 1..(n + k), ~(i <= n)
        PROVE  (a \o b)[i] = b[i - n]
    BY <2>1
  <2>2. ASSUME NEW i \in 1..(n + k), i <= n
        PROVE  (a \o b)[i] = a[i]
    BY <2>2
  <2>. QED
    BY <2>1, <2>2
<1>2. NotesOf(a) = Of(a) /\ NotesOf(b) = Of(b) /\ NotesOf(a \o b) = Of(a \o b)
  BY <1>1 DEF NotesOf
<1>3. Of(a) \in Seq(Entry) /\ Of(b) \in Seq(Entry) /\ Len(Of(a)) = n /\ Len(Of(b)) = k
  <2>1. \A e \in Item : One(e) \in Entry
    BY DEF Note, ToCp1251, Entry, Item
  <2> HIDE DEF One
  <2>. QED
    BY <2>1
<1> DEFINE joined == Of(a) \o Of(b)
<1>4. /\ joined \in Seq(Entry) /\ Len(joined) = n + k
      /\ \A i \in 1..(n + k) : joined[i] = IF i <= n THEN Of(a)[i] ELSE Of(b)[i - n]
  <2> DEFINE x == Of(a)
             y == Of(b)
  <2> HIDE DEF x, y
  <2>1. x \in Seq(Entry) /\ y \in Seq(Entry) /\ Len(x) = n /\ Len(y) = k
    BY <1>3 DEF x, y
  <2>2. x \o y \in Seq(Entry) /\ Len(x \o y) = Len(x) + Len(y)
    <3> DEFINE E == Entry
    <3>1. x \in Seq(E) /\ y \in Seq(E)
      BY <2>1
    <3> HIDE DEF E
    <3>2. x \o y \in Seq(E) /\ Len(x \o y) = Len(x) + Len(y)
      BY <3>1
    <3>. QED
      BY <3>2 DEF E
  <2>3. ASSUME NEW i \in 1..(n + k), ~(i <= n)
        PROVE  (x \o y)[i] = y[i - n]
    BY <1>1, <2>1, <2>3
  <2>4. ASSUME NEW i \in 1..(n + k), i <= n
        PROVE  (x \o y)[i] = x[i]
    BY <1>1, <2>1, <2>4
  <2>. QED
    BY <2>1, <2>2, <2>3, <2>4 DEF x, y
<1>5. ASSUME NEW i \in 1..(n + k)
      PROVE  One((a \o b)[i]) = joined[i]
  <2>1. CASE i <= n
    <3>1. Of(a)[i] = One(a[i])
      BY <1>1, <2>1
    <3> HIDE DEF One, Of
    <3>. QED
      BY <1>1, <1>4, <2>1, <3>1
  <2>2. CASE ~(i <= n)
    <3>1. i - n \in 1..k
      BY <1>1, <2>2
    <3>2. Of(b)[i - n] = One(b[i - n])
      BY <3>1
    <3> HIDE DEF One, Of
    <3>. QED
      BY <1>1, <1>4, <2>2, <3>2
  <2>. QED
    BY <2>1, <2>2
<1>6. Of(a \o b) = joined
  <2>1. joined = [i \in 1..(n + k) |-> joined[i]]
    <3> HIDE DEF joined, n, k
    <3>. QED
      BY <1>4
  <2>2. Of(a \o b) = [i \in 1..(n + k) |-> One((a \o b)[i])]
    BY <1>1
  <2> HIDE DEF joined, One, Of, n, k
  <2>. QED
    BY <1>5, <2>1, <2>2
<1>. QED
  BY <1>2, <1>6

LEMMA NotesNotNull ==
  ASSUME NEW a \in Seq(Item)
  PROVE  NotesOf(a) # NULL
<1> DEFINE One(e) == Note(ToCp1251(e.header), e.category, ToCp1251(e.text))
<1>1. \A e \in Item : One(e) \in Entry
  BY DEF Note, ToCp1251, Entry, Item
<1>2. NotesOf(a) = [i \in 1..Len(a) |-> One(a[i])]
  BY DEF NotesOf
<1> HIDE DEF One
<1>3. NotesOf(a) \in Seq(Entry)
  BY <1>1, <1>2
<1>. QED
  BY <1>3, NullIsNothing

\* What is appended behind a sound file is read as it would be alone, and what was in the
\* file as before: the org-file is the sequence of notes that the synchronization takes it for.
THEOREM AppendsAreExact == Spec => AppendAddsItsOwnNotes
<1>1. TypeOK /\ [Next]_vars =>
        [\A item \in Items : \A form \in Forms(item) :
           LET before == Reading(file)
               own == Reading(Written(form))
           IN  WriteAs(item, form) /\ AtLineStart(file) /\ Sound /\ before # NULL =>
                 Reading(file') = IF own = NULL THEN NULL ELSE before \o own]_vars
  <2> SUFFICES ASSUME TypeOK, NEW item \in Items, NEW form \in Forms(item),
                      WriteAs(item, form), AtLineStart(file), Sound, Reading(file) # NULL
               PROVE  Reading(file') = IF Reading(Written(form)) = NULL THEN NULL
                                       ELSE Reading(file) \o Reading(Written(form))
    BY DEF vars
  <2> DEFINE s1 == Parsed(<<>>, file)
             t == Parsed(<<>>, Written(form))
             s == Parsed(<<>>, file \o Written(form))
  <2>1. file \in Text /\ form \in Item /\ file' = file \o Written(form)
    BY FilesAndItems, FormsAreItems DEF TypeOK, WriteAs
  <2>2. Written(form) \in Text /\ file \o Written(form) \in Text /\ <<>> \in Text
    BY <2>1, WrittenBegins, TextJoins
  <2>3. s1 \in State /\ t \in State /\ s \in State
    BY <2>1, <2>2, ParsedAlone
  <2>4. s1.stop <= 1
    <3>1. AtLineStart(<<>>) /\ Len(<<>>) = 0
      BY DEF AtLineStart
    <3>2. s1.stop <= 0 + 1
      BY <2>1, <2>2, <3>1, NeverStops DEF Sound
    <3>. QED
      BY <2>3, <3>2 DEF State
  <2>5. /\ Reading(file) = IF Accepted(<<>>, s1) THEN NotesOf(s1.notes) ELSE NULL
        /\ Reading(Written(form)) = IF Accepted(<<>>, t) THEN NotesOf(t.notes) ELSE NULL
        /\ Reading(file') = IF Accepted(<<>>, s) THEN NotesOf(s.notes) ELSE NULL
    BY <2>1 DEF Reading
  <2>6. s1.place \in LineStarts
    <3>1. Accepted(<<>>, s1)
      BY <2>5
    <3>2. ~Stopped(<<>>, s1)
      <4>1. s1.stop \in Nat /\ Len(<<>>) = 0
        BY <2>3 DEF State
      <4> HIDE DEF s1
      <4>. QED
        BY <2>4, <4>1 DEF Stopped
    <3>. QED
      BY <3>1, <3>2 DEF Accepted
  <2>7. Alike(s1.notes, s, t)
    BY <2>1, <2>4, <2>6, ItemBehind
  <2> HIDE DEF s1, t, s
  <2>8. Accepted(<<>>, s) = Accepted(<<>>, t)
    <3>1. (s.stop > Len(<<>>) + 1) = (t.stop > Len(<<>>) + 1)
      <4>1. Len(<<>>) + 1 = 1
        OBVIOUS
      <4>. QED
        BY <2>7, <4>1 DEF Alike
    <3>. QED
      BY <2>7, <3>1 DEF Accepted, Stopped, Alike
  <2>9. s.notes = s1.notes \o t.notes /\ s1.notes \in Seq(Item) /\ t.notes \in Seq(Item)
    BY <2>3, <2>7 DEF Alike, State
  <2>10. NotesOf(s.notes) = NotesOf(s1.notes) \o NotesOf(t.notes) /\ NotesOf(t.notes) # NULL
    BY <2>9, NotesJoin, NotesNotNull
  <2>. QED
    BY <2>5, <2>8, <2>10
<1>. QED
  BY <1>1, TypeCorrect, PTL DEF Spec, AppendAddsItsOwnNotes

-----------------------------------------------------------------------------
(* Reading a plain item, wherever it stands in a text *)

\* Upwards to a bound in steps of any length
LEMMA Climbs ==
  ASSUME NEW to \in Nat, NEW J \in SUBSET (0..to), J # {},
         \A c \in J : c # to => \E d \in J : d > c
  PROVE  to \in J
<1> DEFINE D == {to - c : c \in J}
<1>1. D \in SUBSET Nat /\ D # {}
  <2>1. \A c \in J : to - c \in Nat
    OBVIOUS
  <2>. QED
    BY <2>1
<1>2. PICK m \in D : \A k \in D : m <= k
  <2> HIDE DEF D
  <2>. QED
    BY <1>1, LeastOf
<1>3. PICK c \in J : m = to - c
  BY <1>2
<1>4. ASSUME c # to PROVE FALSE
  <2>1. PICK d \in J : d > c
    BY <1>4
  <2>2. to - d \in D
    OBVIOUS
  <2>3. m <= to - d
    BY <1>2, <2>2
  <2>. QED
    BY <1>3, <2>1, <2>3
<1>. QED
  BY <1>4

\* The parser in one state at a position comes to the same end as in another one further on.
Leads(carry, text, s, i, t, j) ==
  Over(carry, s, Scan(text)[i]) = Over(carry, t, Scan(text)[j])

LEMMA LeadsOn ==
  ASSUME NEW carry, NEW text \in Text, NEW s, NEW i, NEW t, NEW j \in 1..Len(text),
         Leads(carry, text, s, i, t, j)
  PROVE  Leads(carry, text, s, i, Move(carry, text, j, t), NextAt(text, j))
BY MoveIs DEF Leads

\* The symbols of plain words are neither blanks nor constructs.
LEMMA WordsAre ==
  /\ PlainWords \subseteq Glyphs /\ PlainWords \cap Marks = {}
  /\ NL \notin Glyphs /\ SP \notin Glyphs /\ TAB \notin Glyphs
  /\ PlainWords \cap (Blanks \cup RawBytes \cup {NL, SP, TAB}) = {}
  /\ PlainWords \cap Foreign = {}
  /\ Letters \subseteq Glyphs
  /\ Star \in Glyphs /\ Colon \in Glyphs /\ Directive \in Glyphs
  /\ {Star, Colon, Directive} \subseteq Marks
  /\ SP \in Blanks /\ TAB \in Blanks
  /\ Glyphs \cap (Blanks \cup RawBytes \cup {NL}) = {}
<1>1. PlainWords \subseteq Glyphs /\ Letters \subseteq Glyphs
      /\ Star \in Glyphs /\ Colon \in Glyphs /\ Directive \in Glyphs
  BY DEF PlainWords, Glyphs, Letters
<1>2. SP \in Blanks /\ TAB \in Blanks
  BY DEF Blanks
<1>3. {Star, Colon, Directive} \subseteq Marks
  BY DEF Marks
<1>4. PlainWords = Alnum \cup Signs
  BY DEF PlainWords
<1>5. /\ Glyphs \cap (Blanks \cup RawBytes \cup {NL}) = {}
      /\ (Alnum \cup Signs \cup Foreign) \cap Marks = {}
      /\ Foreign \cap (Alnum \cup Signs) = {}
  BY SymbolsDiffer
<1>6. NL \notin Glyphs /\ SP \notin Glyphs /\ TAB \notin Glyphs
  BY <1>2, <1>5
<1>7. PlainWords \cap (Blanks \cup RawBytes \cup {NL, SP, TAB}) = {}
  BY <1>1, <1>2, <1>5
<1>8. PlainWords \cap Marks = {} /\ PlainWords \cap Foreign = {}
  BY <1>4, <1>5
<1>. QED
  BY <1>1, <1>2, <1>3, <1>5, <1>6, <1>7, <1>8

LEMMA WordAt ==
  ASSUME NEW text \in Text, NEW i \in 1..Len(text), NEW j \in (i + 1)..(Len(text) + 1),
         \A k \in i..(j - 1) : text[k] \in PlainWords,
         j <= Len(text) => text[j] \notin Glyphs
  PROVE  /\ ~IsSkipped(text, i) /\ NextAt(text, i) = j
         /\ TokenOf(text, i) \in Tok /\ TokenOf(text, i).kind = "WORD"
         /\ TokenOf(text, i).word = SubSeq(text, i, j - 1)
         /\ SubSeq(text, i, j - 1) \in Text
<1>1. Len(text) \in Nat /\ text[i] \in PlainWords
  BY TextJoins
<1>2. /\ text[i] \in Glyphs /\ text[i] # NL /\ text[i] \notin Blanks \cup RawBytes
      /\ text[i] \notin Marks /\ text[i] # Directive /\ text[i] # Star /\ text[i] # Colon
  BY <1>1, WordsAre
<1>3. ~IsSkipped(text, i)
  BY <1>2 DEF IsSkipped, DirectiveAt
<1>4. Past(text, i, Glyphs) = j
  <2>1. \A k \in i..(j - 1) : text[k] \in Glyphs
    BY WordsAre
  <2>. QED
    BY <1>1, <2>1, PastOnly
<1> DEFINE run == SubSeq(text, i, j - 1)
<1>5. run \in Text /\ Len(run) = j - i /\ run[1] = text[i]
  <2>1. /\ run \in Text /\ Len(run) = j - i
        /\ \A k \in 1..(j - i) : run[k] = text[i + k - 1]
    <3> DEFINE next == Past(text, i, Glyphs)
    <3>1. /\ SubSeq(text, i, next - 1) \in Text
          /\ Len(SubSeq(text, i, next - 1)) = next - i
          /\ \A k \in 1..(next - i) : SubSeq(text, i, next - 1)[k] = text[i + k - 1]
      BY <1>2, TokenAtIs
    <3>2. next = j
      BY <1>4
    <3> HIDE DEF next
    <3>. QED
      BY <3>1, <3>2
  <2>2. 1 \in 1..(j - i)
    BY <1>1
  <2>3. run[1] = text[i + 1 - 1] /\ i + 1 - 1 = i
    BY <2>1, <2>2
  <2>. QED
    BY <2>1, <2>3
<1> HIDE DEF run
<1>6. TokenAt(text, i) = Token("WORD", run, j)
  <2>1. TokenAt(text, i) = TokenFrom(run, j, i, AtBol(text, i), SpaceAt(text, j))
    BY <1>4, TokenAtFrom DEF run
  <2>2. AtBol(text, i) \in BOOLEAN /\ SpaceAt(text, j) \in BOOLEAN
    BY DEF AtBol, SpaceAt
  <2>3. run[1] \notin Marks /\ run[1] # Star /\ run[1] # Colon
    BY <1>2, <1>5
  <2>4. /\ ~Single(run, {Star}, SpaceAt(text, j))
        /\ ~Single(run, Keywords \cup Priorities \cup Schedulers, SpaceAt(text, j))
        /\ ~IsTag(run)
        /\ run[1] \notin Dates \cup BadDates
    BY <2>3 DEF Single, IsTag, Marks
  <2>. QED
    BY <2>1, <2>2, <2>4, TokenFromIs
<1>7. TokenOf(text, i) = TokenAt(text, i)
  BY <1>2 DEF TokenOf
<1>8. TokenOf(text, i) \in Tok /\ NextAt(text, i) = TokenOf(text, i).next
  BY <1>3, NextIs
<1>. QED
  BY <1>3, <1>5, <1>6, <1>7, <1>8 DEF Token, run

LEMMA BlankAt ==
  ASSUME NEW text \in Text, NEW i \in 1..Len(text), text[i] \in {SP, TAB}
  PROVE  IsSkipped(text, i) /\ NextAt(text, i) = i + 1
<1>1. text[i] \in Blanks /\ text[i] # Directive
  BY WordsAre
<1>. QED
  BY <1>1 DEF IsSkipped, NextAt, DirectiveAt

LEMMA LineEndAt ==
  ASSUME NEW text \in Text, NEW i \in 1..Len(text), text[i] = NL,
         \/ ~AtBol(text, i)
         \/ i < Len(text) => text[i + 1] # NL
  PROVE  /\ ~IsSkipped(text, i) /\ NextAt(text, i) = i + 1
         /\ TokenOf(text, i) \in Tok /\ TokenOf(text, i).kind = "NEWLINE"
<1>1. Len(text) \in Nat
  BY TextJoins
<1>2. ~IsSkipped(text, i)
  <2>1. NL \notin Blanks \cup RawBytes /\ NL # Directive
    BY SymbolsDiffer DEF Blanks, SP, TAB, NL, Directive
  <2>. QED
    BY <2>1 DEF IsSkipped, DirectiveAt
<1>3. TokenOf(text, i) = NewlineAt(text, i)
  BY DEF TokenOf
<1>4. NextAt(text, i) = NewlineAt(text, i).next
  BY <1>2, <1>3, NextIs
<1>5. /\ NewlineAt(text, i) \in Tok
      /\ NewlineAt(text, i).kind = "NEWLINE"
      /\ NewlineAt(text, i).next \in (i + 1)..(Len(text) + 1)
      /\ \A j \in i..(NewlineAt(text, i).next - 1) : text[j] = NL
      /\ ~AtBol(text, i) => NewlineAt(text, i).next = i + 1
  BY NewlineIs
<1> DEFINE next == NewlineAt(text, i).next
<1>6. next = i + 1
  <2> HIDE DEF next
  <2>1. next \in (i + 1)..(Len(text) + 1) /\ \A j \in i..(next - 1) : text[j] = NL
    BY <1>5 DEF next
  <2>2. CASE i < Len(text) => text[i + 1] # NL
    <3>1. next > i + 1 => i + 1 \in i..(next - 1) /\ i < Len(text)
      BY <1>1, <2>1
    <3>. QED
      BY <2>1, <2>2, <3>1
  <2>3. CASE ~AtBol(text, i)
    BY <1>5, <2>3 DEF next
  <2>. QED
    BY <2>2, <2>3
<1>. QED
  BY <1>2, <1>3, <1>4, <1>5, <1>6

LEMMA TagAt ==
  ASSUME NEW text \in Text, NEW i \in 1..Len(text), NEW j \in (i + 2)..Len(text),
         text[i] = Colon, text[j] = Colon,
         \A k \in (i + 1)..(j - 1) : text[k] \in Letters,
         j < Len(text) => text[j + 1] \notin Glyphs
  PROVE  /\ ~IsSkipped(text, i) /\ NextAt(text, i) = j + 1
         /\ TokenOf(text, i) \in Tok /\ TokenOf(text, i).kind = "TAG"
         /\ TokenOf(text, i).word = SubSeq(text, i + 1, j - 1)
<1>1. Len(text) \in Nat
  BY TextJoins
<1>2. /\ text[i] \in Glyphs /\ text[i] # NL /\ text[i] \notin Blanks \cup RawBytes
      /\ text[i] # Directive
  <2>1. Colon # Directive /\ Colon # NL
    BY DEF Colon, Directive, NL
  <2>. QED
    BY <2>1, WordsAre
<1>3. ~IsSkipped(text, i)
  BY <1>2 DEF IsSkipped, DirectiveAt
<1>4. Past(text, i, Glyphs) = j + 1
  <2>1. \A k \in i..(j + 1 - 1) : text[k] \in Glyphs
    <3> TAKE k \in i..(j + 1 - 1)
    <3>1. k = i \/ k = j \/ k \in (i + 1)..(j - 1)
      BY <1>1
    <3>. QED
      BY <3>1, WordsAre
  <2>2. j + 1 \in i..(Len(text) + 1) /\ (j + 1 <= Len(text) => j < Len(text))
    BY <1>1
  <2>. QED
    BY <1>1, <2>1, <2>2, PastOnly
<1> DEFINE run == SubSeq(text, i, j)
<1>5. /\ run \in Text /\ Len(run) = j + 1 - i
      /\ \A k \in 1..(j + 1 - i) : run[k] = text[i + k - 1]
  <2> DEFINE next == Past(text, i, Glyphs)
  <2>1. /\ SubSeq(text, i, next - 1) \in Text
        /\ Len(SubSeq(text, i, next - 1)) = next - i
        /\ \A k \in 1..(next - i) : SubSeq(text, i, next - 1)[k] = text[i + k - 1]
    BY <1>2, TokenAtIs, SMTT(30)
  <2>2. next = j + 1 /\ next - 1 = j
    BY <1>1, <1>4
  <2> HIDE DEF next
  <2>. QED
    BY <2>1, <2>2, SMTT(30)
<1>6. IsTag(run)
  <2> HIDE DEF run
  <2>1. Len(run) > 2 /\ Last(run) = run[Len(run)]
    BY <1>1, <1>5 DEF Last
  <2>2. run[1] = Colon /\ run[Len(run)] = Colon
    <3>1. 1 \in 1..(j + 1 - i) /\ i + 1 - 1 = i /\ i + (j + 1 - i) - 1 = j
          /\ j + 1 - i \in 1..(j + 1 - i)
      BY <1>1
    <3>2. run[1] = text[i + 1 - 1] /\ run[j + 1 - i] = text[i + (j + 1 - i) - 1]
      BY <1>5, <3>1
    <3>. QED
      BY <1>5, <3>1, <3>2
  <2>3. \A k \in 2..(Len(run) - 1) : run[k] \in Letters
    <3> TAKE k \in 2..(Len(run) - 1)
    <3>1. k \in 1..(j + 1 - i) /\ i + k - 1 \in (i + 1)..(j - 1)
      BY <1>1, <1>5
    <3>. QED
      BY <1>5, <3>1
  <2>. QED
    BY <2>1, <2>2, <2>3 DEF IsTag
<1>7. SubSeq(run, 2, Len(run) - 1) = SubSeq(text, i + 1, j - 1)
  <2> DEFINE inner == SubSeq(run, 2, Len(run) - 1)
             word == SubSeq(text, i + 1, j - 1)
             n == j - 1 - i
  <2>1. /\ inner \in Text /\ Len(inner) = n
        /\ \A k \in 1..n : inner[k] = run[k + 1]
    <3> HIDE DEF run
    <3>. QED
      BY <1>1, <1>5 DEF Text
  <2>2. /\ word \in Text /\ Len(word) = n
        /\ \A k \in 1..n : word[k] = text[i + k]
    BY <1>1 DEF Text
  <2>3. \A k \in 1..n : run[k + 1] = text[i + k]
    <3> TAKE k \in 1..n
    <3>1. k + 1 \in 1..(j + 1 - i) /\ i + (k + 1) - 1 = i + k
      BY <1>1
    <3> HIDE DEF run
    <3>. QED
      BY <1>5, <3>1
  <2> HIDE DEF inner, word, run
  <2>4. inner = word
    <3>1. \A k \in 1..n : inner[k] = word[k]
      BY <2>1, <2>2, <2>3
    <3> HIDE DEF n
    <3>. QED
      BY <2>1, <2>2, <3>1 DEF Text
  <2>. QED
    BY <2>4 DEF inner, word
<1> HIDE DEF run
<1>8. TokenAt(text, i) = Token("TAG", SubSeq(text, i + 1, j - 1), j + 1)
  <2>1. TokenAt(text, i) = TokenFrom(run, j + 1, i, AtBol(text, i), SpaceAt(text, j + 1))
    <3>1. j + 1 - 1 = j
      BY <1>1
    <3>. QED
      BY <1>4, <3>1, TokenAtFrom DEF run
  <2>2. AtBol(text, i) \in BOOLEAN /\ SpaceAt(text, j + 1) \in BOOLEAN
    BY DEF AtBol, SpaceAt
  <2>3. TokenAt(text, i) = Token("TAG", SubSeq(run, 2, Len(run) - 1), j + 1)
    BY <1>6, <2>1, <2>2, TokenFromIs
  <2>. QED
    BY <1>7, <2>3
<1>9. TokenOf(text, i) = TokenAt(text, i)
  BY <1>2 DEF TokenOf
<1>10. TokenOf(text, i) \in Tok /\ NextAt(text, i) = TokenOf(text, i).next
  BY <1>3, NextIs
<1>. QED
  BY <1>3, <1>8, <1>9, <1>10 DEF Token

LEMMA StarAt ==
  ASSUME NEW text \in Text, NEW i \in 1..Len(text), i + 1 <= Len(text), AtBol(text, i),
         text[i] = Star
  PROVE  text[i + 1] = SP =>
           /\ ~IsSkipped(text, i) /\ NextAt(text, i) = i + 2
           /\ TokenOf(text, i) \in Tok /\ TokenOf(text, i).kind = "STAR"
<1> SUFFICES ASSUME text[i + 1] = SP
             PROVE  /\ ~IsSkipped(text, i) /\ NextAt(text, i) = i + 2
                    /\ TokenOf(text, i) \in Tok /\ TokenOf(text, i).kind = "STAR"
  OBVIOUS
<1>1. Len(text) \in Nat
  BY TextJoins
<1>2. i \in Headings(text)
  BY <1>1 DEF Headings, AtBol
<1>3. ~IsSkipped(text, i) /\ TokenOf(text, i).kind = "STAR"
  BY <1>2, StarIs
<1>4. TokenOf(text, i) \in Tok /\ NextAt(text, i) = TokenOf(text, i).next
  BY <1>3, NextIs
<1>5. NextAt(text, i) = i + 2
  <2>1. text[i] \in Glyphs /\ text[i + 1] \notin Glyphs /\ text[i] # NL
    <3>1. Star # NL
      BY DEF Star, NL
    <3>. QED
      BY <3>1, WordsAre
  <2>2. Past(text, i, Glyphs) = i + 1
    <3>1. \A k \in i..(i + 1 - 1) : text[k] \in Glyphs
      BY <2>1
    <3>. QED
      BY <1>1, <2>1, <3>1, PastOnly
  <2> DEFINE next == Past(text, i, Glyphs)
             run == SubSeq(text, i, next - 1)
  <2>3. next = i + 1
    BY <2>2
  <2>4. Len(run) = 1 /\ run[1] = Star
    <3>1. /\ Len(run) = next - i
          /\ \A k \in 1..(next - i) : run[k] = text[i + k - 1]
      BY <2>1, TokenAtIs
    <3> HIDE DEF next, run
    <3>2. next - i = 1 /\ 1 \in 1..1 /\ i + 1 - 1 = i
      BY <2>3
    <3>. QED
      BY <3>1, <3>2
  <2>5. TokenAt(text, i) = TokenFrom(run, next, i, AtBol(text, i), SpaceAt(text, next))
    BY TokenAtFrom, Zenon
  <2> HIDE DEF next, run
  <2>6. SpaceAt(text, next) /\ AtBol(text, i) /\ next + 1 = i + 2
    BY <1>1, <2>3 DEF SpaceAt
  <2>7. AtBol(text, i) \in BOOLEAN /\ SpaceAt(text, next) \in BOOLEAN
    BY DEF AtBol, SpaceAt
  <2>8. Single(run, {Star}, SpaceAt(text, next))
    BY <2>4, <2>6 DEF Single
  <2>9. TokenAt(text, i) = Token("STAR", run, next + 1)
    BY <2>5, <2>6, <2>7, <2>8, TokenFromIs
  <2>10. TokenOf(text, i) = TokenAt(text, i)
    BY <2>1 DEF TokenOf
  <2>. QED
    BY <1>4, <2>6, <2>9, <2>10 DEF Token
<1>. QED
  BY <1>3, <1>4, <1>5

\* A text up to a position, the symbol there, and what follows
LEMMA PartsJoin ==
  ASSUME NEW line \in Text, NEW c \in 1..Len(line), NEW d \in c..Len(line)
  PROVE  /\ SubSeq(line, 1, c - 1) \in Text /\ SubSeq(line, c + 1, d) \in Text
         /\ SubSeq(line, 1, d) \in Text /\ Len(SubSeq(line, 1, d)) = d
         /\ (SubSeq(line, 1, c - 1) \o <<line[c]>>) \o SubSeq(line, c + 1, d) = SubSeq(line, 1, d)
<1> DEFINE a == SubSeq(line, 1, c - 1)
           b == SubSeq(line, c + 1, d)
           x == <<line[c]>>
           all == SubSeq(line, 1, d)
<1>0. Len(line) \in Nat
  BY TextJoins
<1>1. a \in Text /\ Len(a) = c - 1 /\ \A k \in 1..(c - 1) : a[k] = line[k]
  BY <1>0 DEF Text
<1>2. b \in Text /\ Len(b) = d - c /\ \A k \in 1..(d - c) : b[k] = line[c + k]
  BY <1>0 DEF Text
<1>3. all \in Text /\ Len(all) = d /\ \A k \in 1..d : all[k] = line[k]
  BY <1>0 DEF Text
<1>4. x \in Text /\ Len(x) = 1 /\ x[1] = line[c]
  BY DEF Text
<1> HIDE DEF a, b, x, all
<1>5. /\ a \o x \in Text /\ Len(a \o x) = c
      /\ \A k \in 1..c : (a \o x)[k] = line[k]
  <2>0. /\ a \o x \in Text /\ Len(a \o x) = Len(a) + Len(x)
        /\ \A k \in 1..Len(a) : (a \o x)[k] = a[k]
        /\ \A k \in 1..Len(x) : (a \o x)[Len(a) + k] = x[k]
    BY <1>1, <1>4, JoinIs
  <2>1. a \o x \in Text /\ Len(a \o x) = c
    BY <1>0, <1>1, <1>4, <2>0
  <2>2. ASSUME NEW k \in 1..c
        PROVE  (a \o x)[k] = line[k]
    <3>1. CASE k = c
      <4>1. Len(a) + 1 = k /\ 1 \in 1..Len(x)
        BY <1>0, <1>1, <1>4, <3>1
      <4>2. (a \o x)[Len(a) + 1] = x[1]
        BY <2>0, <4>1
      <4>. QED
        BY <1>4, <3>1, <4>1, <4>2
    <3>2. CASE k # c
      <4>1. k \in 1..(c - 1) /\ k \in 1..Len(a)
        BY <1>0, <1>1, <3>2
      <4>. QED
        BY <1>1, <2>0, <4>1
    <3>. QED
      BY <3>1, <3>2
  <2>. QED
    BY <2>1, <2>2
<1> DEFINE y == a \o x
<1> HIDE DEF y
<1>6. y \in Text /\ Len(y) = c /\ \A k \in 1..c : y[k] = line[k]
  BY <1>5 DEF y
<1>7. /\ y \o b \in Text /\ Len(y \o b) = d
      /\ \A k \in 1..c : (y \o b)[k] = y[k]
      /\ \A k \in 1..(d - c) : (y \o b)[c + k] = b[k]
  <2>0. /\ y \o b \in Text /\ Len(y \o b) = Len(y) + Len(b)
        /\ \A k \in 1..Len(y) : (y \o b)[k] = y[k]
        /\ \A k \in 1..Len(b) : (y \o b)[Len(y) + k] = b[k]
    BY <1>2, <1>6, JoinIs
  <2>1. Len(y) + Len(b) = d
    BY <1>0, <1>2, <1>6
  <2> DEFINE z == y \o b
  <2> HIDE DEF z
  <2>2. /\ z \in Text /\ Len(z) = d
        /\ \A k \in 1..Len(y) : z[k] = y[k]
        /\ \A k \in 1..Len(b) : z[Len(y) + k] = b[k]
    BY <2>0, <2>1 DEF z
  <2>3. /\ z \in Text /\ Len(z) = d
        /\ \A k \in 1..c : z[k] = y[k]
        /\ \A k \in 1..(d - c) : z[c + k] = b[k]
    BY <1>2, <1>6, <2>2
  <2>. QED
    BY <2>3 DEF z
<1> DEFINE z == y \o b
<1> HIDE DEF z
<1>8. z \in Text /\ Len(z) = d
  BY <1>7 DEF z
<1>9. ASSUME NEW k \in 1..d
      PROVE  z[k] = all[k]
  <2>1. CASE k \in 1..c
    BY <1>3, <1>6, <1>7, <2>1 DEF z
  <2>2. CASE k - c \in 1..(d - c)
    <3>1. c + (k - c) = k
      BY <1>0
    <3>2. z[c + (k - c)] = b[k - c] /\ b[k - c] = line[c + (k - c)]
      BY <1>2, <1>7, <2>2 DEF z
    <3>. QED
      BY <1>3, <3>1, <3>2
  <2>. QED
    BY <1>0, <2>1, <2>2
<1>10. z = all
  BY <1>3, <1>8, <1>9 DEF Text
<1>. QED
  BY <1>1, <1>2, <1>3, <1>10 DEF a, b, x, y, z, all

LEMMA WordTaken ==
  ASSUME NEW carry, NEW s \in State, ~Stopped(carry, s), NEW token \in Tok, token.kind = "WORD",
         s.place \in {"star", "headline", "header", "text", "line"}
  PROVE  LET t == Step(carry, s, token)
         IN  /\ t \in State
             /\ t.place = IF s.place \in {"star", "headline"} THEN "headline" ELSE "line"
             /\ t.line = WithWord(s.place, s.line, token.word)
             /\ t.notes = s.notes /\ t.stop = s.stop
<1> DEFINE p == Shift(s.place, token.kind)
<1>1. p = IF s.place \in {"star", "headline"} THEN "headline" ELSE "line"
  BY DEF Shift, LineStarts
<1>2. Step(carry, s, token) = Take(s, token)
  BY DEF Step, Stopped
<1> HIDE DEF p
<1> DEFINE t == Take(s, token)
<1>3. /\ t.place = IF p = "dated" /\ IsRefused(s.date) THEN "start" ELSE p
      /\ t.line = IF p \in {"headline", "line"} THEN WithWord(s.place, s.line, token.word)
                  ELSE s.line
      /\ t.notes = IF p = "header" THEN Append(s.notes, Note(s.line, TagOf(s), NULL))
                   ELSE IF p = "text"
                   THEN LastWith(s.notes, IF s.place = "line" THEN s.line ELSE <<>>)
                   ELSE s.notes
      /\ t.stop = IF p = "dated" /\ IsRefused(s.date) THEN token.next ELSE s.stop
  BY TakeIs DEF p
<1>4. t \in State
  BY TakeTyped
<1> HIDE DEF t
<1>5. p \in {"headline", "line"}
  BY <1>1
<1>. QED
  BY <1>1, <1>2, <1>3, <1>4, <1>5 DEF t

LEMMA LineEndTaken ==
  ASSUME NEW carry, NEW s \in State, ~Stopped(carry, s), NEW token \in Tok,
         token.kind = "NEWLINE", s.place \in {"headline", "tagged", "text", "line"}
  PROVE  LET t == Step(carry, s, token)
         IN  /\ t \in State
             /\ t.place = IF s.place \in {"headline", "tagged"} THEN "header" ELSE "text"
             /\ t.notes = IF s.place \in {"headline", "tagged"}
                          THEN Append(s.notes, Note(s.line, TagOf(s), NULL))
                          ELSE LastWith(s.notes, IF s.place = "line" THEN s.line ELSE <<>>)
             /\ t.stop = s.stop
<1> DEFINE p == Shift(s.place, token.kind)
<1>1. p = IF s.place \in {"headline", "tagged"} THEN "header" ELSE "text"
  BY DEF Shift, LineStarts
<1>2. Step(carry, s, token) = Take(s, token)
  BY DEF Step, Stopped
<1> HIDE DEF p
<1> DEFINE t == Take(s, token)
<1>3. /\ t.place = IF p = "dated" /\ IsRefused(s.date) THEN "start" ELSE p
      /\ t.notes = IF p = "header" THEN Append(s.notes, Note(s.line, TagOf(s), NULL))
                   ELSE IF p = "text"
                   THEN LastWith(s.notes, IF s.place = "line" THEN s.line ELSE <<>>)
                   ELSE s.notes
      /\ t.stop = IF p = "dated" /\ IsRefused(s.date) THEN token.next ELSE s.stop
  BY TakeIs DEF p
<1>4. t \in State
  BY TakeTyped
<1> HIDE DEF t
<1>5. CASE s.place \in {"headline", "tagged"}
  BY <1>1, <1>2, <1>3, <1>4, <1>5 DEF t
<1>6. CASE s.place \notin {"headline", "tagged"}
  BY <1>1, <1>2, <1>3, <1>4, <1>6 DEF t
<1>. QED
  BY <1>5, <1>6

LEMMA TagTaken ==
  ASSUME NEW carry, NEW s \in State, ~Stopped(carry, s), NEW token \in Tok,
         token.kind = "TAG", s.place = "headline"
  PROVE  LET t == Step(carry, s, token)
         IN  /\ t \in State
             /\ t.place = "tagged" /\ t.tag = token.word /\ t.line = s.line
             /\ t.notes = s.notes /\ t.stop = s.stop
<1> DEFINE p == Shift(s.place, token.kind)
<1>1. p = "tagged"
  BY DEF Shift, LineStarts
<1>2. Step(carry, s, token) = Take(s, token)
  BY DEF Step, Stopped
<1> HIDE DEF p
<1> DEFINE t == Take(s, token)
<1>3. /\ t.place = IF p = "dated" /\ IsRefused(s.date) THEN "start" ELSE p
      /\ t.line = IF p \in {"headline", "line"} THEN WithWord(s.place, s.line, token.word)
                  ELSE s.line
      /\ t.tag = IF p = "tagged" THEN token.word ELSE s.tag
      /\ t.notes = IF p = "header" THEN Append(s.notes, Note(s.line, TagOf(s), NULL))
                   ELSE IF p = "text"
                   THEN LastWith(s.notes, IF s.place = "line" THEN s.line ELSE <<>>)
                   ELSE s.notes
      /\ t.stop = IF p = "dated" /\ IsRefused(s.date) THEN token.next ELSE s.stop
  BY TakeIs DEF p
<1>4. t \in State
  BY TakeTyped
<1> HIDE DEF t
<1>. QED
  BY <1>1, <1>2, <1>3, <1>4 DEF t

LEMMA PartIs ==
  ASSUME NEW text \in Text, NEW i \in 1..(Len(text) + 1), NEW j \in (i - 1)..Len(text)
  PROVE  /\ SubSeq(text, i, j) \in Text /\ Len(SubSeq(text, i, j)) = j + 1 - i
         /\ \A k \in 1..(j + 1 - i) : SubSeq(text, i, j)[k] = text[i + k - 1]
<1>1. Len(text) \in Nat
  BY TextJoins
<1>. QED
  BY <1>1 DEF Text

\* Words with single blanks between them, and no newline
Wordy(line) ==
  /\ line # <<>>
  /\ \A i \in 1..Len(line) :
       \/ line[i] \in PlainWords
       \/ /\ line[i] = SP /\ i - 1 \in 1..Len(line) /\ i + 1 \in 1..Len(line)
          /\ line[i - 1] \in PlainWords /\ line[i + 1] \in PlainWords

\* A line of words in a text behind a position, and what ends its last word
LineStands(text, b, line) ==
  /\ b + Len(line) < Len(text)
  /\ \A j \in 1..Len(line) : text[b + j] = line[j]
  /\ text[b + Len(line) + 1] \notin Glyphs

\* The parser reads a line of words as it is written, in a headline and in a text.
LEMMA LineRead ==
  ASSUME NEW carry, NEW text \in Text, NEW s \in State, ~Stopped(carry, s),
         s.place \in {"star", "header", "text"},
         NEW line \in Text, Wordy(line), NEW b \in Nat, LineStands(text, b, line)
  PROVE  \E t \in State :
           /\ Leads(carry, text, s, b + 1, t, b + Len(line) + 1)
           /\ t.place = IF s.place = "star" THEN "headline" ELSE "line"
           /\ t.line = line /\ t.notes = s.notes /\ t.stop = s.stop
<1>0. /\ b + Len(line) < Len(text)
      /\ \A j \in 1..Len(line) : text[b + j] = line[j]
      /\ text[b + Len(line) + 1] \notin Glyphs
  BY DEF LineStands
<1> DEFINE n == Len(line)
           target == IF s.place = "star" THEN "headline" ELSE "line"
           Read(c) == IF line[c] = SP THEN SubSeq(line, 1, c - 1) ELSE SubSeq(line, 1, c)
           Good(c, t) == /\ Leads(carry, text, s, b + 1, t, b + c + 1)
                         /\ t.notes = s.notes /\ t.stop = s.stop
                         /\ c = 0 => t = s
                         /\ c > 0 => t.place = target /\ t.line = Read(c)
           Edge(c) == c = 0 \/ c = n \/ line[c] = SP \/ line[c + 1] = SP
           J == {c \in 0..n : Edge(c) /\ \E t \in State : Good(c, t)}
<1>1. Len(text) \in Nat /\ n \in Nat \ {0} /\ b + n < Len(text)
  <2>1. n \in Nat
    BY TextJoins
  <2>2. n # 0
    BY DEF Wordy, Text
  <2>. QED
    BY <1>0, <2>1, <2>2, TextJoins
<1>2. SP \notin PlainWords
  BY WordsAre
<1>3. \A c \in 1..n : line[c] \in PlainWords \/ line[c] = SP
  BY DEF Wordy
<1>4. \A c \in 1..n : line[c] = SP => c > 1 /\ c < n /\ line[c - 1] \in PlainWords
  <2>1. ASSUME NEW c \in 1..n, line[c] = SP
        PROVE  c > 1 /\ c < n /\ line[c - 1] \in PlainWords
    <3>1. c - 1 \in 1..n /\ c + 1 \in 1..n /\ line[c - 1] \in PlainWords
      BY <1>2, <2>1 DEF Wordy
    <3>. QED
      BY <1>1, <3>1
  <2>. QED
    BY <2>1
<1>5. 0 \in J
  <2>1. Good(0, s)
    BY DEF Leads
  <2> HIDE DEF Good
  <2>. QED
    BY <1>1, <2>1
<1>6. ASSUME NEW c \in J, c # n
      PROVE  \E d \in J : d > c
  <2>1. c \in 0..(n - 1) /\ c + 1 \in 1..n /\ b + c + 1 \in 1..Len(text)
    BY <1>1, <1>6
  <2>2. PICK t \in State : Good(c, t)
    OBVIOUS
  <2>3. Edge(c) /\ ~Stopped(carry, t)
    BY <2>2 DEF Stopped
  <2>4. text[b + c + 1] = line[c + 1]
    <3>1. b + (c + 1) = b + c + 1 /\ text[b + (c + 1)] = line[c + 1]
      BY <1>0, <2>1
    <3>. QED
      BY <3>1
  <2>5. Leads(carry, text, s, b + 1, Move(carry, text, b + c + 1, t), NextAt(text, b + c + 1))
    BY <2>1, <2>2, LeadsOn
  <2>6. CASE line[c + 1] = SP
    <3>1. IsSkipped(text, b + c + 1) /\ NextAt(text, b + c + 1) = b + c + 1 + 1
      BY <2>1, <2>4, <2>6, BlankAt
    <3>2. Leads(carry, text, s, b + 1, t, b + (c + 1) + 1)
      <4>1. b + c + 1 + 1 = b + (c + 1) + 1
        BY <2>1
      <4>. QED
        BY <2>5, <3>1, <4>1 DEF Move
    <3>3. c + 1 > 1 /\ line[c] \in PlainWords
      <4>1. c + 1 > 1 /\ line[c + 1 - 1] \in PlainWords /\ c + 1 - 1 = c
        BY <1>4, <2>1, <2>6
      <4>. QED
        BY <4>1
    <3>4. Read(c) = Read(c + 1)
      <4>1. c + 1 - 1 = c
        BY <2>1
      <4>. QED
        BY <1>2, <2>6, <3>3, <4>1
    <3>5. Good(c + 1, t)
      <4> HIDE DEF Read
      <4>1. c > 0 /\ c + 1 > 0 /\ c + 1 # 0
        BY <2>1, <3>3
      <4>. QED
        BY <2>2, <3>2, <3>4, <4>1
    <3> HIDE DEF Good
    <3>6. c + 1 \in J
      BY <2>1, <2>6, <3>5
    <3>. QED
      BY <2>1, <3>6
  <2>7. CASE line[c + 1] \in PlainWords
    <3> DEFINE p == Past(line, c + 1, PlainWords)
    <3>1. /\ p \in (c + 1)..(n + 1)
          /\ \A j \in (c + 1)..(p - 1) : line[j] \in PlainWords
          /\ p <= n => line[p] \notin PlainWords
      <4> DEFINE k == c + 1
                 q == Past(line, k, PlainWords)
      <4>1. k \in Nat \ {0} /\ k <= Len(line) + 1
        BY <2>1
      <4> HIDE DEF k
      <4>2. /\ q \in k..(Len(line) + 1)
            /\ \A j \in k..(q - 1) : line[j] \in PlainWords
            /\ q <= Len(line) => line[q] \notin PlainWords
        BY <4>1, PastIs
      <4>. QED
        BY <4>2 DEF k, p
    <3> HIDE DEF p
    <3>2. p \in (c + 2)..(n + 1)
      <4>1. p # c + 1
        BY <2>1, <2>7, <3>1
      <4>. QED
        BY <2>1, <3>1, <4>1
    <3>3. p <= n => line[p] = SP
      BY <1>3, <2>1, <3>1, <3>2
    <3>4. /\ b + p \in (b + c + 1 + 1)..(Len(text) + 1)
          /\ \A k \in (b + c + 1)..((b + p) - 1) : text[k] \in PlainWords
          /\ text[b + p] \notin Glyphs
      <4>1. b + p \in (b + c + 1 + 1)..(Len(text) + 1)
        BY <1>1, <2>1, <3>2
      <4>2. ASSUME NEW k \in (b + c + 1)..((b + p) - 1)
            PROVE  text[k] \in PlainWords
        <5>1. k - b \in (c + 1)..(p - 1) /\ k - b \in 1..n /\ b + (k - b) = k
          BY <2>1, <3>2
        <5>2. text[b + (k - b)] = line[k - b]
          BY <1>0, <5>1
        <5>. QED
          BY <3>1, <5>1, <5>2
      <4>3. text[b + p] \notin Glyphs
        <5>1. CASE p <= n
          <6>1. p \in 1..n
            BY <2>1, <3>2, <5>1
          <6>2. text[b + p] = line[p]
            BY <1>0, <6>1
          <6>. QED
            BY <3>3, <5>1, <6>2, WordsAre
        <5>2. CASE p = n + 1
          <6>1. b + p = b + n + 1 /\ text[b + n + 1] \notin Glyphs
            BY <1>0, <1>1, <5>2
          <6>. QED
            BY <1>0, <6>1
        <5>. QED
          BY <1>1, <2>1, <3>2, <5>1, <5>2
      <4>. QED
        BY <4>1, <4>2, <4>3
    <3> DEFINE i == b + c + 1
               j == b + p
    <3>5. /\ ~IsSkipped(text, i) /\ NextAt(text, i) = j
          /\ TokenOf(text, i) \in Tok /\ TokenOf(text, i).kind = "WORD"
          /\ TokenOf(text, i).word = SubSeq(text, i, j - 1)
      <4>1. /\ i \in 1..Len(text) /\ j \in (i + 1)..(Len(text) + 1)
            /\ \A k \in i..(j - 1) : text[k] \in PlainWords
            /\ j <= Len(text) => text[j] \notin Glyphs
        <5>1. i \in 1..Len(text) /\ j \in (i + 1)..(Len(text) + 1)
          BY <2>1, <3>4
        <5>2. \A k \in i..(j - 1) : text[k] \in PlainWords
          BY <3>4, Zenon
        <5>3. text[j] \notin Glyphs
          BY <3>4
        <5>. QED
          BY <5>1, <5>2, <5>3
      <4> HIDE DEF i, j
      <4>. QED
        BY <4>1, WordAt
    <3>6. SubSeq(text, i, j - 1) = SubSeq(line, c + 1, p - 1)
      <4> DEFINE u == SubSeq(text, i, j - 1)
                 v == SubSeq(line, c + 1, p - 1)
                 l == p - 1 - c
      <4>0. l \in Nat
        BY <2>1, <3>2
      <4>1. /\ u \in Text /\ Len(u) = l
            /\ \A k \in 1..l : u[k] = text[i + k - 1]
        <5> DEFINE k == j - 1
        <5>1. i \in 1..(Len(text) + 1) /\ k \in (i - 1)..Len(text) /\ k + 1 - i = l
          BY <1>1, <2>1, <3>2, <3>4
        <5> HIDE DEF k, i, l
        <5>2. /\ SubSeq(text, i, k) \in Text /\ Len(SubSeq(text, i, k)) = k + 1 - i
              /\ \A m \in 1..(k + 1 - i) : SubSeq(text, i, k)[m] = text[i + m - 1]
          BY <5>1, PartIs
        <5>3. SubSeq(text, i, k) = u
          BY DEF k
        <5>. QED
          BY <5>1, <5>2, <5>3
      <4>2. /\ v \in Text /\ Len(v) = l
            /\ \A k \in 1..l : v[k] = line[c + k]
        <5> DEFINE k == p - 1
                   a == c + 1
        <5>1. a \in 1..(Len(line) + 1) /\ k \in (a - 1)..Len(line) /\ k + 1 - a = l
              /\ \A m \in 1..l : a + m - 1 = c + m
          BY <1>1, <2>1, <3>2
        <5> HIDE DEF k, a, l
        <5>2. /\ SubSeq(line, a, k) \in Text /\ Len(SubSeq(line, a, k)) = k + 1 - a
              /\ \A m \in 1..(k + 1 - a) : SubSeq(line, a, k)[m] = line[a + m - 1]
          BY <5>1, PartIs
        <5>3. SubSeq(line, a, k) = v
          BY DEF k, a
        <5>. QED
          BY <5>1, <5>2, <5>3
      <4> HIDE DEF u, v
      <4>3. ASSUME NEW k \in 1..l
            PROVE  u[k] = v[k]
        <5>1. c + k \in 1..n /\ i + k - 1 = b + (c + k)
          BY <1>1, <2>1, <3>2
        <5>2. text[b + (c + k)] = line[c + k]
          BY <1>0, <5>1
        <5>. QED
          BY <4>1, <4>2, <5>1, <5>2
      <4> HIDE DEF l
      <4>4. u = v
        BY <4>0, <4>1, <4>2, <4>3 DEF Text
      <4>. QED
        BY <4>4 DEF u, v
    <3> DEFINE v == Step(carry, t, TokenOf(text, i))
               d == p - 1
    <3>7. Leads(carry, text, s, b + 1, v, b + d + 1)
      <4>1. b + d + 1 = j
        BY <2>1, <3>2
      <4>. QED
        BY <2>5, <3>5, <4>1 DEF Move
    <3>8. t.place \in {"star", "headline", "header", "text", "line"}
          /\ (c = 0 => t.place = s.place) /\ (c > 0 => t.place = target)
      BY <2>1, <2>2
    <3>9. /\ v \in State
          /\ v.place = IF t.place \in {"star", "headline"} THEN "headline" ELSE "line"
          /\ v.line = WithWord(t.place, t.line, TokenOf(text, i).word)
          /\ v.notes = t.notes /\ v.stop = t.stop
      BY <2>3, <3>5, <3>8, WordTaken
    <3>10. v.line = SubSeq(line, 1, d)
      <4> HIDE DEF v
      <4>1. v.line = WithWord(t.place, t.line, SubSeq(line, c + 1, d))
        BY <3>5, <3>6, <3>9
      <4>2. CASE c = 0
        <5>1. t.place \notin {"headline", "line"}
          BY <3>8, <4>2
        <5>2. SubSeq(line, c + 1, d) = SubSeq(line, 1, d)
          BY <4>2
        <5>. QED
          BY <4>1, <5>1, <5>2 DEF WithWord
      <4>3. CASE c > 0
        <5>1. line[c] = SP /\ c \in 1..n
          BY <1>1, <1>2, <1>6, <2>1, <2>3, <2>7, <4>3
        <5>2. t.place \in {"headline", "line"} /\ t.line = SubSeq(line, 1, c - 1)
          BY <2>2, <3>8, <4>3, <5>1
        <5>3. v.line = (SubSeq(line, 1, c - 1) \o <<line[c]>>) \o SubSeq(line, c + 1, d)
          BY <4>1, <5>1, <5>2 DEF WithWord
        <5>4. d \in c..n
          BY <2>1, <3>2
        <5>. QED
          BY <5>1, <5>3, <5>4, PartsJoin
      <4>. QED
        BY <2>1, <4>2, <4>3
    <3>11. d \in 1..n /\ d > c /\ line[d] # SP
      <4>1. d \in 1..n /\ d > c /\ d \in (c + 1)..(p - 1)
        BY <1>1, <2>1, <3>2
      <4>. QED
        BY <1>2, <3>1, <4>1
    <3>12. Edge(d)
      <4>1. d + 1 = p
        BY <2>1, <3>2
      <4>. QED
        BY <1>1, <3>2, <3>3, <4>1
    <3>13. Good(d, v)
      <4>1. Read(d) = SubSeq(line, 1, d)
        BY <3>11
      <4>2. v.place = target
        BY <3>8, <3>9, <2>1
      <4>3. d # 0 /\ d > 0
        BY <3>11
      <4>4. v.notes = s.notes /\ v.stop = s.stop
        BY <2>2, <3>9
      <4> HIDE DEF v, d, Read
      <4>. QED
        BY <3>7, <3>10, <4>1, <4>2, <4>3, <4>4
    <3> HIDE DEF Good, v, d, Edge
    <3>14. d \in J
      BY <3>9, <3>11, <3>12, <3>13
    <3>. QED
      BY <3>11, <3>14
  <2>. QED
    BY <1>3, <2>1, <2>6, <2>7
<1>7. n \in J
  <2>1. J \in SUBSET (0..n) /\ J # {}
    BY <1>5
  <2> HIDE DEF J
  <2>. QED
    BY <1>1, <1>6, <2>1, Climbs
<1>8. PICK t \in State : Good(n, t)
  BY <1>7
<1>9. Read(n) = line
  <2>1. line[n] # SP
    BY <1>1, <1>4
  <2>2. SubSeq(line, 1, n) = line
    BY <1>1 DEF Text
  <2>. QED
    BY <2>1, <2>2
<1> HIDE DEF Read
<1>. QED
  BY <1>1, <1>8, <1>9

LEMMA PlainIs ==
  ASSUME NEW y \in Text, PlainLines(y)
  PROVE  /\ Len(y) \in Nat \ {0} /\ y[1] # NL
         /\ \A i \in 1..Len(y) : y[i] \in PlainWords \cup {SP, NL}
         /\ \A i \in 1..Len(y) : y[i] = SP =>
              /\ i - 1 \in 1..Len(y) /\ i + 1 \in 1..Len(y)
              /\ y[i - 1] \in PlainWords /\ y[i + 1] \in PlainWords
         /\ \A i \in 2..Len(y) : y[i - 1] = NL /\ y[i] = NL => i < Len(y) /\ y[i + 1] # NL
<1> DEFINE z == <<NL>>
           x == z \o y
           s == x \o z
           n == Len(y)
<1>0. n \in Nat /\ z \in Text /\ Len(z) = 1 /\ z[1] = NL
  BY TextJoins
<1> HIDE DEF z
<1>1. /\ x \in Text /\ Len(x) = 1 + n /\ x[1] = NL
      /\ \A i \in 1..n : x[1 + i] = y[i]
  <2>1. /\ x \in Text /\ Len(x) = Len(z) + Len(y)
        /\ \A i \in 1..Len(z) : x[i] = z[i]
        /\ \A i \in 1..Len(y) : x[Len(z) + i] = y[i]
    BY <1>0, JoinIs
  <2> HIDE DEF x
  <2>. QED
    BY <1>0, <2>1
<1> HIDE DEF x
<1>2. /\ s \in Text /\ Len(s) = 2 + n /\ s[1] = NL /\ s[n + 2] = NL
      /\ \A i \in 1..n : s[i + 1] = y[i]
  <2>1. /\ s \in Text /\ Len(s) = Len(x) + Len(z)
        /\ \A i \in 1..Len(x) : s[i] = x[i]
        /\ \A i \in 1..Len(z) : s[Len(x) + i] = z[i]
    BY <1>0, <1>1, JoinIs
  <2> HIDE DEF s
  <2>2. Len(s) = 2 + n /\ Len(x) + 1 = n + 2 /\ 1 \in 1..Len(x) /\ 1 \in 1..Len(z)
    BY <1>0, <1>1, <2>1
  <2>3. s[1] = NL
    BY <1>1, <2>1, <2>2
  <2>4. s[n + 2] = NL
    <3>1. s[Len(x) + 1] = z[1]
      BY <2>1, <2>2
    <3>. QED
      BY <1>0, <2>2, <3>1
  <2>5. ASSUME NEW i \in 1..n PROVE s[i + 1] = y[i]
    <3>1. i + 1 \in 1..Len(x) /\ i + 1 = 1 + i
      BY <1>0, <1>1
    <3>. QED
      BY <1>1, <2>1, <3>1
  <2>. QED
    BY <2>1, <2>2, <2>3, <2>4, <2>5
<1>3. /\ \A i \in DOMAIN s : s[i] \in PlainWords \cup {SP, NL}
      /\ s[2] # NL
      /\ \A i \in 2..(Len(s) - 1) :
           /\ s[i] = SP => {s[i - 1], s[i + 1]} \subseteq PlainWords
           /\ ~(s[i - 1] = NL /\ s[i] = NL /\ s[i + 1] = NL)
  BY DEF PlainLines, x, z
<1> HIDE DEF s
<1>4. n # 0 /\ y[1] # NL
  <2>1. n = 0 => s[2] = NL
    BY <1>2
  <2>2. n # 0 => s[1 + 1] = y[1]
    BY <1>0, <1>2
  <2>3. 1 + 1 = 2
    OBVIOUS
  <2>. QED
    BY <1>3, <2>1, <2>2, <2>3
<1>5. ASSUME NEW i \in 1..n PROVE y[i] \in PlainWords \cup {SP, NL}
  <2>1. i + 1 \in DOMAIN s /\ s[i + 1] = y[i]
    BY <1>0, <1>2 DEF Text
  <2>. QED
    BY <1>3, <2>1
<1>6. ASSUME NEW i \in 1..n
      PROVE  /\ i + 1 \in 2..(Len(s) - 1) /\ s[i + 1] = y[i]
             /\ i + 1 - 1 = i /\ (i > 1 => s[i] = y[i - 1]) /\ (i = 1 => s[i] = NL)
             /\ i < n => s[i + 1 + 1] = y[i + 1]
             /\ i = n => s[i + 1 + 1] = NL
  <2>1. i > 1 => i - 1 \in 1..n /\ (i - 1) + 1 = i
    BY <1>0
  <2>2. i < n => i + 1 \in 1..n
    BY <1>0
  <2>3. i = n => i + 1 + 1 = n + 2
    BY <1>0
  <2>. QED
    BY <1>0, <1>2, <2>1, <2>2, <2>3
<1>7. ASSUME NEW i \in 1..n, y[i] = SP
      PROVE  /\ i - 1 \in 1..n /\ i + 1 \in 1..n
             /\ y[i - 1] \in PlainWords /\ y[i + 1] \in PlainWords
  <2>1. s[i] \in PlainWords /\ s[i + 1 + 1] \in PlainWords
    <3> DEFINE k == i + 1
    <3>1. k \in 2..(Len(s) - 1) /\ s[k] = SP /\ k - 1 = i /\ k + 1 = i + 1 + 1
      BY <1>0, <1>6, <1>7
    <3> HIDE DEF k
    <3>2. {s[k - 1], s[k + 1]} \subseteq PlainWords
      BY <1>3, <3>1
    <3>. QED
      BY <3>1, <3>2
  <2>2. NL \notin PlainWords
    BY WordsAre
  <2>3. i # 1 /\ i # n
    BY <1>6, <2>1, <2>2
  <2>. QED
    BY <1>0, <1>6, <2>1, <2>3
<1>8. ASSUME NEW i \in 2..n, y[i - 1] = NL, y[i] = NL
      PROVE  i < n /\ y[i + 1] # NL
  <2>1. i \in 1..n /\ i > 1
    BY <1>0
  <2>2. ~(s[i + 1 - 1] = NL /\ s[i + 1] = NL /\ s[i + 1 + 1] = NL)
    BY <1>3, <1>6, <2>1
  <2>3. s[i] = NL /\ s[i + 1] = NL /\ i + 1 - 1 = i
    BY <1>6, <1>8, <2>1
  <2>4. s[i + 1 + 1] # NL
    BY <2>2, <2>3
  <2>. QED
    BY <1>0, <1>6, <2>1, <2>4
<1>. QED
  BY <1>0, <1>4, <1>5, <1>7, <1>8

\* The symbols of an item as it is written, one by one
LEMMA WrittenIs ==
  ASSUME NEW item \in Item
  PROVE  LET h == Len(item.header)
             g == Len(TagText(item.category))
             text == item.text
             W == Written(item)
         IN  /\ h \in Nat /\ g \in Nat /\ W \in Text
             /\ Len(W) = 3 + h + g + (IF text = NULL THEN 0 ELSE Len(text) + 1)
             /\ W[1] = Star /\ W[2] = SP /\ W[3 + h + g] = NL
             /\ \A j \in 1..h : W[2 + j] = item.header[j]
             /\ \A j \in 1..g : W[2 + h + j] = TagText(item.category)[j]
             /\ text # NULL => /\ \A j \in 1..Len(text) : W[3 + h + g + j] = text[j]
                               /\ W[3 + h + g + Len(text) + 1] = NL
<1> DEFINE h == Len(item.header)
           g == Len(TagText(item.category))
           text == item.text
           W == Written(item)
<1> HIDE DEF h, g, text, W
<1> SUFFICES /\ h \in Nat /\ g \in Nat /\ W \in Text
             /\ Len(W) = 3 + h + g + (IF text = NULL THEN 0 ELSE Len(text) + 1)
             /\ W[1] = Star /\ W[2] = SP /\ W[3 + h + g] = NL
             /\ \A j \in 1..h : W[2 + j] = item.header[j]
             /\ \A j \in 1..g : W[2 + h + j] = TagText(item.category)[j]
             /\ text # NULL => /\ \A j \in 1..Len(text) : W[3 + h + g + j] = text[j]
                               /\ W[3 + h + g + Len(text) + 1] = NL
  BY DEF h, g, text, W
<1> DEFINE a == <<Star, SP>>
           b == item.header
           c == TagText(item.category)
           d == <<NL>>
           e == IF text = NULL THEN <<>> ELSE text \o <<NL>>
           ab == a \o b
           abc == ab \o c
           abcd == abc \o d
<1>0. W = abcd \o e
  BY DEF Written, W, text
<1>1. /\ a \in Text /\ Len(a) = 2 /\ a[1] = Star /\ a[2] = SP
      /\ d \in Text /\ Len(d) = 1 /\ d[1] = NL
  BY TextJoins
<1>2. b \in Text /\ c \in Text /\ text \in Text \cup {NULL}
  <2>1. b \in Text /\ item.text \in Text \cup {NULL} /\ item.category \in Text \cup {NULL}
    BY DEF Item
  <2>. QED
    BY <2>1, TextJoins DEF TagText, text
<1>3. /\ e \in Text
      /\ Len(e) = IF text = NULL THEN 0 ELSE Len(text) + 1
      /\ text # NULL => /\ \A j \in 1..Len(text) : e[j] = text[j]
                        /\ e[Len(text) + 1] = NL
  <2>1. CASE text = NULL
    BY <2>1, TextJoins
  <2>2. CASE text # NULL
    <3> HIDE DEF d
    <3>1. e = text \o d /\ text \in Text
      BY <1>2, <2>2 DEF d
    <3> HIDE DEF e
    <3>2. /\ e \in Text /\ Len(e) = Len(text) + Len(d)
          /\ \A i \in 1..Len(text) : e[i] = text[i]
          /\ \A i \in 1..Len(d) : e[Len(text) + i] = d[i]
      BY <1>1, <3>1, JoinIs
    <3>3. e[Len(text) + 1] = NL
      BY <1>1, <3>2
    <3>. QED
      BY <1>1, <2>2, <3>2, <3>3
  <2>. QED
    BY <2>1, <2>2
<1> HIDE DEF a, b, c, d, e
<1>4. h = Len(b) /\ g = Len(c) /\ h \in Nat /\ g \in Nat /\ Len(e) \in Nat
  BY <1>2, <1>3, TextJoins DEF b, c, h, g
<1>5. /\ ab \in Text /\ Len(ab) = 2 + h
      /\ ab[1] = Star /\ ab[2] = SP
      /\ \A j \in 1..h : ab[2 + j] = b[j]
  <2>1. /\ ab \in Text /\ Len(ab) = Len(a) + Len(b)
        /\ \A i \in 1..Len(a) : ab[i] = a[i]
        /\ \A i \in 1..Len(b) : ab[Len(a) + i] = b[i]
    BY <1>1, <1>2, JoinIs
  <2> HIDE DEF ab
  <2>. QED
    BY <1>1, <1>4, <2>1
<1> HIDE DEF ab
<1>6. /\ abc \in Text /\ Len(abc) = 2 + h + g
      /\ \A j \in 1..(2 + h) : abc[j] = ab[j]
      /\ \A j \in 1..g : abc[2 + h + j] = c[j]
  <2>1. /\ abc \in Text /\ Len(abc) = Len(ab) + Len(c)
        /\ \A i \in 1..Len(ab) : abc[i] = ab[i]
        /\ \A i \in 1..Len(c) : abc[Len(ab) + i] = c[i]
    BY <1>5, <1>2, JoinIs
  <2> HIDE DEF abc
  <2>. QED
    BY <1>4, <1>5, <2>1
<1> HIDE DEF abc
<1>7. /\ abcd \in Text /\ Len(abcd) = 3 + h + g
      /\ \A j \in 1..(2 + h + g) : abcd[j] = abc[j]
      /\ abcd[3 + h + g] = NL
  <2>1. /\ abcd \in Text /\ Len(abcd) = Len(abc) + Len(d)
        /\ \A i \in 1..Len(abc) : abcd[i] = abc[i]
        /\ \A i \in 1..Len(d) : abcd[Len(abc) + i] = d[i]
    BY <1>6, <1>1, JoinIs
  <2> HIDE DEF abcd
  <2>2. Len(abc) + 1 = 3 + h + g /\ 1 \in 1..Len(d) /\ Len(abc) + Len(d) = 3 + h + g
    BY <1>1, <1>4, <1>6
  <2>3. abcd[Len(abc) + 1] = d[1]
    BY <2>1, <2>2
  <2>4. abcd[3 + h + g] = NL
    BY <1>1, <2>2, <2>3
  <2>. QED
    BY <1>6, <2>1, <2>2, <2>4
<1> HIDE DEF abcd
<1>8. /\ W \in Text /\ Len(W) = 3 + h + g + Len(e)
      /\ \A j \in 1..(3 + h + g) : W[j] = abcd[j]
      /\ \A j \in 1..Len(e) : W[3 + h + g + j] = e[j]
  <2>1. /\ W \in Text /\ Len(W) = Len(abcd) + Len(e)
        /\ \A i \in 1..Len(abcd) : W[i] = abcd[i]
        /\ \A i \in 1..Len(e) : W[Len(abcd) + i] = e[i]
    <3> DEFINE z == abcd \o e
    <3>1. /\ z \in Text /\ Len(z) = Len(abcd) + Len(e)
          /\ \A i \in 1..Len(abcd) : z[i] = abcd[i]
          /\ \A i \in 1..Len(e) : z[Len(abcd) + i] = e[i]
      BY <1>7, <1>3, JoinIs
    <3>2. W = z
      BY <1>0
    <3> HIDE DEF z
    <3>. QED
      BY <3>1, <3>2
  <2>. QED
    BY <1>7, <2>1
<1>9. W[1] = Star /\ W[2] = SP /\ W[3 + h + g] = NL
  <2>1. /\ 1 \in 1..(3 + h + g) /\ 2 \in 1..(3 + h + g) /\ 3 + h + g \in 1..(3 + h + g)
        /\ 1 \in 1..(2 + h + g) /\ 2 \in 1..(2 + h + g)
        /\ 1 \in 1..(2 + h) /\ 2 \in 1..(2 + h)
    BY <1>4
  <2>. QED
    BY <1>5, <1>6, <1>7, <1>8, <2>1
<1>10. ASSUME NEW j \in 1..h PROVE W[2 + j] = b[j]
  <2> DEFINE k == 2 + j
  <2>1. k \in 1..(3 + h + g) /\ k \in 1..(2 + h + g) /\ k \in 1..(2 + h) /\ ab[k] = b[j]
    BY <1>4, <1>5
  <2> HIDE DEF k
  <2>2. W[k] = abcd[k] /\ abcd[k] = abc[k] /\ abc[k] = ab[k]
    BY <1>6, <1>7, <1>8, <2>1
  <2>3. W[k] = b[j]
    BY <2>1, <2>2
  <2>. QED
    BY <2>3 DEF k
<1>11. ASSUME NEW j \in 1..g PROVE W[2 + h + j] = c[j]
  <2>1. 2 + h + j \in 1..(3 + h + g) /\ 2 + h + j \in 1..(2 + h + g)
    BY <1>4
  <2>. QED
    BY <1>6, <1>7, <1>8, <2>1
<1>12. ASSUME text # NULL
       PROVE  /\ \A j \in 1..Len(text) : W[3 + h + g + j] = text[j]
              /\ W[3 + h + g + Len(text) + 1] = NL
  <2>1. Len(e) = Len(text) + 1 /\ Len(text) \in Nat
    BY <1>2, <1>3, <1>12, TextJoins
  <2>2. ASSUME NEW j \in 1..Len(text)
        PROVE  W[3 + h + g + j] = text[j]
    <3>1. j \in 1..Len(e)
      BY <2>1
    <3>2. W[3 + h + g + j] = e[j]
      BY <1>8, <3>1
    <3>3. e[j] = text[j]
      BY <1>3, <1>12
    <3>. QED
      BY <3>2, <3>3
  <2>3. W[3 + h + g + (Len(text) + 1)] = NL
    <3>1. Len(text) + 1 \in 1..Len(e)
      BY <2>1
    <3>. QED
      BY <1>3, <1>8, <1>12, <3>1
  <2>4. 3 + h + g + (Len(text) + 1) = 3 + h + g + Len(text) + 1
    BY <1>4, <2>1
  <2>. QED
    BY <2>2, <2>3, <2>4
<1>. QED
  BY <1>3, <1>4, <1>8, <1>9, <1>10, <1>11, <1>12 DEF b, c

\* A category of letters and digits, or none
IsLabel(category) == category = NULL \/ (category # <<>> /\ ~Has(category, Symbols \ Letters))

LEMMA TagTextIs ==
  ASSUME NEW category \in Text \cup {NULL},
         IsLabel(category)
  PROVE  LET x == TagText(category)
         IN  /\ x \in Text
             /\ x # <<>> => /\ category \in Text /\ Len(category) \in Nat \ {0}
                            /\ Len(x) = 4 + Len(category)
                            /\ x[1] = TAB /\ x[2] = TAB /\ x[3] = Colon
                            /\ \A j \in 1..Len(category) : x[3 + j] = category[j]
                            /\ x[4 + Len(category)] = Colon
                            /\ \A j \in 1..Len(category) : category[j] \in Letters
<1> DEFINE x == TagText(category)
<1> HIDE DEF x
<1>0. x = TagText(category)
  BY DEF x
<1> SUFFICES /\ x \in Text
             /\ x # <<>> => /\ category \in Text /\ Len(category) \in Nat \ {0}
                            /\ Len(x) = 4 + Len(category)
                            /\ x[1] = TAB /\ x[2] = TAB /\ x[3] = Colon
                            /\ \A j \in 1..Len(category) : x[3 + j] = category[j]
                            /\ x[4 + Len(category)] = Colon
                            /\ \A j \in 1..Len(category) : category[j] \in Letters
  BY DEF x
<1>1. CASE x = <<>>
  BY <1>1, TextJoins
<1>2. CASE x # <<>>
  <2> DEFINE a == <<TAB, TAB, Colon>>
             c == <<Colon>>
             n == Len(category)
             y == a \o category
             z == y \o c
  <2>1. category # NULL /\ category \in Text /\ x = z
    BY <1>0, <1>2 DEF TagText
  <2>2. category # <<>> /\ ~Has(category, Symbols \ Letters)
    BY <2>1 DEF IsLabel
  <2>3. n \in Nat \ {0}
    BY <2>1, <2>2 DEF Text
  <2>4. \A j \in 1..n : category[j] \in Letters
    <3> TAKE j \in 1..n
    <3>1. j \in DOMAIN category /\ category[j] \in Symbols
      BY <2>1 DEF Text
    <3>. QED
      BY <2>2, <3>1 DEF Has
  <2>5. /\ a \in Text /\ Len(a) = 3 /\ a[1] = TAB /\ a[2] = TAB /\ a[3] = Colon
        /\ c \in Text /\ Len(c) = 1 /\ c[1] = Colon
    BY TextJoins
  <2> HIDE DEF a, c
  <2>6. /\ y \in Text /\ Len(y) = 3 + n
        /\ y[1] = TAB /\ y[2] = TAB /\ y[3] = Colon
        /\ \A j \in 1..n : y[3 + j] = category[j]
    <3>1. /\ y \in Text /\ Len(y) = Len(a) + Len(category)
          /\ \A j \in 1..Len(a) : y[j] = a[j]
          /\ \A j \in 1..Len(category) : y[Len(a) + j] = category[j]
      BY <2>1, <2>5, JoinIs
    <3> HIDE DEF y
    <3>. QED
      BY <2>5, <3>1
  <2> HIDE DEF y
  <2>7. /\ z \in Text /\ Len(z) = 4 + n
        /\ \A j \in 1..(3 + n) : z[j] = y[j]
        /\ z[4 + n] = Colon
    <3>1. /\ z \in Text /\ Len(z) = Len(y) + Len(c)
          /\ \A j \in 1..Len(y) : z[j] = y[j]
          /\ \A j \in 1..Len(c) : z[Len(y) + j] = c[j]
      BY <2>5, <2>6, JoinIs
    <3> HIDE DEF z
    <3>2. Len(y) + 1 = 4 + n /\ 1 \in 1..Len(c)
      BY <2>3, <2>5, <2>6
    <3>3. z[Len(y) + 1] = Colon
      BY <2>5, <3>1, <3>2
    <3>. QED
      BY <2>5, <2>6, <3>1, <3>2, <3>3
  <2> HIDE DEF z
  <2>8. z[1] = TAB /\ z[2] = TAB /\ z[3] = Colon
    <3>1. 1 \in 1..(3 + n) /\ 2 \in 1..(3 + n) /\ 3 \in 1..(3 + n)
      BY <2>3
    <3>. QED
      BY <2>6, <2>7, <3>1
  <2>9. ASSUME NEW j \in 1..n PROVE z[3 + j] = category[j]
    <3>1. 3 + j \in 1..(3 + n)
      BY <2>3
    <3>. QED
      BY <2>6, <2>7, <3>1
  <2>. QED
    BY <2>1, <2>3, <2>4, <2>7, <2>8, <2>9
<1>. QED
  BY <1>1, <1>2

\* The tag of an item in a text behind a position, and the end of the line
TagStands(text, p, category) ==
  LET x == TagText(category)
  IN  /\ p + Len(x) + 1 <= Len(text)
      /\ text[p] # NL
      /\ \A j \in 1..Len(x) : text[p + j] = x[j]
      /\ text[p + Len(x) + 1] = NL

\* From the end of a plain header to the end of its line: a tag, or none
LEMMA RestOfHeadRead ==
  ASSUME NEW carry, NEW text \in Text, NEW s \in State, ~Stopped(carry, s), s.place = "headline",
         NEW category \in Text \cup {NULL},
         IsLabel(category),
         NEW p \in Nat \ {0}, TagStands(text, p, category)
  PROVE  LET x == TagText(category)
             g == Len(x)
         IN  \E t \in State :
               /\ Leads(carry, text, s, p + 1, t, p + g + 1)
               /\ t.place \in {"headline", "tagged"} /\ text[p + g] # NL
               /\ TagOf(t) = IF x = <<>> THEN NULL ELSE category
               /\ t.line = s.line /\ t.notes = s.notes /\ t.stop = s.stop
<1> DEFINE x == TagText(category)
           g == Len(x)
<1> HIDE DEF x, g
<1>0. /\ x = TagText(category) /\ g = Len(x)
      /\ p + g + 1 <= Len(text) /\ text[p] # NL
      /\ \A j \in 1..g : text[p + j] = x[j]
      /\ text[p + g + 1] = NL
  BY DEF x, g, TagStands
<1> SUFFICES \E t \in State :
               /\ Leads(carry, text, s, p + 1, t, p + g + 1)
               /\ t.place \in {"headline", "tagged"} /\ text[p + g] # NL
               /\ TagOf(t) = IF x = <<>> THEN NULL ELSE category
               /\ t.line = s.line /\ t.notes = s.notes /\ t.stop = s.stop
  BY DEF x, g
<1> USE <1>0
<1> DEFINE n == Len(category)
<1>1. /\ x \in Text /\ Len(text) \in Nat
      /\ x # <<>> => /\ category \in Text /\ n \in Nat \ {0}
                     /\ g = 4 + n
                     /\ x[1] = TAB /\ x[2] = TAB /\ x[3] = Colon
                     /\ \A j \in 1..n : x[3 + j] = category[j]
                     /\ x[4 + n] = Colon
                     /\ \A j \in 1..n : category[j] \in Letters
  <2>1. /\ x \in Text
        /\ x # <<>> => /\ category \in Text /\ Len(category) \in Nat \ {0}
                       /\ Len(x) = 4 + Len(category)
                       /\ x[1] = TAB /\ x[2] = TAB /\ x[3] = Colon
                       /\ \A j \in 1..Len(category) : x[3 + j] = category[j]
                       /\ x[4 + Len(category)] = Colon
                       /\ \A j \in 1..Len(category) : category[j] \in Letters
    BY TagTextIs
  <2>. QED
    BY <2>1, TextJoins
<1>2. CASE x = <<>>
  <2>1. g = 0 /\ p + g + 1 = p + 1 /\ p + g = p
    BY <1>2
  <2>2. TagOf(s) = NULL
    BY DEF TagOf
  <2>. QED
    BY <1>2, <2>1, <2>2 DEF Leads
<1>3. CASE x # <<>>
  <2> HIDE DEF n
  <2>0. /\ n \in Nat \ {0} /\ g = 4 + n /\ category \in Text /\ n = Len(category)
        /\ x[1] = TAB /\ x[2] = TAB /\ x[3] = Colon
        /\ \A j \in 1..n : x[3 + j] = category[j]
        /\ x[4 + n] = Colon
        /\ \A j \in 1..n : category[j] \in Letters
    BY <1>1, <1>3 DEF n
  <2>1. /\ text[p + 1] = TAB /\ text[p + 2] = TAB /\ text[p + 3] = Colon
        /\ text[p + (4 + n)] = Colon
    <3>1. 1 \in 1..g /\ 2 \in 1..g /\ 3 \in 1..g /\ 4 + n \in 1..g
      BY <2>0
    <3>. QED
      BY <2>0, <3>1
  <2>2. ASSUME NEW j \in 1..n PROVE text[p + (3 + j)] = category[j]
    <3>1. 3 + j \in 1..g
      BY <2>0
    <3>. QED
      BY <2>0, <3>1
  <2>3. Leads(carry, text, s, p + 1, s, p + 2)
    <3>1. p + 1 \in 1..Len(text) /\ p + 1 + 1 = p + 2
      BY <1>1, <2>0
    <3>2. IsSkipped(text, p + 1) /\ NextAt(text, p + 1) = p + 2
      BY <2>1, <3>1, BlankAt
    <3>3. Leads(carry, text, s, p + 1, s, p + 1)
      BY DEF Leads
    <3>4. Leads(carry, text, s, p + 1, Move(carry, text, p + 1, s), NextAt(text, p + 1))
      BY <3>1, <3>3, LeadsOn
    <3>. QED
      BY <3>2, <3>4 DEF Move
  <2>4. Leads(carry, text, s, p + 1, s, p + 3)
    <3>1. p + 2 \in 1..Len(text) /\ p + 2 + 1 = p + 3
      BY <1>1, <2>0
    <3>2. IsSkipped(text, p + 2) /\ NextAt(text, p + 2) = p + 3
      BY <2>1, <3>1, BlankAt
    <3>3. Leads(carry, text, s, p + 1, Move(carry, text, p + 2, s), NextAt(text, p + 2))
      BY <2>3, <3>1, LeadsOn
    <3>. QED
      BY <3>2, <3>3 DEF Move
  <2> DEFINE i == p + 3
             j == p + (4 + n)
  <2>5. /\ i \in 1..Len(text) /\ j \in (i + 2)..Len(text)
        /\ text[i] = Colon /\ text[j] = Colon
        /\ j + 1 = p + g + 1 /\ j = p + g
    BY <1>1, <2>0, <2>1
  <2>6. ASSUME NEW k \in (i + 1)..(j - 1)
        PROVE  text[k] \in Letters
    <3>1. k - i \in 1..n /\ p + (3 + (k - i)) = k
      BY <2>0
    <3>2. text[p + (3 + (k - i))] = category[k - i]
      BY <2>2, <3>1
    <3>. QED
      BY <2>0, <3>1, <3>2
  <2>7. text[j + 1] \notin Glyphs
    BY <2>5, WordsAre
  <2>8. SubSeq(text, i + 1, j - 1) = category
    <3> DEFINE a == i + 1
               k == j - 1
               u == SubSeq(text, a, k)
    <3>1. /\ a \in 1..(Len(text) + 1) /\ k \in (a - 1)..Len(text) /\ k + 1 - a = n
          /\ \A m \in 1..n : a + m - 1 = p + (3 + m)
      BY <1>1, <2>0, <2>5
    <3> HIDE DEF a, k
    <3>2. /\ u \in Text /\ Len(u) = k + 1 - a
          /\ \A m \in 1..(k + 1 - a) : u[m] = text[a + m - 1]
      BY <3>1, PartIs
    <3> HIDE DEF u
    <3>3. ASSUME NEW m \in 1..n PROVE u[m] = category[m]
      <4>1. m \in 1..(k + 1 - a) /\ a + m - 1 = p + (3 + m)
        BY <3>1
      <4>. QED
        BY <2>2, <3>2, <4>1
    <3>4. Len(u) = n /\ u \in Text
      BY <3>1, <3>2
    <3>5. u = category
      BY <2>0, <3>3, <3>4 DEF Text
    <3>. QED
      BY <3>5 DEF u, a, k
  <2> HIDE DEF i, j
  <2>9. /\ ~IsSkipped(text, i) /\ NextAt(text, i) = j + 1
        /\ TokenOf(text, i) \in Tok /\ TokenOf(text, i).kind = "TAG"
        /\ TokenOf(text, i).word = SubSeq(text, i + 1, j - 1)
    BY <2>5, <2>6, <2>7, TagAt
  <2> DEFINE t == Step(carry, s, TokenOf(text, i))
  <2>10. /\ t \in State
         /\ t.place = "tagged" /\ t.tag = TokenOf(text, i).word /\ t.line = s.line
         /\ t.notes = s.notes /\ t.stop = s.stop
    BY <2>9, TagTaken
  <2>11. Leads(carry, text, s, p + 1, t, j + 1)
    <3>1. Leads(carry, text, s, p + 1, Move(carry, text, i, s), NextAt(text, i))
      BY <2>4, <2>5, LeadsOn DEF i
    <3>. QED
      BY <2>9, <3>1 DEF Move
  <2>12. TagOf(t) = category
    BY <2>8, <2>9, <2>10 DEF TagOf
  <2>13. text[p + g] # NL
    <3>1. Colon # NL
      BY DEF Colon, NL
    <3>. QED
      BY <2>5, <3>1
  <2> HIDE DEF t
  <2>. QED
    BY <1>3, <2>5, <2>10, <2>11, <2>12, <2>13
<1>. QED
  BY <1>2, <1>3

\* An item as it is written stands in a text, behind a position.
StandsAt(text, q, item) ==
  /\ q + Len(Written(item)) <= Len(text)
  /\ AtBol(text, q + 1)
  /\ \A i \in 1..Len(Written(item)) : text[q + i] = Written(item)[i]
HeadLen(item) == 3 + Len(item.header) + Len(TagText(item.category))

LEMMA HeadStands ==
  ASSUME NEW text \in Text, NEW item \in Item, NEW q \in Nat, StandsAt(text, q, item)
  PROVE  LET h == Len(item.header)
             g == Len(TagText(item.category))
         IN  /\ h \in Nat /\ g \in Nat /\ q + (3 + h + g) <= Len(text)
             /\ text[q + 1] = Star /\ text[q + 2] = SP
             /\ \A j \in 1..h : text[(q + 2) + j] = item.header[j]
             /\ \A j \in 1..g : text[(q + 2 + h) + j] = TagText(item.category)[j]
             /\ text[q + 2 + h + g + 1] = NL
<1> DEFINE h == Len(item.header)
           g == Len(TagText(item.category))
<1> HIDE DEF h, g
<1> SUFFICES /\ h \in Nat /\ g \in Nat /\ q + (3 + h + g) <= Len(text)
             /\ text[q + 1] = Star /\ text[q + 2] = SP
             /\ \A j \in 1..h : text[(q + 2) + j] = item.header[j]
             /\ \A j \in 1..g : text[(q + 2 + h) + j] = TagText(item.category)[j]
             /\ text[q + 2 + h + g + 1] = NL
  BY DEF h, g
<1> DEFINE W == Written(item)
           body == item.text
<1>1. /\ h \in Nat /\ g \in Nat /\ W \in Text
      /\ Len(W) = 3 + h + g + (IF body = NULL THEN 0 ELSE Len(body) + 1)
      /\ W[1] = Star /\ W[2] = SP /\ W[3 + h + g] = NL
      /\ \A j \in 1..h : W[2 + j] = item.header[j]
      /\ \A j \in 1..g : W[2 + h + j] = TagText(item.category)[j]
  BY WrittenIs DEF h, g
<1>2. body \in Text \cup {NULL}
  BY DEF Item
<1>3. q + Len(W) <= Len(text) /\ \A i \in 1..Len(W) : text[q + i] = W[i]
  BY DEF StandsAt
<1>4. Len(W) >= 3 + h + g /\ Len(W) \in Nat /\ Len(text) \in Nat
  <2>1. body # NULL => Len(body) \in Nat
    BY <1>2, TextJoins
  <2> HIDE DEF W, body
  <2>2. Len(W) \in Nat /\ Len(text) \in Nat
    BY <1>1, TextJoins
  <2>3. Len(W) = 3 + h + g + (IF body = NULL THEN 0 ELSE Len(body) + 1)
    BY <1>1
  <2>4. h \in Nat /\ g \in Nat
    BY <1>1
  <2>5. CASE body = NULL
    <3>1. Len(W) = 3 + h + g + 0
      BY <2>3, <2>5
    <3>. QED
      BY <2>2, <2>4, <3>1
  <2>6. CASE body # NULL
    <3>1. Len(W) = 3 + h + g + (Len(body) + 1)
      BY <2>3, <2>6
    <3>. QED
      BY <2>1, <2>2, <2>4, <2>6, <3>1
  <2>. QED
    BY <2>5, <2>6
<1> HIDE DEF W, body
<1>0. h \in Nat /\ g \in Nat
  BY <1>1
<1>5. /\ 1 \in 1..Len(W) /\ 2 \in 1..Len(W) /\ 3 + h + g \in 1..Len(W)
      /\ q + (3 + h + g) = q + 2 + h + g + 1 /\ q + (3 + h + g) <= Len(text)
  <2>1. q + Len(W) <= Len(text)
    BY <1>3
  <2>. QED
    BY <1>0, <1>4, <2>1
<1>6. text[q + 1] = Star /\ text[q + 2] = SP /\ text[q + (3 + h + g)] = NL
  BY <1>1, <1>3, <1>5
<1>7. ASSUME NEW j \in 1..h PROVE text[(q + 2) + j] = item.header[j]
  <2>1. 2 + j \in 1..Len(W) /\ q + (2 + j) = (q + 2) + j
    BY <1>0, <1>4
  <2>2. text[q + (2 + j)] = W[2 + j]
    BY <1>3, <2>1
  <2>. QED
    BY <1>1, <2>1, <2>2
<1>8. ASSUME NEW j \in 1..g PROVE text[(q + 2 + h) + j] = TagText(item.category)[j]
  <2>1. 2 + h + j \in 1..Len(W) /\ q + (2 + h + j) = (q + 2 + h) + j
    BY <1>1, <1>4, SMTT(30)
  <2>2. text[q + (2 + h + j)] = W[2 + h + j]
    BY <1>3, <2>1
  <2>. QED
    BY <1>1, <2>1, <2>2
<1>. QED
  BY <1>0, <1>5, <1>6, <1>7, <1>8

LEMMA HeadRead ==
  ASSUME NEW carry, NEW text \in Text, NEW s \in State, ~Stopped(carry, s),
         s.place \in LineStarts \cup {"start", "begun"},
         NEW item \in Item, Plain(item), NEW q \in Nat, StandsAt(text, q, item)
  PROVE  \E t \in State :
           /\ Leads(carry, text, s, q + 1, t, q + HeadLen(item) + 1)
           /\ t.place = "header" /\ t.stop = s.stop
           /\ t.notes = Append(s.notes, Note(item.header, AsNote(item).category, NULL))
<1> DEFINE line == item.header
           category == item.category
           h == Len(line)
           x == TagText(category)
           g == Len(x)
<1>1. line \in Text /\ category \in Text \cup {NULL} /\ Len(text) \in Nat
  BY TextJoins DEF Item
<1>2. /\ h \in Nat /\ g \in Nat /\ q + (3 + h + g) <= Len(text)
      /\ text[q + 1] = Star /\ text[q + 2] = SP
      /\ \A j \in 1..h : text[(q + 2) + j] = line[j]
      /\ \A j \in 1..g : text[(q + 2 + h) + j] = x[j]
      /\ text[q + 2 + h + g + 1] = NL
  BY HeadStands
<1>3. Wordy(line) /\ h > 0 /\ line[h] \in PlainWords
  <2>1. PlainLines(line) /\ ~Has(line, {NL})
    BY DEF Plain
  <2>2. /\ Len(line) \in Nat \ {0}
        /\ \A i \in 1..Len(line) : line[i] \in PlainWords \cup {SP, NL}
        /\ \A i \in 1..Len(line) : line[i] = SP =>
              /\ i - 1 \in 1..Len(line) /\ i + 1 \in 1..Len(line)
              /\ line[i - 1] \in PlainWords /\ line[i + 1] \in PlainWords
    BY <1>1, <2>1, PlainIs
  <2>3. \A i \in 1..Len(line) : line[i] # NL
    BY <1>1, <2>1 DEF Has, Text
  <2>4. line # <<>>
    BY <2>2
  <2>5. line[h] # SP
    BY <2>2
  <2> DEFINE y == line
  <2>6. /\ Len(y) \in Nat \ {0}
        /\ \A i \in 1..Len(y) : y[i] \in PlainWords \cup {SP, NL}
        /\ \A i \in 1..Len(y) : y[i] = SP =>
              /\ i - 1 \in 1..Len(y) /\ i + 1 \in 1..Len(y)
              /\ y[i - 1] \in PlainWords /\ y[i + 1] \in PlainWords
        /\ \A i \in 1..Len(y) : y[i] # NL
        /\ y # <<>> /\ y[Len(y)] # SP
    BY <2>2, <2>3, <2>4, <2>5
  <2> HIDE DEF y
  <2>7. Wordy(y) /\ Len(y) > 0 /\ y[Len(y)] \in PlainWords
    BY <2>6 DEF Wordy
  <2>. QED
    BY <2>7 DEF y
<1>4. /\ IsLabel(category)
      /\ AsNote(item).category = IF x = <<>> THEN NULL ELSE category
  BY DEF Plain, AsNote, Item, IsLabel
<1>5. AtBol(text, q + 1)
  BY DEF StandsAt
<1> HIDE DEF line, category, x, h, g
<1> DEFINE i == q + 1
<1>6. /\ ~IsSkipped(text, i) /\ NextAt(text, i) = q + 2 + 1
      /\ TokenOf(text, i) \in Tok /\ TokenOf(text, i).kind = "STAR"
  <2>1. i \in 1..Len(text) /\ i + 1 <= Len(text) /\ i + 1 = q + 2 /\ i + 2 = q + 2 + 1
    <3>1. h \in Nat /\ g \in Nat /\ Len(text) \in Nat /\ q + (3 + h + g) <= Len(text)
      BY <1>1, <1>2, TextJoins
    <3>. QED
      BY <3>1
  <2>2. AtBol(text, i) /\ text[i] = Star /\ text[i + 1] = SP
    BY <1>2, <1>5, <2>1
  <2> HIDE DEF i
  <2>. QED
    BY <2>1, <2>2, StarAt
<1> DEFINE s1 == Step(carry, s, TokenOf(text, i))
<1>7. /\ s1 \in State /\ s1.place = "star" /\ s1.stop = s.stop /\ s1.notes = s.notes
  <2> HIDE DEF i
  <2>. QED
    BY <1>6, StarTaken
<1>8. Leads(carry, text, s, q + 1, s1, q + 2 + 1)
  <2>1. i \in 1..Len(text)
    BY <1>1, <1>2
  <2>2. Leads(carry, text, s, q + 1, s, i)
    BY DEF Leads
  <2>3. Leads(carry, text, s, q + 1, Move(carry, text, i, s), NextAt(text, i))
    BY <2>1, <2>2, LeadsOn
  <2>. QED
    BY <1>6, <2>3 DEF Move
<1> HIDE DEF s1
<1> DEFINE b == q + 2
<1>9. PICK t2 \in State :
         /\ Leads(carry, text, s1, b + 1, t2, b + h + 1)
         /\ t2.place = "headline" /\ t2.line = line
         /\ t2.notes = s1.notes /\ t2.stop = s1.stop
  <2>1. ~Stopped(carry, s1)
    BY <1>7 DEF Stopped
  <2>2. b \in Nat /\ b + Len(line) < Len(text) /\ h = Len(line)
    BY <1>1, <1>2, SMTT(30) DEF h
  <2>3. text[b + Len(line) + 1] \notin Glyphs
    <3>1. CASE x = <<>>
      <4>1. g = 0 /\ b + Len(line) + 1 = q + 2 + h + g + 1
        BY <1>2, <2>2, <3>1 DEF g
      <4>. QED
        BY <1>2, <4>1, WordsAre
    <3>2. CASE x # <<>>
      <4>1. x[1] = TAB /\ g = 4 + Len(category) /\ Len(category) \in Nat
        <5>1. /\ x = TagText(category)
              /\ TagText(category) # <<>> =>
                   /\ Len(category) \in Nat \ {0}
                   /\ Len(TagText(category)) = 4 + Len(category)
                   /\ TagText(category)[1] = TAB
          BY <1>1, <1>4, TagTextIs DEF x
        <5>. QED
          BY <3>2, <5>1 DEF g
      <4>2. 1 \in 1..g /\ b + Len(line) + 1 = q + 2 + h + 1
        BY <1>2, <2>2, <4>1
      <4>3. text[q + 2 + h + 1] = TAB
        BY <1>2, <4>1, <4>2
      <4>. QED
        BY <4>2, <4>3, WordsAre
    <3>. QED
      BY <3>1, <3>2
  <2>4. \A j \in 1..Len(line) : text[b + j] = line[j]
    BY <1>2, <2>2
  <2>5. LineStands(text, b, line)
    <3> HIDE DEF b
    <3>. QED
      BY <2>2, <2>3, <2>4 DEF LineStands
  <2> HIDE DEF b
  <2>6. \E t \in State :
           /\ Leads(carry, text, s1, b + 1, t, b + Len(line) + 1)
           /\ t.place = "headline"
           /\ t.line = line /\ t.notes = s1.notes /\ t.stop = s1.stop
    BY <1>1, <1>3, <1>7, <2>1, <2>2, <2>5, LineRead
  <2>. QED
    BY <2>2, <2>6
<1> DEFINE p == q + 2 + h
<1>10. PICK t3 \in State :
         /\ Leads(carry, text, t2, p + 1, t3, p + g + 1)
         /\ t3.place \in {"headline", "tagged"} /\ text[p + g] # NL
         /\ TagOf(t3) = IF x = <<>> THEN NULL ELSE category
         /\ t3.line = t2.line /\ t3.notes = t2.notes /\ t3.stop = t2.stop
  <2>1. ~Stopped(carry, t2)
    BY <1>7, <1>9 DEF Stopped
  <2>2. p \in Nat \ {0} /\ p + g + 1 <= Len(text) /\ text[p + g + 1] = NL
    BY <1>1, <1>2, SMTT(30)
  <2>3. text[p] # NL
    <3>1. h \in 1..h /\ text[(q + 2) + h] = line[h]
      BY <1>2, <1>3, SMTT(30)
    <3>. QED
      BY <1>3, <3>1, WordsAre
  <2>4. \A j \in 1..g : text[p + j] = x[j]
    BY <1>2
  <2>5. x = TagText(category) /\ g = Len(TagText(category))
    BY DEF x, g
  <2> HIDE DEF p
  <2>6. TagStands(text, p, category)
    BY <2>2, <2>3, <2>4, <2>5 DEF TagStands
  <2>7. IsLabel(category)
    BY <1>4
  <2>8. \E t \in State :
           /\ Leads(carry, text, t2, p + 1, t, p + Len(TagText(category)) + 1)
           /\ t.place \in {"headline", "tagged"} /\ text[p + Len(TagText(category))] # NL
           /\ TagOf(t) = IF TagText(category) = <<>> THEN NULL ELSE category
           /\ t.line = t2.line /\ t.notes = t2.notes /\ t.stop = t2.stop
    BY <1>1, <1>9, <2>1, <2>2, <2>6, <2>7, RestOfHeadRead
  <2>. QED
    BY <2>5, <2>8
<1> DEFINE e == p + g + 1
<1>11. e \in 1..Len(text) /\ e - 1 = p + g /\ e # 1 /\ text[e] = NL /\ q + 2 + 1 = b + 1 /\ b + h + 1 = p + 1
  BY <1>1, <1>2
<1>12. /\ ~IsSkipped(text, e) /\ NextAt(text, e) = e + 1
       /\ TokenOf(text, e) \in Tok /\ TokenOf(text, e).kind = "NEWLINE"
  <2>1. ~AtBol(text, e)
    BY <1>10, <1>11 DEF AtBol
  <2> HIDE DEF e
  <2>. QED
    BY <1>11, <2>1, LineEndAt
<1> DEFINE t == Step(carry, t3, TokenOf(text, e))
<1>13. /\ t \in State /\ t.place = "header" /\ t.stop = t3.stop
       /\ t.notes = Append(t3.notes, Note(t3.line, TagOf(t3), NULL))
  <2>1. ~Stopped(carry, t3)
    BY <1>7, <1>9, <1>10 DEF Stopped
  <2> HIDE DEF e
  <2>. QED
    BY <1>10, <1>12, <2>1, LineEndTaken, ZenonT(40)
<1>14. Leads(carry, text, s, q + 1, t, e + 1)
  <2>1. Leads(carry, text, s, q + 1, t2, p + 1)
    BY <1>8, <1>9, <1>11 DEF Leads
  <2>2. Leads(carry, text, s, q + 1, t3, e)
    BY <1>10, <2>1 DEF Leads
  <2> HIDE DEF e
  <2>3. Leads(carry, text, s, q + 1, Move(carry, text, e, t3), NextAt(text, e))
    BY <1>11, <2>2, LeadsOn
  <2>. QED
    BY <1>12, <2>3 DEF Move
<1>15. e + 1 = q + HeadLen(item) + 1
  <2>1. HeadLen(item) = 3 + h + g
    BY DEF HeadLen, h, g, line, x, category
  <2>. QED
    BY <1>1, <1>2, <2>1
<1> HIDE DEF t, e
<1>16. t.notes = Append(s.notes, Note(item.header, AsNote(item).category, NULL))
  <2>1. t3.line = item.header /\ t3.notes = s.notes
    BY <1>7, <1>9, <1>10 DEF line
  <2>2. TagOf(t3) = AsNote(item).category
    BY <1>4, <1>10
  <2>. QED
    BY <1>13, <2>1, <2>2
<1>. QED
  BY <1>7, <1>9, <1>10, <1>13, <1>14, <1>15, <1>16

\* A line added to the last note
LEMMA LastWithLast ==
  ASSUME NEW before \in Seq(Item), NEW note \in Item, NEW x \in Text
  PROVE  LastWith(Append(before, note), x) = Append(before, WithText(note, x))
<1> DEFINE m == Len(before) + 1
           a == Append(before, note)
           b == WithText(note, x)
           l == LastWith(a, x)
           r == Append(before, b)
<1>1. b \in Item
  BY WithTextTyped
<1>2. /\ m \in Nat /\ a \in Seq(Item) /\ Len(a) = m /\ a[m] = note
      /\ \A i \in 1..(m - 1) : a[i] = before[i]
  OBVIOUS
<1> HIDE DEF b
<1>3. /\ r \in Seq(Item) /\ Len(r) = m /\ r[m] = b
      /\ \A i \in 1..(m - 1) : r[i] = before[i]
  BY <1>1
<1> HIDE DEF a, r
<1>4. l = [a EXCEPT ![m] = b]
  BY <1>2 DEF LastWith, b
<1>5. l \in Seq(Item) /\ Len(l) = m /\ l[m] = b /\ \A i \in 1..(m - 1) : l[i] = a[i]
  BY <1>1, <1>2, <1>4
<1> HIDE DEF l
<1>6. \A i \in 1..m : l[i] = r[i]
  <2> TAKE i \in 1..m
  <2>1. CASE i = m
    BY <1>3, <1>5, <2>1
  <2>2. CASE i # m
    <3>1. i \in 1..(m - 1)
      BY <1>2, <2>2
    <3>. QED
      BY <1>2, <1>3, <1>5, <3>1
  <2>. QED
    BY <2>1, <2>2
<1> HIDE DEF m
<1>7. l = r
  BY <1>2, <1>3, <1>5, <1>6
<1>. QED
  BY <1>7 DEF l, r, a, b

\* The note when the parser has read its text up to a line end
NoteUpTo(note, y, c) == IF c = 0 THEN note ELSE [note EXCEPT !.text = SubSeq(y, 1, c - 1)]

LEMMA NoteGrows ==
  ASSUME NEW note \in Item, note.text = NULL, NEW y \in Text,
         NEW c \in 0..Len(y), c # 0 => y[c] = NL, NEW d \in c..Len(y)
  PROVE  WithText(NoteUpTo(note, y, c), SubSeq(y, c + 1, d)) = NoteUpTo(note, y, d + 1)
<1>1. Len(y) \in Nat /\ NULL \notin Text
  BY TextJoins, NullIsNothing
<1>2. d + 1 # 0 /\ (d + 1) - 1 = d
  BY <1>1
<1> DEFINE N == NoteUpTo(note, y, c)
           x == SubSeq(y, c + 1, d)
           all == SubSeq(y, 1, d)
<1>3. NoteUpTo(note, y, d + 1) = [note EXCEPT !.text = all]
  BY <1>2 DEF NoteUpTo
<1>4. CASE c = 0
  <2>1. WithText(note, x) = [note EXCEPT !.text = x]
    BY DEF WithText, Item
  <2>2. x = all /\ N = note
    BY <1>4 DEF NoteUpTo
  <2>. QED
    BY <1>3, <2>1, <2>2
<1>5. CASE c # 0
  <2> DEFINE b == SubSeq(y, 1, c - 1)
  <2>1. c \in 1..Len(y) /\ y[c] = NL
    BY <1>1, <1>5
  <2>2. b \in Text /\ (b \o <<NL>>) \o x = all
    BY <2>1, PartsJoin
  <2> HIDE DEF b, x, all
  <2>3. N = [note EXCEPT !.text = b]
    BY <1>5 DEF NoteUpTo, b
  <2>4. N.text = b /\ N.text # NULL
    BY <1>1, <2>2, <2>3 DEF Item
  <2>5. WithText(N, x) = [N EXCEPT !.text = (b \o <<NL>>) \o x]
    BY <2>4 DEF WithText
  <2>6. WithText(N, x) = [note EXCEPT !.text = all]
    BY <2>2, <2>3, <2>5 DEF Item
  <2>. QED
    BY <1>3, <2>6 DEF x
<1>. QED
  BY <1>4, <1>5

\* From a line start of a plain text to the end of that line
LEMMA LineOf ==
  ASSUME NEW y \in Text, PlainLines(y), NEW c \in 0..(Len(y) - 1), c # 0 => y[c] = NL,
         y[c + 1] # NL
  PROVE  \E e \in (c + 2)..(Len(y) + 1) :
           /\ e <= Len(y) => y[e] = NL
           /\ \A j \in (c + 1)..(e - 1) : y[j] # NL
           /\ Wordy(SubSeq(y, c + 1, e - 1))
<1> DEFINE n == Len(y)
           e == Past(y, c + 1, Symbols \ {NL})
           x == SubSeq(y, c + 1, e - 1)
<1>1. /\ n \in Nat \ {0} /\ c + 1 \in 1..n
      /\ \A i \in 1..n : y[i] \in PlainWords \cup {SP, NL}
      /\ \A i \in 1..n : y[i] = SP =>
           /\ i - 1 \in 1..n /\ i + 1 \in 1..n
           /\ y[i - 1] \in PlainWords /\ y[i + 1] \in PlainWords
  <2>1. /\ Len(y) \in Nat \ {0}
        /\ \A i \in 1..Len(y) : y[i] \in PlainWords \cup {SP, NL}
        /\ \A i \in 1..Len(y) : y[i] = SP =>
             /\ i - 1 \in 1..Len(y) /\ i + 1 \in 1..Len(y)
             /\ y[i - 1] \in PlainWords /\ y[i + 1] \in PlainWords
    BY PlainIs
  <2>. QED
    BY <2>1
<1>2. \A i \in 1..n : y[i] \in Symbols
  BY <1>1 DEF Text
<1>3. /\ e \in (c + 1)..(n + 1)
      /\ \A j \in (c + 1)..(e - 1) : y[j] \in Symbols \ {NL}
      /\ e <= n => y[e] \notin Symbols \ {NL}
  <2> DEFINE k == c + 1
  <2>1. k \in Nat \ {0} /\ k <= Len(y) + 1
    BY <1>1
  <2> HIDE DEF k
  <2>2. /\ Past(y, k, Symbols \ {NL}) \in k..(Len(y) + 1)
        /\ \A j \in k..(Past(y, k, Symbols \ {NL}) - 1) : y[j] \in Symbols \ {NL}
        /\ Past(y, k, Symbols \ {NL}) <= Len(y) => y[Past(y, k, Symbols \ {NL})] \notin Symbols \ {NL}
    BY <2>1, PastIs
  <2>. QED
    BY <2>2 DEF k
<1> HIDE DEF e
<1>4. e \in (c + 2)..(n + 1)
  <2>1. e # c + 1
    BY <1>1, <1>2, <1>3
  <2>. QED
    BY <1>1, <1>3, <2>1
<1>5. e <= n => y[e] = NL
  <2>1. e <= n => e \in 1..n
    BY <1>1, <1>4
  <2>. QED
    BY <1>2, <1>3, <2>1
<1>6. \A j \in (c + 1)..(e - 1) : y[j] # NL
  BY <1>3
<1>7. /\ x \in Text /\ Len(x) = e - 1 - c
      /\ \A k \in 1..(e - 1 - c) : x[k] = y[c + k]
  <2> DEFINE a == c + 1
             b == e - 1
  <2>1. /\ a \in 1..(Len(y) + 1) /\ b \in (a - 1)..Len(y) /\ b + 1 - a = e - 1 - c
        /\ \A k \in 1..(e - 1 - c) : a + k - 1 = c + k
    BY <1>1, <1>4
  <2> HIDE DEF a, b
  <2>2. /\ SubSeq(y, a, b) \in Text /\ Len(SubSeq(y, a, b)) = b + 1 - a
        /\ \A k \in 1..(b + 1 - a) : SubSeq(y, a, b)[k] = y[a + k - 1]
    BY <2>1, PartIs
  <2>3. SubSeq(y, a, b) = x
    BY DEF a, b
  <2>. QED
    BY <2>1, <2>2, <2>3
<1> HIDE DEF x
<1>8. NL \notin PlainWords
  BY WordsAre
<1>9. ASSUME NEW k \in 1..Len(x)
      PROVE  \/ x[k] \in PlainWords
             \/ /\ x[k] = SP /\ k - 1 \in 1..Len(x) /\ k + 1 \in 1..Len(x)
                /\ x[k - 1] \in PlainWords /\ x[k + 1] \in PlainWords
  <2> DEFINE i == c + k
  <2>1. /\ i \in 1..n /\ i \in (c + 1)..(e - 1) /\ x[k] = y[i]
        /\ (k - 1 \in 1..Len(x) => x[k - 1] = y[i - 1])
        /\ (k + 1 \in 1..Len(x) => x[k + 1] = y[i + 1])
        /\ (k - 1 \notin 1..Len(x) => i - 1 = c)
        /\ (k + 1 \notin 1..Len(x) => i + 1 = e)
    <3>1. i \in 1..n /\ i \in (c + 1)..(e - 1) /\ x[k] = y[i]
      BY <1>1, <1>4, <1>7
    <3>2. k - 1 \in 1..Len(x) => x[k - 1] = y[c + (k - 1)] /\ c + (k - 1) = i - 1
      BY <1>1, <1>4, <1>7
    <3>3. k + 1 \in 1..Len(x) => x[k + 1] = y[c + (k + 1)] /\ c + (k + 1) = i + 1
      BY <1>1, <1>4, <1>7
    <3>4. (k - 1 \notin 1..Len(x) => i - 1 = c) /\ (k + 1 \notin 1..Len(x) => i + 1 = e)
      BY <1>1, <1>4, <1>7
    <3>. QED
      BY <3>1, <3>2, <3>3, <3>4
  <2> HIDE DEF i
  <2>2. y[i] \in PlainWords \/ y[i] = SP
    BY <1>1, <1>6, <2>1
  <2>3. CASE y[i] = SP
    <3>1. /\ i - 1 \in 1..n /\ i + 1 \in 1..n
          /\ y[i - 1] \in PlainWords /\ y[i + 1] \in PlainWords
      BY <1>1, <2>1, <2>3
    <3>2. k - 1 \in 1..Len(x)
      <4>1. i - 1 = c => c # 0 /\ y[c] \in PlainWords
        BY <3>1
      <4>. QED
        BY <1>8, <2>1, <4>1
    <3>3. k + 1 \in 1..Len(x)
      <4>1. i + 1 = e => e <= n /\ y[e] \in PlainWords
        BY <3>1
      <4>. QED
        BY <1>5, <1>8, <2>1, <4>1
    <3>. QED
      BY <2>1, <2>3, <3>1, <3>2, <3>3
  <2>. QED
    BY <2>1, <2>2, <2>3
<1>10. x # <<>>
  <2>1. Len(x) > 0
    BY <1>1, <1>4, <1>7
  <2>. QED
    BY <2>1
<1>11. Wordy(x)
  BY <1>9, <1>10 DEF Wordy
<1>. QED
  BY <1>4, <1>5, <1>6, <1>11 DEF x

\* A text of several lines in another one behind a position, its last newline, and what follows
TextStands(text, p, y) ==
  /\ p + Len(y) + 1 <= Len(text)
  /\ \A j \in 1..Len(y) : text[p + j] = y[j]
  /\ text[p + Len(y) + 1] = NL
  /\ p + Len(y) + 2 <= Len(text) => text[p + Len(y) + 2] # NL

\* The parser between two lines of the text, when it has read c of its symbols
Between(carry, text, p, t, note, before, y, c, v) ==
  /\ v \in State
  /\ Leads(carry, text, t, p + 1, v, p + c + 1)
  /\ v.place = (IF c = 0 THEN "header" ELSE "text")
  /\ v.stop = t.stop
  /\ v.notes = Append(before, NoteUpTo(note, y, c))

\* One more line of it
LEMMA LineOfTextRead ==
  ASSUME NEW carry, NEW text \in Text, NEW t \in State, ~Stopped(carry, t),
         NEW note \in Item, note.text = NULL, NEW before \in Seq(Item),
         NEW y \in Text, PlainLines(y), NEW p \in Nat, TextStands(text, p, y),
         NEW c \in 0..Len(y), c # 0 => y[c] = NL, NEW v,
         Between(carry, text, p, t, note, before, y, c, v)
  PROVE  \E d \in c..Len(y), w \in State :
           /\ d + 1 <= Len(y) => y[d + 1] = NL
           /\ Between(carry, text, p, t, note, before, y, d + 1, w)
<1> DEFINE n == Len(y)
           N == NoteUpTo(note, y, c)
<1>0. /\ p + n + 1 <= Len(text)
      /\ \A j \in 1..n : text[p + j] = y[j]
      /\ text[p + n + 1] = NL
      /\ p + n + 2 <= Len(text) => text[p + n + 2] # NL
  BY DEF TextStands
<1>1. /\ v \in State /\ Leads(carry, text, t, p + 1, v, p + c + 1)
      /\ v.place = (IF c = 0 THEN "header" ELSE "text")
      /\ v.stop = t.stop /\ v.notes = Append(before, N)
      /\ ~Stopped(carry, v)
  BY DEF Between, Stopped
<1>2. /\ n \in Nat \ {0} /\ Len(text) \in Nat /\ y[1] # NL
      /\ \A i \in 2..n : y[i - 1] = NL /\ y[i] = NL => i < n /\ y[i + 1] # NL
  <2>1. /\ Len(y) \in Nat \ {0} /\ y[1] # NL
        /\ \A i \in 2..Len(y) : y[i - 1] = NL /\ y[i] = NL => i < Len(y) /\ y[i + 1] # NL
    BY PlainIs
  <2>. QED
    BY <2>1, TextJoins
<1>3. N \in Item
  <2>1. CASE c = 0
    BY <2>1 DEF NoteUpTo
  <2>2. CASE c # 0
    <3>1. c \in 1..Len(y) /\ c \in c..Len(y)
      BY <1>2, <2>2
    <3>2. SubSeq(y, 1, c - 1) \in Text
      BY <3>1, PartsJoin
    <3>. QED
      BY <2>2, <3>2 DEF NoteUpTo, Item
  <2>. QED
    BY <2>1, <2>2
\* The newline at p + d + 1 ends a line that is x.
<1>4. ASSUME NEW d \in c..n, NEW u \in State, ~Stopped(carry, u), NEW x \in Text,
             x = SubSeq(y, c + 1, d),
             Leads(carry, text, t, p + 1, u, p + d + 1), u.stop = t.stop,
             u.notes = Append(before, N), u.place \in {"text", "line"},
             x = IF u.place = "line" THEN u.line ELSE <<>>,
             text[p + d + 1] = NL,
             \/ ~AtBol(text, p + d + 1)
             \/ p + d + 1 < Len(text) => text[p + d + 2] # NL
      PROVE  \E w \in State : Between(carry, text, p, t, note, before, y, d + 1, w)
  <2> DEFINE i == p + d + 1
             w == Step(carry, u, TokenOf(text, i))
  <2>1. i \in 1..Len(text) /\ i + 1 = p + d + 2 /\ i + 1 = p + (d + 1) + 1
    BY <1>0, <1>2
  <2>2. text[i] = NL /\ (~AtBol(text, i) \/ (i < Len(text) => text[i + 1] # NL))
    BY <1>4, <2>1
  <2>3. Leads(carry, text, t, p + 1, u, i)
    BY <1>4
  <2> HIDE DEF i
  <2>4. /\ ~IsSkipped(text, i) /\ NextAt(text, i) = i + 1
        /\ TokenOf(text, i) \in Tok /\ TokenOf(text, i).kind = "NEWLINE"
    BY <2>1, <2>2, LineEndAt
  <2>5. /\ w \in State /\ w.place = "text" /\ w.stop = u.stop
        /\ w.notes = LastWith(u.notes, x)
    <3> DEFINE token == TokenOf(text, i)
    <3>1. token \in Tok /\ token.kind = "NEWLINE"
      BY <2>4
    <3>2. u.place \in {"headline", "tagged", "text", "line"} /\ u.place \notin {"headline", "tagged"}
      BY <1>4
    <3> HIDE DEF token
    <3>3. /\ Step(carry, u, token) \in State /\ Step(carry, u, token).place = "text"
          /\ Step(carry, u, token).notes
               = LastWith(u.notes, IF u.place = "line" THEN u.line ELSE <<>>)
          /\ Step(carry, u, token).stop = u.stop
      BY <1>4, <3>1, <3>2, LineEndTaken
    <3>4. x = IF u.place = "line" THEN u.line ELSE <<>>
      BY <1>4
    <3>5. w = Step(carry, u, token)
      BY DEF token
    <3> HIDE DEF w
    <3>. QED
      BY <3>3, <3>4, <3>5
  <2>6. Leads(carry, text, t, p + 1, w, i + 1)
    <3>1. Leads(carry, text, t, p + 1, Move(carry, text, i, u), NextAt(text, i))
      BY <2>1, <2>3, LeadsOn
    <3>. QED
      BY <2>4, <3>1 DEF Move
  <2> HIDE DEF w
  <2>7. w.notes = Append(before, NoteUpTo(note, y, d + 1))
    <3>1. LastWith(Append(before, N), x) = Append(before, WithText(N, x))
      BY <1>3, <1>4, LastWithLast
    <3>2. WithText(N, x) = NoteUpTo(note, y, d + 1)
      BY <1>4, NoteGrows
    <3>. QED
      BY <1>4, <2>5, <3>1, <3>2
  <2>8. d + 1 # 0 /\ w.stop = t.stop
    BY <1>2, <1>4, <2>5
  <2>9. Between(carry, text, p, t, note, before, y, d + 1, w)
    BY <2>1, <2>5, <2>6, <2>7, <2>8 DEF Between
  <2>. QED
    BY <2>5, <2>9
\* A blank line
<1>5. CASE text[p + c + 1] = NL
  <2>1. c # 0
    <3>1. c = 0 => text[p + 1] = y[1]
      BY <1>0, <1>2
    <3>2. c = 0 => p + c + 1 = p + 1
      OBVIOUS
    <3>. QED
      BY <1>2, <1>5, <3>1, <3>2
  <2>2. p + c + 1 < Len(text) => text[p + c + 2] # NL
    <3>1. CASE c = n
      <4>1. p + c + 2 = p + n + 2 /\ (p + c + 1 < Len(text) => p + n + 2 <= Len(text))
        BY <1>2, <3>1
      <4>. QED
        BY <1>0, <4>1
    <3>2. CASE c # n
      <4>1. c + 1 \in 2..n /\ p + c + 1 = p + (c + 1)
        BY <1>2, <2>1, <3>2
      <4>2. y[c + 1] = NL
        BY <1>0, <1>5, <4>1
      <4>3. (c + 1) - 1 = c /\ y[c] = NL
        BY <2>1
      <4>4. c + 1 < n /\ y[(c + 1) + 1] # NL
        BY <1>2, <4>1, <4>2, <4>3
      <4>5. (c + 1) + 1 \in 1..n /\ p + ((c + 1) + 1) = p + c + 2
        BY <1>2, <4>4
      <4>. QED
        BY <1>0, <4>4, <4>5
    <3>. QED
      BY <3>1, <3>2
  <2>3. SubSeq(y, c + 1, c) = <<>> /\ <<>> \in Text
    BY <1>2, TextJoins DEF Text
  <2>4. v.place = "text"
    BY <1>1, <2>1
  <2>5. \E w \in State : Between(carry, text, p, t, note, before, y, c + 1, w)
    <3> DEFINE x == SubSeq(y, c + 1, c)
    <3>0. c \in c..n
      BY <1>2
    <3>1. x \in Text /\ x = <<>> /\ c \in c..n
      BY <2>3, <3>0, Zenon
    <3>2. x = SubSeq(y, c + 1, c) /\ x = IF v.place = "line" THEN v.line ELSE <<>>
      BY <2>4, <3>1
    <3> HIDE DEF x
    <3>3. v.place \in {"text", "line"}
      BY <2>4
    <3>. QED
      BY <1>1, <1>4, <1>5, <2>2, <3>1, <3>2, <3>3
  <2>6. c + 1 <= n => y[c + 1] = NL
    <3>1. c + 1 <= n => c + 1 \in 1..n /\ p + (c + 1) = p + c + 1
      BY <1>2
    <3>. QED
      BY <1>0, <1>5, <3>1
  <2>7. c \in c..n
    BY <1>2
  <2>. QED
    BY <2>5, <2>6, <2>7
\* A line of words
<1>6. CASE text[p + c + 1] # NL
  <2>1. c \in 0..(n - 1) /\ y[c + 1] # NL
    <3>1. c # n
      BY <1>0, <1>6
    <3>2. c + 1 \in 1..n /\ p + (c + 1) = p + c + 1
      BY <1>2, <3>1
    <3>. QED
      BY <1>0, <1>2, <1>6, <3>1, <3>2
  <2>2. PICK e \in (c + 2)..(n + 1) :
          /\ e <= n => y[e] = NL
          /\ \A j \in (c + 1)..(e - 1) : y[j] # NL
          /\ Wordy(SubSeq(y, c + 1, e - 1))
    BY <2>1, LineOf
  <2> DEFINE d == e - 1
             x == SubSeq(y, c + 1, d)
             b == p + c
  <2>3. d \in c..n /\ d \in (c + 1)..n /\ d + 1 = e
    BY <1>2, <2>1
  <2>4. /\ x \in Text /\ Len(x) = d - c
        /\ \A k \in 1..(d - c) : x[k] = y[c + k]
    <3> DEFINE a == c + 1
    <3>1. /\ a \in 1..(Len(y) + 1) /\ d \in (a - 1)..Len(y) /\ d + 1 - a = d - c
          /\ \A k \in 1..(d - c) : a + k - 1 = c + k
      BY <1>2, <2>1, <2>3
    <3> HIDE DEF a, d
    <3>2. /\ SubSeq(y, a, d) \in Text /\ Len(SubSeq(y, a, d)) = d + 1 - a
          /\ \A k \in 1..(d + 1 - a) : SubSeq(y, a, d)[k] = y[a + k - 1]
      BY <3>1, PartIs
    <3>3. SubSeq(y, a, d) = x
      BY DEF a
    <3>. QED
      BY <3>1, <3>2, <3>3
  <2>5. Wordy(x)
    BY <2>2
  <2>6. text[p + d + 1] = NL
    <3>1. CASE e <= n
      <4>1. e \in 1..n /\ p + e = p + d + 1
        BY <1>2, <2>1, <2>3, <3>1
      <4>2. text[p + e] = y[e] /\ y[e] = NL
        BY <1>0, <2>2, <3>1, <4>1
      <4>. QED
        BY <4>1, <4>2
    <3>2. CASE e = n + 1
      <4>1. p + d + 1 = p + n + 1
        BY <1>2, <3>2
      <4>. QED
        BY <1>0, <4>1
    <3>3. e <= n \/ e = n + 1
      BY <1>2, <2>1, SMTT(30)
    <3>. QED
      BY <3>1, <3>2, <3>3
  <2> HIDE DEF d, x
  <2>7. b \in Nat /\ b + 1 = p + c + 1 /\ b + Len(x) + 1 = p + d + 1
    BY <1>2, <2>3, <2>4
  <2>8. LineStands(text, b, x)
    <3>1. b + Len(x) < Len(text)
      BY <1>0, <1>2, <2>3, <2>7
    <3>2. ASSUME NEW k \in 1..Len(x) PROVE text[b + k] = x[k]
      <4>1. c + k \in 1..n /\ p + (c + k) = b + k /\ k \in 1..(d - c)
        BY <1>2, <2>3, <2>4
      <4>2. text[p + (c + k)] = y[c + k]
        BY <1>0, <4>1
      <4>. QED
        BY <2>4, <4>1, <4>2
    <3>3. text[b + Len(x) + 1] \notin Glyphs
      BY <2>6, <2>7, WordsAre
    <3> HIDE DEF b
    <3>. QED
      BY <3>1, <3>2, <3>3 DEF LineStands
  <2>9. PICK u \in State :
          /\ Leads(carry, text, v, b + 1, u, b + Len(x) + 1)
          /\ u.place = "line"
          /\ u.line = x /\ u.notes = v.notes /\ u.stop = v.stop
    <3>1. v.place \in {"star", "header", "text"} /\ v.place # "star"
      BY <1>1
    <3>2. v \in State /\ ~Stopped(carry, v) /\ x \in Text
      BY <1>1, <2>4
    <3> HIDE DEF b
    <3>3. b \in Nat
      BY <2>7
    <3>. QED
      BY <2>5, <2>8, <3>1, <3>2, <3>3, LineRead
  <2>10. Leads(carry, text, t, p + 1, u, p + d + 1)
    BY <1>1, <2>7, <2>9 DEF Leads
  <2>11. ~AtBol(text, p + d + 1)
    <3>1. text[p + d] = y[d] /\ y[d] # NL
      <4>1. d \in 1..n /\ d \in (c + 1)..(e - 1)
        BY <1>2, <2>3
      <4>. QED
        BY <1>0, <2>2, <4>1
    <3>2. (p + d + 1) - 1 = p + d /\ p + d + 1 # 1
      BY <1>2, <2>3
    <3>. QED
      BY <3>1, <3>2 DEF AtBol
  <2>12. ~Stopped(carry, u) /\ u.stop = t.stop /\ u.notes = Append(before, N)
    BY <1>1, <2>9 DEF Stopped
  <2>13. \E w \in State : Between(carry, text, p, t, note, before, y, d + 1, w)
    BY <1>4, <2>3, <2>4, <2>6, <2>9, <2>10, <2>11, <2>12 DEF x
  <2>14. d + 1 <= n => y[d + 1] = NL
    BY <2>2, <2>3
  <2>. QED
    BY <2>3, <2>13, <2>14
<1>. QED
  BY <1>5, <1>6

\* The whole text
LEMMA TextRead ==
  ASSUME NEW carry, NEW text \in Text, NEW t \in State, ~Stopped(carry, t),
         NEW note \in Item, note.text = NULL, NEW before \in Seq(Item),
         NEW y \in Text, PlainLines(y), NEW p \in Nat, TextStands(text, p, y),
         Between(carry, text, p, t, note, before, y, 0, t)
  PROVE  \E u : Between(carry, text, p, t, note, before, y, Len(y) + 1, u)
<1> DEFINE n == Len(y)
           At(c, v) == Between(carry, text, p, t, note, before, y, c, v)
           J == {c \in 0..(n + 1) : (c \in 1..n => y[c] = NL) /\ \E v \in State : At(c, v)}
<1>1. n \in Nat
  BY TextJoins
<1>2. 0 \in J
  <2>1. At(0, t)
    OBVIOUS
  <2> HIDE DEF At
  <2>. QED
    BY <1>1, <2>1
<1>3. ASSUME NEW c \in J, c # n + 1
      PROVE  \E d \in J : d > c
  <2>1. c \in 0..n /\ (c # 0 => y[c] = NL)
    BY <1>1, <1>3
  <2>2. PICK v \in State : At(c, v)
    OBVIOUS
  <2>3. PICK d \in c..n, w \in State :
          /\ d + 1 <= n => y[d + 1] = NL
          /\ At(d + 1, w)
    BY <2>1, <2>2, LineOfTextRead
  <2> HIDE DEF At
  <2>4. d + 1 \in 0..(n + 1) /\ (d + 1 \in 1..n => d + 1 <= n) /\ d + 1 > c
    BY <1>1, <2>1
  <2>5. d + 1 \in J
    BY <2>3, <2>4
  <2>. QED
    BY <2>4, <2>5
<1>4. n + 1 \in J
  <2>1. J \in SUBSET (0..(n + 1)) /\ J # {} /\ n + 1 \in Nat
    BY <1>1, <1>2
  <2> HIDE DEF J
  <2> DEFINE m == n + 1
  <2>2. m \in Nat /\ J \in SUBSET (0..m) /\ \A c \in J : c # m => \E d \in J : d > c
    BY <1>3, <2>1
  <2> HIDE DEF m
  <2>3. m \in J
    BY <2>1, <2>2, Climbs
  <2>. QED
    BY <2>3 DEF m
<1>. QED
  BY <1>4

\* An item with all its lines gives its note, if no newline comes behind it.
ReadFrom(carry, text, s, q, item) ==
  LET n == q + Len(Written(item))
  IN  (n + 1 <= Len(text) => text[n + 1] # NL) =>
        \E u \in State :
          /\ Leads(carry, text, s, q + 1, u, n + 1)
          /\ u.place \in {"header", "text"} /\ u.stop = s.stop
          /\ u.notes = Append(s.notes, AsNote(item))

LEMMA ItemRead ==
  ASSUME NEW carry, NEW text \in Text, NEW s \in State, ~Stopped(carry, s),
         s.place \in LineStarts \cup {"start", "begun"},
         NEW item \in Item, Plain(item), NEW q \in Nat, StandsAt(text, q, item)
  PROVE  ReadFrom(carry, text, s, q, item)
<1> DEFINE W == Written(item)
           n == q + Len(W)
           h == Len(item.header)
           g == Len(TagText(item.category))
           y == item.text
           note == Note(item.header, AsNote(item).category, NULL)
<1> SUFFICES ASSUME n + 1 <= Len(text) => text[n + 1] # NL
             PROVE  \E u \in State :
                 /\ Leads(carry, text, s, q + 1, u, n + 1)
                 /\ u.place \in {"header", "text"} /\ u.stop = s.stop
                 /\ u.notes = Append(s.notes, AsNote(item))
  BY DEF ReadFrom
<1>1. /\ item.header \in Text /\ item.category \in Text \cup {NULL} /\ y \in Text \cup {NULL}
      /\ NULL \notin Text
      /\ item = [header |-> item.header, category |-> item.category, text |-> y]
  BY NullIsNothing DEF Item
<1>2. PICK t \in State :
        /\ Leads(carry, text, s, q + 1, t, q + HeadLen(item) + 1)
        /\ t.place = "header" /\ t.stop = s.stop
        /\ t.notes = Append(s.notes, note)
  BY HeadRead, ZenonT(40)
<1>3. HeadLen(item) = 3 + h + g
  BY DEF HeadLen
<1>4. note \in Item /\ note.text = NULL /\ AsNote(item) = [note EXCEPT !.text = y]
  <2>1. AsNote(item).category \in Text \cup {NULL}
    BY <1>1 DEF AsNote
  <2>2. AsNote(item) = [header |-> item.header, category |-> AsNote(item).category, text |-> y]
    BY <1>1 DEF AsNote
  <2>. QED
    BY <1>1, <2>1, <2>2 DEF Note, Item
<1>6. /\ h \in Nat /\ g \in Nat /\ W \in Text
      /\ Len(W) = 3 + h + g + (IF y = NULL THEN 0 ELSE Len(y) + 1)
      /\ W[3 + h + g] = NL
      /\ y # NULL => /\ \A j \in 1..Len(y) : W[3 + h + g + j] = y[j]
                     /\ W[3 + h + g + Len(y) + 1] = NL
  BY WrittenIs, ZenonT(40)
<1>7. /\ q + Len(W) <= Len(text) /\ Len(text) \in Nat
      /\ \A i \in 1..Len(W) : text[q + i] = W[i]
  BY TextJoins DEF StandsAt
<1> HIDE DEF W, h, g, y, note
<1>10. h \in Nat /\ g \in Nat
  BY <1>6
<1>8. CASE y = NULL
  <2>1. Len(W) = 3 + h + g + 0
    BY <1>6, <1>8
  <2>2. n + 1 = q + HeadLen(item) + 1
    BY <1>3, <1>10, <2>1
  <2>3. AsNote(item) = note
    BY <1>4, <1>8 DEF Item
  <2>. QED
    BY <1>2, <2>2, <2>3
<1>9. CASE y # NULL
  <2> DEFINE p == q + (3 + h + g)
  <2>1. y \in Text /\ PlainLines(y) /\ Len(y) \in Nat
    BY <1>1, <1>9, TextJoins DEF Plain, y
  <2>2. Len(W) = 3 + h + g + (Len(y) + 1)
    BY <1>6, <1>9
  <2>3. /\ p \in Nat /\ p + Len(y) + 1 <= Len(text)
        /\ p + 1 = q + HeadLen(item) + 1
        /\ p + Len(y) + 2 = n + 1
    <3>1. q + Len(W) <= Len(text) /\ Len(text) \in Nat
      BY <1>7
    <3>. QED
      BY <1>3, <1>10, <2>1, <2>2, <3>1
  <2>4. ASSUME NEW j \in 1..Len(y) PROVE text[p + j] = y[j]
    <3>1. 3 + h + g + j \in 1..Len(W) /\ q + (3 + h + g + j) = p + j
      BY <1>10, <2>1, <2>2
    <3>2. text[q + (3 + h + g + j)] = W[3 + h + g + j]
      BY <1>7, <3>1
    <3>. QED
      BY <1>6, <1>9, <3>1, <3>2
  <2>5. text[p + Len(y) + 1] = NL
    <3>1. 3 + h + g + Len(y) + 1 \in 1..Len(W) /\ q + (3 + h + g + Len(y) + 1) = p + Len(y) + 1
      BY <1>10, <2>1, <2>2
    <3>2. text[q + (3 + h + g + Len(y) + 1)] = W[3 + h + g + Len(y) + 1]
      BY <1>7, <3>1
    <3>. QED
      BY <1>6, <1>9, <3>1, <3>2
  <2>6. p + Len(y) + 2 <= Len(text) => text[p + Len(y) + 2] # NL
    BY <2>3
  <2> HIDE DEF p, n
  <2>7. TextStands(text, p, y)
    BY <2>3, <2>4, <2>5, <2>6 DEF TextStands
  <2>8. ~Stopped(carry, t) /\ s.notes \in Seq(Item)
    BY <1>2 DEF Stopped, State
  <2>9. PICK u \in State :
          /\ Leads(carry, text, t, p + 1, u, p + Len(y) + 2)
          /\ u.place = "text" /\ u.stop = t.stop
          /\ u.notes = Append(s.notes, [note EXCEPT !.text = y])
    <3>1. t \in State /\ t.place = "header" /\ t.notes = Append(s.notes, note)
      BY <1>2
    <3>2. p \in Nat /\ note \in Item /\ note.text = NULL /\ y \in Text /\ PlainLines(y)
      BY <1>4, <2>1, <2>3
    <3> DEFINE before == s.notes
    <3>3. before \in Seq(Item) /\ t.notes = Append(before, note)
      BY <2>8, <3>1
    <3>4. t \in State /\ t.place = "header" /\ ~Stopped(carry, t)
      BY <2>8, <3>1
    <3> HIDE DEF before
    <3>6. Between(carry, text, p, t, note, before, y, 0, t)
      <4>1. p + 0 + 1 = p + 1
        BY <3>2
      <4>. QED
        BY <3>3, <3>4, <4>1 DEF Between, Leads, NoteUpTo
    <3>5. PICK u : Between(carry, text, p, t, note, before, y, Len(y) + 1, u)
      BY <2>7, <3>2, <3>3, <3>4, <3>6, TextRead
    <3>7. Len(y) + 1 # 0 /\ (Len(y) + 1) - 1 = Len(y) /\ p + (Len(y) + 1) + 1 = p + Len(y) + 2
      BY <2>1, <3>2
    <3>8. NoteUpTo(note, y, Len(y) + 1) = [note EXCEPT !.text = y]
      <4>1. SubSeq(y, 1, Len(y)) = y
        BY <2>1 DEF Text
      <4>. QED
        BY <3>7, <4>1 DEF NoteUpTo
    <3>. QED
      BY <3>5, <3>7, <3>8 DEF Between, before
  <2>10. Leads(carry, text, s, q + 1, u, n + 1)
    BY <1>2, <2>3, <2>9 DEF Leads
  <2>. QED
    BY <1>2, <1>4, <2>9, <2>10
<1>. QED
  BY <1>8, <1>9

\* Another note follows this one, or its headline does, or nothing can.
IsOver(m, s) ==
  /\ m <= Len(s.notes)
  /\ Len(s.notes) > m \/ s.place \in InHeadline \cup {"error"}

NoteIsKept(carry, text, from, first, m) ==
  LET t == Over(carry, from, Scan(text)[first])
  IN  IsOver(m, t) /\ t.notes[m] = from.notes[m]

\* Such a note stays as it is.
LEMMA NoteStays ==
  ASSUME NEW carry, NEW text \in Text, NEW from \in State, NEW first \in 1..(Len(text) + 1),
         NEW m \in Nat \ {0}, IsOver(m, from)
  PROVE  NoteIsKept(carry, text, from, first, m)
<1> DEFINE N == from.notes[m]
           Stays(s) == IsOver(m, s) /\ s.notes[m] = N
           I == {z \in State \X (1..(Len(text) + 1)) : Stays(z[1])}
<1> HIDE DEF N
<1>1. <<from, first>> \in I
  BY DEF N
<1>2. ASSUME NEW s \in State, Stays(s), NEW token \in Tok
      PROVE  Stays(Take(s, token))
  <2> DEFINE p == Shift(s.place, token.kind)
             t == Take(s, token)
  <2>1. Moves(s.place, token.kind, p)
    BY ShiftIs DEF State, Tok
  <2> HIDE DEF p
  <2>2. /\ t.place = IF p = "dated" /\ IsRefused(s.date) THEN "start" ELSE p
        /\ t.notes = IF p = "header" THEN Append(s.notes, Note(s.line, TagOf(s), NULL))
                     ELSE IF p = "text"
                     THEN LastWith(s.notes, IF s.place = "line" THEN s.line ELSE <<>>)
                     ELSE s.notes
    BY TakeIs DEF p
  <2>3. s.notes \in Seq(Item) /\ Len(s.notes) \in Nat
    BY DEF State
  <2>8. /\ m <= Len(s.notes) /\ s.notes[m] = N
        /\ Len(s.notes) > m \/ s.place \in InHeadline \cup {"error"}
    BY <1>2 DEF IsOver
  <2>4. t.notes \in Seq(Item)
    BY TakeTyped DEF State
  <2> SUFFICES Stays(t)
    OBVIOUS
  <2> HIDE DEF t
  <2>5. CASE p = "header"
    <3> DEFINE x == Note(s.line, TagOf(s), NULL)
    <3> HIDE DEF x
    <3>1. t.notes = Append(s.notes, x)
      BY <2>2, <2>5 DEF x
    <3>2. Len(t.notes) = Len(s.notes) + 1 /\ \A k \in 1..Len(s.notes) : t.notes[k] = s.notes[k]
      BY <2>3, <3>1
    <3>3. m \in 1..Len(s.notes)
      BY <2>8, <2>3
    <3>. QED
      BY <2>8, <2>3, <3>2, <3>3 DEF IsOver
  <2>6. CASE p = "text"
    <3>1. Len(s.notes) > m
      <4>1. s.place \in {"line", "text"}
        BY <2>1, <2>6 DEF Moves
      <4>. QED
        BY <2>8, <4>1 DEF InHeadline
    <3> DEFINE x == IF s.place = "line" THEN s.line ELSE <<>>
    <3> HIDE DEF x
    <3>2. t.notes = [s.notes EXCEPT ![Len(s.notes)] = WithText(@, x)]
      BY <2>2, <2>6 DEF LastWith, x
    <3>3. Len(t.notes) = Len(s.notes)
      BY <2>3, <2>4, <3>2
    <3>4. t.notes[m] = s.notes[m]
      <4>1. m \in 1..Len(s.notes) /\ m # Len(s.notes)
        BY <2>3, <3>1
      <4>. QED
        BY <2>3, <3>2, <4>1
    <3>. QED
      BY <2>8, <3>1, <3>3, <3>4 DEF IsOver
  <2>7. CASE p \notin {"header", "text"}
    <3>1. t.notes = s.notes
      BY <2>2, <2>7
    <3>2. s.place \in InHeadline \cup {"error"} => p \in InHeadline \cup {"error"}
      BY <2>1, <2>7 DEF Moves, InHeadline, Places, LineStarts
    <3>3. p \in InHeadline \cup {"error"} => t.place = p
      BY <2>2 DEF InHeadline
    <3>. QED
      BY <2>8, <3>1, <3>2, <3>3 DEF IsOver
  <2>. QED
    BY <2>5, <2>6, <2>7
<1>3. ASSUME NEW s \in State, NEW i \in 1..Len(text), <<s, i>> \in I
      PROVE  <<Move(carry, text, i, s), NextAt(text, i)>> \in I
  <2>1. Move(carry, text, i, s) \in State /\ NextAt(text, i) \in 1..(Len(text) + 1)
    BY MoveTyped
  <2>2. Stays(s)
    BY <1>3
  <2> HIDE DEF Stays
  <2>3. Stays(Move(carry, text, i, s))
    <3>1. CASE IsSkipped(text, i)
      BY <2>2, <3>1 DEF Move
    <3>2. CASE ~IsSkipped(text, i)
      <4>1. TokenOf(text, i) \in Tok
        BY <3>2, NextIs
      <4>. QED
        BY <1>2, <2>2, <3>2, <4>1 DEF Move, Step
    <3>. QED
      BY <3>1, <3>2
  <2>. QED
    BY <2>1, <2>3
<1>4. <<Over(carry, from, Scan(text)[first]), Len(text) + 1>> \in I
  <2>1. I \in SUBSET (State \X (1..(Len(text) + 1)))
    OBVIOUS
  <2> HIDE DEF I
  <2>. QED
    BY <1>1, <1>3, <2>1, Walk
<1>. QED
  BY <1>4 DEF N, NoteIsKept

\* What comes behind an item, a headline or a lone star, does not change its note.
LEMMA NextLeavesIt ==
  ASSUME NEW carry, NEW text \in Text, NEW u \in State, ~Stopped(carry, u),
         u.place \in {"header", "text"}, Len(u.notes) # 0,
         NEW i \in 1..(Len(text) + 1), AtBol(text, i),
         i <= Len(text) => text[i] = Star,
         i < Len(text) => text[i + 1] = SP
  PROVE  LET t == Over(carry, u, Scan(text)[i])
             m == Len(u.notes)
         IN  m <= Len(t.notes) /\ t.notes[m] = u.notes[m]
<1> DEFINE m == Len(u.notes)
<1>1. /\ Len(text) \in Nat /\ u.notes \in Seq(Item) /\ m \in Nat \ {0}
      /\ Scan(text)[Len(text) + 1] = <<>>
  BY TextJoins, ScanIs DEF State
<1>2. CASE i = Len(text) + 1
  <2>1. Over(carry, u, Scan(text)[i]) = u
    BY <1>1, <1>2, OverEmpty
  <2>. QED
    BY <1>1, <2>1
<1>3. CASE i = Len(text)
  <2>1. i \in 1..Len(text) /\ NextAt(text, i) = Len(text) + 1
    <3>1. i \in 1..Len(text)
      BY <1>1, <1>3
    <3>2. NextAt(text, i) \in (i + 1)..(Len(text) + 1)
      BY <3>1, NextIs
    <3>. QED
      BY <1>1, <1>3, <3>1, <3>2
  <2> DEFINE t == Move(carry, text, i, u)
  <2>2. Over(carry, u, Scan(text)[i]) = t
    <3>1. Over(carry, u, Scan(text)[i]) = Over(carry, t, Scan(text)[NextAt(text, i)])
      BY <2>1, MoveIs
    <3> HIDE DEF t
    <3>. QED
      BY <1>1, <2>1, <3>1, OverEmpty
  <2>3. t.notes = u.notes
    <3>1. CASE IsSkipped(text, i)
      BY <3>1 DEF Move
    <3>2. CASE ~IsSkipped(text, i)
      <4> DEFINE token == TokenOf(text, i)
                 p == Shift(u.place, token.kind)
      <4>1. token \in Tok
        BY <2>1, <3>2, NextIs
      <4>2. token.kind # "STAR"
        <5>1. i \notin Headings(text)
          BY <1>1, <1>3 DEF Headings
        <5>. QED
          BY <2>1, <3>2, <5>1, StarIs
      <4>3. token.kind # "NEWLINE"
        <5>1. text[i] # NL
          BY <1>3, <2>1 DEF Star, NL
        <5>. QED
          BY <2>1, <3>2, <5>1, DateIs
      <4>4. t = Take(u, token)
        BY <3>2 DEF Move, Step, Stopped
      <4> HIDE DEF token
      <4>5. Moves(u.place, token.kind, p)
        BY <4>1, ShiftIs DEF State, Tok
      <4> HIDE DEF p
      <4>6. Take(u, token).notes
              = IF p = "header" THEN Append(u.notes, Note(u.line, TagOf(u), NULL))
                ELSE IF p = "text"
                THEN LastWith(u.notes, IF u.place = "line" THEN u.line ELSE <<>>)
                ELSE u.notes
        BY <4>1, TakeIs DEF p
      <4>7. p # "header" /\ p # "text"
        BY <4>3, <4>5 DEF Moves
      <4> HIDE DEF t
      <4>. QED
        BY <4>4, <4>6, <4>7
    <3>. QED
      BY <3>1, <3>2
  <2> HIDE DEF t
  <2>. QED
    BY <1>1, <2>2, <2>3
<1>4. CASE i < Len(text)
  <2>1. i \in 1..Len(text) /\ i + 1 <= Len(text) /\ text[i] = Star /\ text[i + 1] = SP
    BY <1>1, <1>4
  <2>2. /\ ~IsSkipped(text, i) /\ NextAt(text, i) = i + 2
        /\ TokenOf(text, i) \in Tok /\ TokenOf(text, i).kind = "STAR"
    BY <2>1, StarAt
  <2> DEFINE v == Step(carry, u, TokenOf(text, i))
  <2>3. v \in State /\ v.place = "star" /\ v.notes = u.notes
    <3>1. u.place \in LineStarts \cup {"start", "begun"}
      BY DEF LineStarts
    <3>. QED
      BY <2>2, <3>1, StarTaken
  <2>4. Over(carry, u, Scan(text)[i]) = Over(carry, v, Scan(text)[i + 2])
    <3>1. Over(carry, u, Scan(text)[i])
            = Over(carry, Move(carry, text, i, u), Scan(text)[NextAt(text, i)])
      BY <2>1, MoveIs
    <3>. QED
      BY <2>2, <3>1 DEF Move
  <2> HIDE DEF v
  <2>5. i + 2 \in 1..(Len(text) + 1) /\ v.place \in InHeadline \cup {"error"}
    BY <1>1, <2>1, <2>3 DEF InHeadline
  <2> DEFINE k == i + 2
  <2> HIDE DEF k
  <2> DEFINE t == Over(carry, v, Scan(text)[k])
  <2>6. m \in Nat \ {0} /\ m <= Len(v.notes)
    BY <1>1, <2>3
  <2> HIDE DEF m
  <2>7. m <= Len(t.notes) /\ t.notes[m] = v.notes[m]
    <3>1. k \in 1..(Len(text) + 1)
      BY <2>5 DEF k
    <3>2. IsOver(m, v)
      BY <2>5, <2>6 DEF IsOver
    <3>3. v \in State
      BY <2>3
    <3> HIDE DEF t
    <3>4. NoteIsKept(carry, text, v, k, m)
      BY <2>6, <3>1, <3>2, <3>3, NoteStays
    <3>5. IsOver(m, t) /\ t.notes[m] = v.notes[m]
      BY <3>4 DEF NoteIsKept, t
    <3>. QED
      BY <3>5 DEF IsOver
  <2> HIDE DEF t
  <2>. QED
    BY <2>3, <2>4, <2>7 DEF m, t, k
<1>. QED
  BY <1>1, <1>2, <1>3, <1>4

\* Every item as it is written ends with a newline.
LEMMA WrittenEnds ==
  ASSUME NEW item \in Item
  PROVE  /\ Written(item) \in Text /\ Len(Written(item)) \in Nat \ {0, 1}
         /\ Written(item)[Len(Written(item))] = NL
<1> DEFINE W == Written(item)
           h == Len(item.header)
           g == Len(TagText(item.category))
           y == item.text
<1>1. /\ h \in Nat /\ g \in Nat /\ W \in Text
      /\ Len(W) = 3 + h + g + (IF y = NULL THEN 0 ELSE Len(y) + 1)
      /\ W[3 + h + g] = NL
      /\ y # NULL => W[3 + h + g + Len(y) + 1] = NL
  BY WrittenIs
<1>2. y \in Text \cup {NULL}
  BY DEF Item
<1>3. y # NULL => Len(y) \in Nat
  BY <1>2, TextJoins
<1> HIDE DEF W, h, g, y
<1>4. h \in Nat /\ g \in Nat
  BY <1>1
<1>5. CASE y = NULL
  <2>1. Len(W) = 3 + h + g + 0
    BY <1>1, <1>5
  <2>2. Len(W) = 3 + h + g /\ Len(W) \in Nat \ {0, 1}
    BY <1>4, <2>1
  <2>. QED
    BY <1>1, <2>2 DEF W
<1>6. CASE y # NULL
  <2>1. Len(W) = 3 + h + g + (Len(y) + 1)
    BY <1>1, <1>6
  <2>2. Len(W) = 3 + h + g + Len(y) + 1 /\ Len(W) \in Nat \ {0, 1}
    BY <1>3, <1>4, <1>6, <2>1
  <2>. QED
    BY <1>1, <1>6, <2>2 DEF W
<1>. QED
  BY <1>5, <1>6

\* An item stands in a text, and behind it, if anything, a headline or its star.
FoundAt(text, k, item) ==
  LET n == k + Len(Written(item))
  IN  /\ StandsAt(text, k, item)
      /\ n < Len(text) => text[n + 1] = Star
      /\ n + 1 < Len(text) => text[n + 2] = SP

\* An error is one until the end.
LEMMA ErrorStays ==
  ASSUME NEW carry, NEW text \in Text, NEW from \in State, NEW first \in 1..(Len(text) + 1),
         from.place = "error"
  PROVE  Over(carry, from, Scan(text)[first]).place = "error"
<1> DEFINE I == {z \in State \X (1..(Len(text) + 1)) : z[1].place = "error"}
<1>1. ASSUME NEW s \in State, NEW i \in 1..Len(text), <<s, i>> \in I
      PROVE  <<Move(carry, text, i, s), NextAt(text, i)>> \in I
  <2>1. Move(carry, text, i, s) = s
    BY <1>1 DEF Move, Step
  <2>2. NextAt(text, i) \in 1..(Len(text) + 1)
    BY MoveTyped
  <2>. QED
    BY <1>1, <2>1, <2>2
<1>2. <<from, first>> \in I /\ I \in SUBSET (State \X (1..(Len(text) + 1)))
  OBVIOUS
<1>3. <<Over(carry, from, Scan(text)[first]), Len(text) + 1>> \in I
  <2> HIDE DEF I
  <2>. QED
    BY <1>1, <1>2, Walk
<1>. QED
  BY <1>3

\* A headline that begins in the middle of an entry is an error.
LEMMA StarInAnEntry ==
  ASSUME NEW carry, NEW text \in Text, NEW s \in State, ~Stopped(carry, s),
         NEW i \in 1..Len(text), i + 1 <= Len(text), AtBol(text, i), text[i] = Star
  PROVE  text[i + 1] = SP /\ s.place \notin LineStarts \cup {"start", "begun"} =>
           Over(carry, s, Scan(text)[i]).place = "error"
<1> SUFFICES ASSUME text[i + 1] = SP, s.place \notin LineStarts \cup {"start", "begun"}
             PROVE  Over(carry, s, Scan(text)[i]).place = "error"
  OBVIOUS
<1>1. /\ ~IsSkipped(text, i) /\ NextAt(text, i) = i + 2
      /\ TokenOf(text, i) \in Tok /\ TokenOf(text, i).kind = "STAR"
  BY StarAt
<1> DEFINE token == TokenOf(text, i)
           t == Step(carry, s, token)
<1> HIDE DEF token
<1>2. token \in Tok /\ token.kind = "STAR"
  BY <1>1 DEF token
<1>3. t \in State /\ t.place = "error"
  <2>1. CASE s.place = "error"
    BY <2>1 DEF Step
  <2>2. CASE s.place # "error"
    <3>1. t = Take(s, token)
      BY <2>2 DEF Step, Stopped
    <3>2. Shift(s.place, token.kind) = "error"
      BY <1>2 DEF Shift, LineStarts
    <3> DEFINE p == Shift(s.place, token.kind)
    <3>3. Take(s, token).place = IF p = "dated" /\ IsRefused(s.date) THEN "start" ELSE p
      BY <1>2, TakeIs
    <3>4. Take(s, token) \in State
      BY <1>2, TakeTyped
    <3>. QED
      BY <3>1, <3>2, <3>3, <3>4
  <2>. QED
    BY <2>1, <2>2
<1>4. Over(carry, s, Scan(text)[i]) = Over(carry, t, Scan(text)[NextAt(text, i)])
  <2>1. Over(carry, s, Scan(text)[i])
          = Over(carry, Move(carry, text, i, s), Scan(text)[NextAt(text, i)])
    BY MoveIs
  <2>. QED
    BY <1>1, <2>1 DEF Move, token
<1> DEFINE k == NextAt(text, i)
<1>5. k \in 1..(Len(text) + 1)
  BY MoveTyped
<1> HIDE DEF t, k
<1>6. Over(carry, t, Scan(text)[k]).place = "error"
  BY <1>3, <1>5, ErrorStays, Zenon
<1>. QED
  BY <1>4, <1>6 DEF k

\* What is in front of a position of a text, and what is behind it
LEMMA PartsOf ==
  ASSUME NEW text \in Text, NEW k \in 0..Len(text)
  PROVE  LET a == SubSeq(text, 1, k)
             b == SubSeq(text, k + 1, Len(text))
         IN  /\ a \in Text /\ Len(a) = k /\ \A i \in 1..k : a[i] = text[i]
             /\ b \in Text /\ Len(b) = Len(text) - k
             /\ \A i \in 1..(Len(text) - k) : b[i] = text[k + i]
             /\ a \o b = text
<1> DEFINE a == SubSeq(text, 1, k)
           b == SubSeq(text, k + 1, Len(text))
           n == Len(text)
           z == a \o b
<1>1. n \in Nat
  BY TextJoins
<1>2. a \in Text /\ Len(a) = k /\ \A i \in 1..k : a[i] = text[i]
  BY <1>1 DEF Text
<1>3. b \in Text /\ Len(b) = n - k /\ \A i \in 1..(n - k) : b[i] = text[k + i]
  BY <1>1 DEF Text
<1> HIDE DEF a, b
<1>4. /\ z \in Text /\ Len(z) = Len(a) + Len(b)
      /\ \A i \in 1..Len(a) : z[i] = a[i]
      /\ \A i \in 1..Len(b) : z[Len(a) + i] = b[i]
  BY <1>2, <1>3, JoinIs
<1> HIDE DEF z
<1>5. \A i \in 1..n : z[i] = text[i]
  <2> TAKE i \in 1..n
  <2>1. CASE i <= k
    <3>1. i \in 1..k
      BY <2>1
    <3>. QED
      BY <1>2, <1>4, <3>1
  <2>2. CASE i > k
    <3>1. i - k \in 1..(n - k) /\ k + (i - k) = i
      BY <1>1, <2>2
    <3>2. z[k + (i - k)] = b[i - k] /\ b[i - k] = text[k + (i - k)]
      BY <1>2, <1>3, <1>4, <3>1
    <3>. QED
      BY <3>1, <3>2
  <2>. QED
    BY <1>1, <2>1, <2>2
<1>6. Len(z) = n
  BY <1>1, <1>2, <1>3, <1>4
<1>7. z = text
  BY <1>4, <1>5, <1>6 DEF Text
<1>. QED
  BY <1>2, <1>3, <1>7 DEF a, b, z

\* Plain text has nothing that CP1251 lacks.
LEMMA NothingForeign ==
  ASSUME NEW y \in Text, PlainLines(y)
  PROVE  ToCp1251(y) = y
<1>1. \A i \in 1..Len(y) : y[i] \in PlainWords \cup {SP, NL}
  BY PlainIs
<1>2. \A x \in PlainWords \cup {SP, NL} : x \notin Foreign
  <2>1. \A x \in PlainWords : x \notin Foreign
    BY SymbolsDiffer DEF PlainWords
  <2>2. SP \notin Glyphs /\ NL \notin Glyphs
    BY SymbolsDiffer DEF Blanks
  <2>3. Foreign \subseteq Glyphs
    BY DEF Glyphs
  <2>. QED
    BY <2>1, <2>2, <2>3
<1>3. DOMAIN y = 1..Len(y)
  BY DEF Text
<1>4. ~Has(y, Foreign)
  BY <1>1, <1>2, <1>3 DEF Has
<1>. QED
  BY <1>4 DEF ToCp1251

\* The note of a plain item is the item.
LEMMA PlainNote ==
  ASSUME NEW item \in Item, Plain(item)
  PROVE  Note(ToCp1251(AsNote(item).header), AsNote(item).category,
              ToCp1251(AsNote(item).text)) = AsNote(item)
<1>1. item.header \in Text /\ item.text \in Text \cup {NULL}
  BY DEF Item
<1>2. ToCp1251(item.header) = item.header
  BY <1>1, NothingForeign DEF Plain
<1>3. ToCp1251(item.text) = item.text
  <2>1. CASE item.text = NULL
    BY <2>1 DEF ToCp1251
  <2>2. CASE item.text # NULL
    BY <1>1, <2>2, NothingForeign DEF Plain
  <2>. QED
    BY <2>1, <2>2
<1> DEFINE c == IF TagText(item.category) = <<>> THEN NULL ELSE item.category
<1>4. AsNote(item) = [header |-> item.header, category |-> c, text |-> item.text]
  BY DEF AsNote, Item
<1> HIDE DEF c
<1>. QED
  BY <1>2, <1>3, <1>4 DEF Note

\* What stands in a file stands in what the scanner reads, behind the leftover.
LEMMA FoundBehind ==
  ASSUME NEW carry \in Text, AtLineStart(carry), NEW text \in Text, NEW item \in Item,
         NEW k \in Nat, FoundAt(text, k, item)
  PROVE  FoundAt(carry \o text, Len(carry) + k, item)
<1> DEFINE all == carry \o text
           c == Len(carry)
           w == Len(Written(item))
<1>1. /\ all \in Text /\ c \in Nat /\ Len(text) \in Nat /\ Len(all) = c + Len(text)
      /\ \A i \in 1..c : all[i] = carry[i]
      /\ \A i \in 1..Len(text) : all[c + i] = text[i]
  BY JoinIs
<1>2. w \in Nat \ {0, 1}
  BY WrittenEnds
<1>3. /\ k + w <= Len(text) /\ AtBol(text, k + 1)
      /\ \A i \in 1..w : text[k + i] = Written(item)[i]
      /\ k + w < Len(text) => text[k + w + 1] = Star
      /\ k + w + 1 < Len(text) => text[k + w + 2] = SP
  BY DEF FoundAt, StandsAt
<1>4. carry = <<>> \/ carry[c] = NL
  BY DEF AtLineStart, Last
<1>5. carry = <<>> => c = 0
  OBVIOUS
<1> HIDE DEF all, c, w
<1>6. c + k + w <= Len(all)
  BY <1>1, <1>2, <1>3
<1>7. AtBol(all, c + k + 1)
  <2>1. CASE k = 0
    BY <1>1, <1>4, <1>5, <2>1 DEF AtBol
  <2>2. CASE k # 0
    <3>1. text[k] = NL /\ k \in 1..Len(text)
      BY <1>1, <1>2, <1>3, <2>2 DEF AtBol
    <3>2. all[c + k] = NL
      BY <1>1, <3>1
    <3>. QED
      BY <1>1, <3>2 DEF AtBol
  <2>. QED
    BY <2>1, <2>2
<1>8. ASSUME NEW i \in 1..w PROVE all[c + k + i] = Written(item)[i]
  <2>1. k + i \in 1..Len(text) /\ c + (k + i) = c + k + i
    BY <1>1, <1>2, <1>3
  <2>2. all[c + (k + i)] = text[k + i]
    BY <1>1, <2>1
  <2>. QED
    BY <1>3, <2>1, <2>2
<1>9. c + k + w < Len(all) => all[c + k + w + 1] = Star
  <2> SUFFICES ASSUME c + k + w < Len(all) PROVE all[c + k + w + 1] = Star
    OBVIOUS
  <2>1. k + w + 1 \in 1..Len(text) /\ k + w < Len(text) /\ c + (k + w + 1) = c + k + w + 1
    BY <1>1, <1>2
  <2>2. all[c + (k + w + 1)] = text[k + w + 1]
    BY <1>1, <2>1
  <2>. QED
    BY <1>3, <2>1, <2>2
<1>10. c + k + w + 1 < Len(all) => all[c + k + w + 2] = SP
  <2> SUFFICES ASSUME c + k + w + 1 < Len(all) PROVE all[c + k + w + 2] = SP
    OBVIOUS
  <2>1. k + w + 2 \in 1..Len(text) /\ k + w + 1 < Len(text) /\ c + (k + w + 2) = c + k + w + 2
    BY <1>1, <1>2
  <2>2. all[c + (k + w + 2)] = text[k + w + 2]
    BY <1>1, <2>1
  <2>. QED
    BY <1>3, <2>1, <2>2
<1>. QED
  BY <1>6, <1>7, <1>8, <1>9, <1>10 DEF FoundAt, StandsAt, all, c, w

\* The leftover and the part of a file before a position
LEMMA FrontOf ==
  ASSUME NEW carry \in Text, NEW text \in Text, NEW k \in 0..Len(text)
  PROVE  LET a == carry \o SubSeq(text, 1, k)
             b == SubSeq(text, k + 1, Len(text))
         IN  /\ a \in Text /\ b \in Text /\ Len(a) = Len(carry) + k
             /\ a \o b = carry \o text
             /\ AtBol(carry \o text, Len(carry) + k + 1) => AtLineStart(a)
<1> DEFINE p == SubSeq(text, 1, k)
           b == SubSeq(text, k + 1, Len(text))
           a == carry \o p
           all == carry \o text
<1>1. p \in Text /\ Len(p) = k /\ b \in Text /\ p \o b = text
  BY PartsOf
<1> HIDE DEF p, b
<1>2. /\ a \in Text /\ Len(carry) \in Nat /\ Len(a) = Len(carry) + k
  BY <1>1, JoinIs
<1>3. a \o b = all
  BY <1>1, JoinsAssociate, ZenonT(40)
<1> HIDE DEF a, all
<1>4. \A i \in 1..Len(a) : all[i] = a[i]
  <2>1. \A i \in 1..Len(a) : (a \o b)[i] = a[i]
    BY <1>1, <1>2, JoinIs
  <2>. QED
    BY <1>3, <2>1
<1>5. AtBol(all, Len(a) + 1) => AtLineStart(a)
  <2> SUFFICES ASSUME AtBol(all, Len(a) + 1) PROVE AtLineStart(a)
    OBVIOUS
  <2>1. CASE Len(a) = 0
    BY <1>2, <2>1 DEF AtLineStart, Text
  <2>2. CASE Len(a) # 0
    <3>1. all[Len(a)] = NL /\ Len(a) \in 1..Len(a)
      BY <1>2, <2>2 DEF AtBol
    <3>. QED
      BY <1>4, <3>1 DEF AtLineStart, Last
  <2>. QED
    BY <2>1, <2>2
<1>. QED
  BY <1>1, <1>2, <1>3, <1>5 DEF a, b, all, p

\* A parse of a sound file that returns notes has that of a plain item standing in the file.
LEMMA PlainItemIsRead ==
  ASSUME NEW carry \in Text, AtLineStart(carry), NEW text \in Text, ~Has(text, BadDates),
         Accepted(carry, Parsed(carry, text)),
         NEW item \in Item, Plain(item), NEW k \in 0..Len(text), FoundAt(text, k, item)
  PROVE  \E i \in DOMAIN NotesOf(Parsed(carry, text).notes) :
           NotesOf(Parsed(carry, text).notes)[i] = AsNote(item)
<1> DEFINE all == carry \o text
           q == Len(carry) + k
           a == carry \o SubSeq(text, 1, k)
           b == SubSeq(text, k + 1, Len(text))
           s == Parsed(carry, SubSeq(text, 1, k))
           f == Parsed(carry, text)
           n == q + Len(Written(item))
<1>1. /\ all \in Text /\ Len(carry) \in Nat /\ Len(text) \in Nat /\ k \in Nat /\ q \in Nat
      /\ Len(all) \in Nat
  <2>1. all \in Text /\ Len(carry) \in Nat /\ Len(text) \in Nat /\ Len(all) \in Nat
    BY TextJoins
  <2>. QED
    BY <2>1
<1>2. Len(Written(item)) \in Nat \ {0, 1} /\ Written(item)[1] = Star /\ Written(item)[2] = SP
      /\ Written(item)[Len(Written(item))] = NL
  BY WrittenEnds, WrittenBegins
<1>3. FoundAt(all, q, item)
  BY <1>1, FoundBehind
<1>4. /\ a \in Text /\ b \in Text /\ Len(a) = q /\ a \o b = all
      /\ AtBol(all, q + 1) => AtLineStart(a)
  BY FrontOf
<1>5. SubSeq(text, 1, k) \in Text /\ ~Has(SubSeq(text, 1, k), BadDates)
  <2> DEFINE p == SubSeq(text, 1, k)
  <2>1. p \in Text /\ Len(p) = k /\ \A i \in 1..k : p[i] = text[i]
    BY PartsOf
  <2> HIDE DEF p
  <2>2. DOMAIN p = 1..k /\ 1..k \subseteq DOMAIN text
    BY <1>1, <2>1 DEF Text
  <2>3. ~Has(p, BadDates)
    BY <2>1, <2>2 DEF Has
  <2>. QED
    BY <2>1, <2>3 DEF p
<1>6. s \in State /\ ~Stopped(carry, s) /\ s = Over(carry, Fresh, Scan(a)[1])
  <2>1. s.stop <= Len(carry) + 1
    BY <1>5, NeverStops
  <2>2. s \in State
    BY <1>5, ParsedTyped
  <2>3. s = Over(carry, Fresh, Scan(a)[1])
    BY <1>5, ParsedIs
  <2> HIDE DEF s
  <2>. QED
    BY <1>1, <2>1, <2>2, <2>3 DEF Stopped, State
<1>7. f \in State /\ f = Over(carry, Fresh, Scan(all)[1]) /\ f.place \in LineStarts
  <2>1. f.stop <= Len(carry) + 1
    BY NeverStops
  <2>2. f \in State
    BY ParsedTyped
  <2>3. f = Over(carry, Fresh, Scan(all)[1])
    BY ParsedIs
  <2> HIDE DEF f, all
  <2>4. ~Stopped(carry, f)
    BY <1>1, <2>1, <2>2 DEF Stopped, State
  <2>. QED
    BY <2>2, <2>3, <2>4 DEF Accepted, f
<1> HIDE DEF all, q, a, b, s, f
<1>8. /\ n <= Len(all) /\ AtBol(all, q + 1) /\ q + 1 < Len(all)
      /\ all[q + 1] = Star /\ all[q + 2] = SP /\ all[n] = NL
      /\ n < Len(all) => all[n + 1] = Star
      /\ n + 1 < Len(all) => all[n + 2] = SP
  <2> DEFINE W == Written(item)
             w == Len(W)
  <2>1. /\ q + w <= Len(all) /\ AtBol(all, q + 1)
        /\ \A i \in 1..w : all[q + i] = W[i]
        /\ q + w < Len(all) => all[q + w + 1] = Star
        /\ q + w + 1 < Len(all) => all[q + w + 2] = SP
    BY <1>3 DEF FoundAt, StandsAt
  <2>2. w \in Nat \ {0, 1} /\ W[1] = Star /\ W[2] = SP /\ W[w] = NL
    BY <1>2
  <2> HIDE DEF W, w
  <2>3. 1 \in 1..w /\ 2 \in 1..w /\ w \in 1..w
    BY <2>2
  <2>4. all[q + 1] = Star /\ all[q + 2] = SP /\ all[q + w] = NL
    BY <2>1, <2>2, <2>3
  <2>5. q + 1 < Len(all)
    BY <1>1, <2>1, <2>2
  <2>. QED
    BY <2>1, <2>4, <2>5 DEF w, W
<1>9. f = Over(carry, s, Scan(all)[q + 1])
  <2>1. AtLineStart(a)
    BY <1>4, <1>8
  <2>2. b # <<>> => b[1] # NL
    <3>1. b # <<>> => 1 \in 1..Len(b)
      BY <1>4 DEF Text
    <3>2. \A i \in 1..Len(b) : (a \o b)[Len(a) + i] = b[i]
      BY <1>4, JoinIs
    <3>3. b # <<>> => b[1] = all[q + 1]
      BY <1>4, <3>1, <3>2
    <3>. QED
      BY <1>8, <3>3 DEF Star, NL
  <2>3. Over(carry, Fresh, Scan(a \o b)[1])
          = Over(carry, Over(carry, Fresh, Scan(a)[1]), Scan(a \o b)[Len(a) + 1])
    BY <1>4, <2>1, <2>2, OverBefore
  <2>. QED
    BY <1>4, <1>6, <1>7, <2>3
<1>10. s.place \in LineStarts \cup {"start", "begun"}
  <2> SUFFICES ASSUME s.place \notin LineStarts \cup {"start", "begun"} PROVE FALSE
    OBVIOUS
  <2> DEFINE i == q + 1
  <2>1. i \in 1..Len(all) /\ i + 1 <= Len(all) /\ AtBol(all, i) /\ all[i] = Star
        /\ all[i + 1] = SP
    BY <1>1, <1>8
  <2> HIDE DEF i
  <2>2. Over(carry, s, Scan(all)[i]).place = "error"
    BY <1>1, <1>6, <2>1, StarInAnEntry
  <2>. QED
    BY <1>7, <1>9, <2>2 DEF i, LineStarts
<1>11. n \in Nat /\ (n + 1 <= Len(all) => all[n + 1] # NL)
  <2>1. Star # NL
    BY DEF Star, NL
  <2>. QED
    BY <1>1, <1>2, <1>8, <2>1
<1>12. PICK u \in State : /\ Leads(carry, all, s, q + 1, u, n + 1)
                          /\ u.place \in {"header", "text"} /\ u.stop = s.stop
                          /\ u.notes = Append(s.notes, AsNote(item))
  <2>1. StandsAt(all, q, item)
    BY <1>3 DEF FoundAt
  <2>2. (n + 1 <= Len(all) => all[n + 1] # NL) =>
          \E u \in State : /\ Leads(carry, all, s, q + 1, u, n + 1)
                           /\ u.place \in {"header", "text"} /\ u.stop = s.stop
                           /\ u.notes = Append(s.notes, AsNote(item))
    <3>1. all \in Text /\ s \in State /\ ~Stopped(carry, s) /\ q \in Nat
          /\ s.place \in LineStarts \cup {"start", "begun"} /\ item \in Item /\ Plain(item)
      BY <1>1, <1>6, <1>10
    <3>2. ReadFrom(carry, all, s, q, item)
      BY <2>1, <3>1, ItemRead
    <3>. QED
      BY <3>2 DEF ReadFrom
  <2>. QED
    BY <1>11, <2>2, Zenon
<1> DEFINE m == Len(u.notes)
           i == n + 1
<1>13. m \in Nat \ {0} /\ u.notes[m] = AsNote(item)
  BY <1>6, <1>12 DEF State
<1>14. f = Over(carry, u, Scan(all)[i])
  BY <1>9, <1>12 DEF Leads
<1>15. /\ i \in 1..(Len(all) + 1) /\ AtBol(all, i)
       /\ i <= Len(all) => all[i] = Star
       /\ i < Len(all) => all[i + 1] = SP
  <2>1. AtBol(all, n + 1)
    BY <1>8, <1>11 DEF AtBol
  <2>. QED
    BY <1>1, <1>8, <1>11, <2>1
<1>16. ~Stopped(carry, u)
  BY <1>6, <1>12 DEF Stopped
<1> HIDE DEF n, i
<1>17. m <= Len(f.notes) /\ f.notes[m] = u.notes[m]
  BY <1>1, <1>12, <1>13, <1>14, <1>15, <1>16, NextLeavesIt
<1> HIDE DEF m
<1>18. m \in DOMAIN f.notes
  BY <1>7, <1>13, <1>17 DEF State
<1>19. NotesOf(f.notes)[m] = AsNote(item) /\ m \in DOMAIN NotesOf(f.notes)
  <2>1. f.notes[m] = AsNote(item)
    BY <1>13, <1>17
  <2>2. DOMAIN NotesOf(f.notes) = DOMAIN f.notes
    BY DEF NotesOf
  <2>3. NotesOf(f.notes)[m] = Note(ToCp1251(f.notes[m].header), f.notes[m].category,
                                   ToCp1251(f.notes[m].text))
    BY <1>18 DEF NotesOf
  <2>. QED
    BY <1>18, <2>1, <2>2, <2>3, PlainNote
<1>. QED
  BY <1>19 DEF f

-----------------------------------------------------------------------------
(* What stands in a file keeps standing there *)

KeptStand ==
  \A item \in kept : \E form \in Forms(item) : \E k \in 0..Len(file) : FoundAt(file, k, form)

\* What a write of an item leaves is nothing, its star, or its star and a blank with more.
IsBegun(x) ==
  /\ x \in Text
  /\ 1 <= Len(x) => x[1] = Star
  /\ 2 <= Len(x) => x[2] = SP

LEMMA WrittenIsBegun ==
  ASSUME NEW item \in Item
  PROVE  /\ IsBegun(Written(item))
         /\ \A n \in 0..(Len(Written(item)) - 1) : IsBegun(SubSeq(Written(item), 1, n))
<1> DEFINE W == Written(item)
<1>1. W \in Text /\ Len(W) \in Nat /\ W[1] = Star /\ W[2] = SP
  BY WrittenBegins, TextJoins
<1> HIDE DEF W
<1>2. ASSUME NEW n \in 0..(Len(W) - 1) PROVE IsBegun(SubSeq(W, 1, n))
  <2> DEFINE a == SubSeq(W, 1, n)
  <2>1. n \in 0..Len(W)
    BY <1>1
  <2>2. a \in Text /\ Len(a) = n /\ \A i \in 1..n : a[i] = W[i]
    BY <1>1, <2>1, PartsOf
  <2> HIDE DEF a
  <2>3. (1 <= n => 1 \in 1..n) /\ (2 <= n => 2 \in 1..n)
    BY <2>1
  <2>4. IsBegun(a)
    BY <1>1, <2>2, <2>3 DEF IsBegun
  <2>. QED
    BY <2>4 DEF a
<1>. QED
  BY <1>1, <1>2 DEF W, IsBegun

\* A text that ends with another one and its newline, and with a star behind them
LEMMA EndsWithStar ==
  ASSUME NEW text \in Text, NEW x \in Text, NEW k \in Nat, k + Len(x) + 1 = Len(text),
         \A i \in 1..Len(x) : text[k + i] = x[i], text[Len(text)] = Star
  PROVE  IsSuffix(x \o <<Star>>, text)
<1> DEFINE z == <<Star>>
           y == x \o z
           m == Len(x)
           n == Len(text)
<1>1. z \in Text /\ Len(z) = 1 /\ z[1] = Star
  BY TextJoins
<1> HIDE DEF z
<1>2. /\ y \in Text /\ m \in Nat /\ n \in Nat /\ Len(y) = m + 1
      /\ \A i \in 1..m : y[i] = x[i]
      /\ y[m + 1] = Star
  <2>1. /\ y \in Text /\ m \in Nat /\ Len(y) = m + Len(z)
        /\ \A i \in 1..m : y[i] = x[i]
        /\ \A i \in 1..Len(z) : y[m + i] = z[i]
    BY <1>1, JoinIs
  <2>2. n \in Nat
    BY TextJoins
  <2> HIDE DEF y, m
  <2>. QED
    BY <1>1, <2>1, <2>2
<1> HIDE DEF y, m, n
<1>3. k + m + 1 = n
  BY DEF m, n
<1>4. ASSUME NEW i \in 1..(m + 1) PROVE text[k + i] = y[i]
  <2>1. CASE i \in 1..m
    BY <1>2, <2>1 DEF m
  <2>2. CASE i \notin 1..m
    <3>1. i = m + 1 /\ k + i = n
      BY <1>2, <1>3, <2>2
    <3>. QED
      BY <1>2, <3>1 DEF n
  <2>. QED
    BY <2>1, <2>2
<1> DEFINE r == Reverse(y)
           t == Reverse(text)
<1>5. /\ r \in Text /\ Len(r) = m + 1 /\ \A i \in 1..(m + 1) : r[i] = y[(m + 1) - i + 1]
  BY <1>2 DEF Reverse, Text
<1>6. /\ t \in Text /\ Len(t) = n /\ \A i \in 1..n : t[i] = text[n - i + 1]
  BY <1>2 DEF Reverse, Text, n
<1> HIDE DEF r, t
<1>7. ASSUME NEW i \in 1..(m + 1) PROVE r[i] = t[i]
  <2>1. /\ i \in 1..n /\ (m + 1) - i + 1 \in 1..(m + 1)
        /\ k + ((m + 1) - i + 1) = n - i + 1
    BY <1>2, <1>3
  <2>2. text[k + ((m + 1) - i + 1)] = y[(m + 1) - i + 1]
    BY <1>4, <2>1
  <2>. QED
    BY <1>5, <1>6, <2>1, <2>2
<1>8. SubSeq(r, 1, Len(r)) = SubSeq(t, 1, Len(r))
  <2> DEFINE c == Len(r)
  <2>1. c \in 0..Len(r) /\ c \in 0..Len(t)
    BY <1>2, <1>3, <1>5, <1>6
  <2>2. /\ SubSeq(r, 1, c) \in Text /\ Len(SubSeq(r, 1, c)) = c
        /\ \A i \in 1..c : SubSeq(r, 1, c)[i] = r[i]
    BY <1>5, <2>1, PartsOf
  <2>3. /\ SubSeq(t, 1, c) \in Text /\ Len(SubSeq(t, 1, c)) = c
        /\ \A i \in 1..c : SubSeq(t, 1, c)[i] = t[i]
    BY <1>6, <2>1, PartsOf
  <2>4. c = m + 1
    BY <1>5
  <2> HIDE DEF c
  <2>5. \A i \in 1..c : SubSeq(r, 1, c)[i] = SubSeq(t, 1, c)[i]
    BY <1>7, <2>2, <2>3, <2>4
  <2> DEFINE x1 == SubSeq(r, 1, c)
             x2 == SubSeq(t, 1, c)
  <2>6. x1 \in Text /\ x2 \in Text /\ Len(x1) = c /\ Len(x2) = c /\ \A i \in 1..c : x1[i] = x2[i]
    BY <2>2, <2>3, <2>5
  <2> HIDE DEF x1, x2
  <2>7. x1 = x2
    BY <2>6 DEF Text
  <2>. QED
    BY <2>7 DEF x1, x2, c
<1>9. Len(r) <= Len(t)
  BY <1>2, <1>3, <1>5, <1>6
<1>. QED
  BY <1>8, <1>9 DEF IsSuffix, IsPrefix, r, t, y, z

\* An item keeps standing when another one, or a part of one, is written behind the text.
LEMMA StoodStays ==
  ASSUME NEW text \in Text, NEW item \in Item, NEW k \in Nat, FoundAt(text, k, item),
         AtLineStart(text) \/ ~IsSuffix(Written(item) \o <<Star>>, text),
         NEW x, IsBegun(x)
  PROVE  FoundAt(text \o x, k, item)
<1> DEFINE all == text \o x
           W == Written(item)
           w == Len(W)
           l == Len(text)
<1>1. W \in Text /\ w \in Nat \ {0, 1}
  BY WrittenEnds
<1>2. /\ x \in Text /\ Len(x) \in Nat /\ l \in Nat
      /\ 1 <= Len(x) => x[1] = Star
      /\ 2 <= Len(x) => x[2] = SP
  BY TextJoins DEF IsBegun
<1>3. /\ Len(all) = l + Len(x)
      /\ \A i \in 1..l : all[i] = text[i]
      /\ \A i \in 1..Len(x) : all[l + i] = x[i]
  BY <1>2, JoinIs
<1>4. /\ k + w <= l /\ AtBol(text, k + 1)
      /\ \A i \in 1..w : text[k + i] = W[i]
      /\ k + w < l => text[k + w + 1] = Star
      /\ k + w + 1 < l => text[k + w + 2] = SP
  BY DEF FoundAt, StandsAt
<1>5. k + w + 1 # l
  <2> SUFFICES ASSUME k + w + 1 = l PROVE FALSE
    OBVIOUS
  <2>1. text[Len(text)] = Star
    <3>1. k + w < l
      BY <1>1
    <3>. QED
      BY <1>4, <3>1
  <2>2. IsSuffix(W \o <<Star>>, text)
    <3>1. k + Len(W) + 1 = Len(text) /\ \A i \in 1..Len(W) : text[k + i] = W[i]
      BY <1>4
    <3> HIDE DEF W
    <3>. QED
      BY <1>1, <2>1, <3>1, EndsWithStar
  <2>3. AtLineStart(text)
    BY <2>2
  <2>4. text # <<>>
    <3>1. Len(text) # 0
      BY <1>1
    <3>. QED
      BY <3>1
  <2>. QED
    BY <2>1, <2>3, <2>4 DEF AtLineStart, Last, Star, NL
<1> HIDE DEF all, W, w, l
<1>6. k + w <= Len(all)
  BY <1>1, <1>2, <1>3, <1>4
<1>7. AtBol(all, k + 1)
  <2>1. k # 0 => k \in 1..l
    BY <1>1, <1>2, <1>4
  <2>. QED
    BY <1>3, <1>4, <2>1 DEF AtBol
<1>8. ASSUME NEW i \in 1..w PROVE all[k + i] = W[i]
  <2>1. k + i \in 1..l
    BY <1>1, <1>2, <1>4
  <2>. QED
    BY <1>3, <1>4, <2>1
<1>9. k + w < Len(all) => all[k + w + 1] = Star
  <2> SUFFICES ASSUME k + w < Len(all) PROVE all[k + w + 1] = Star
    OBVIOUS
  <2>1. CASE k + w < l
    <3>1. k + w + 1 \in 1..l
      BY <1>1, <1>2, <2>1
    <3>. QED
      BY <1>3, <1>4, <2>1, <3>1
  <2>2. CASE k + w = l
    <3>1. 1 \in 1..Len(x) /\ 1 <= Len(x)
      BY <1>2, <1>3, <2>2
    <3>2. all[l + 1] = Star
      BY <1>2, <1>3, <3>1
    <3>. QED
      BY <2>2, <3>2
  <2>. QED
    BY <1>1, <1>2, <1>4, <2>1, <2>2
<1>10. k + w + 1 < Len(all) => all[k + w + 2] = SP
  <2> SUFFICES ASSUME k + w + 1 < Len(all) PROVE all[k + w + 2] = SP
    OBVIOUS
  <2>1. CASE k + w + 1 < l
    <3>1. k + w + 2 \in 1..l
      BY <1>1, <1>2, <2>1
    <3>. QED
      BY <1>3, <1>4, <2>1, <3>1
  <2>2. CASE k + w = l
    <3>1. 2 \in 1..Len(x) /\ 2 <= Len(x)
      BY <1>2, <1>3, <2>2
    <3>2. all[l + 2] = SP
      BY <1>2, <1>3, <3>1
    <3>. QED
      BY <2>2, <3>2
  <2>3. k + w = l \/ k + w + 1 < l
    BY <1>1, <1>2, <1>4, <1>5
  <2>. QED
    BY <2>1, <2>2, <2>3
<1>. QED
  BY <1>6, <1>7, <1>8, <1>9, <1>10 DEF FoundAt, StandsAt, all, W, w

\* An item that is written at the beginning of a line stands there.
LEMMA NewStands ==
  ASSUME NEW text \in Text, AtLineStart(text), NEW item \in Item
  PROVE  FoundAt(text \o Written(item), Len(text), item)
<1> DEFINE W == Written(item)
           all == text \o W
           l == Len(text)
<1>1. W \in Text /\ Len(W) \in Nat
  BY WrittenBegins, TextJoins
<1> HIDE DEF W
<1>2. /\ l \in Nat /\ Len(all) = l + Len(W)
      /\ \A i \in 1..l : all[i] = text[i]
      /\ \A i \in 1..Len(W) : all[l + i] = W[i]
  BY <1>1, JoinIs
<1>3. AtBol(all, l + 1)
  <2>1. CASE text = <<>>
    BY <2>1 DEF AtBol
  <2>2. CASE text # <<>>
    <3>1. l \in 1..l /\ text[l] = NL
      BY <1>2, <2>2 DEF AtLineStart, Last, Text
    <3>. QED
      BY <1>2, <3>1 DEF AtBol
  <2>. QED
    BY <2>1, <2>2
<1> HIDE DEF all, l
<1>4. l + Len(W) <= Len(all) /\ ~(l + Len(W) < Len(all)) /\ ~(l + Len(W) + 1 < Len(all))
  BY <1>1, <1>2
<1>. QED
  BY <1>2, <1>3, <1>4 DEF FoundAt, StandsAt, all, l, W

\* Where an item stands in a file, the file is at least that long.
LEMMA FoundInside ==
  ASSUME NEW text \in Text, NEW item \in Item, NEW k \in Nat, FoundAt(text, k, item)
  PROVE  k \in 0..Len(text)
<1>1. Len(Written(item)) \in Nat /\ Len(text) \in Nat
  BY WrittenEnds, TextJoins
<1>2. k + Len(Written(item)) <= Len(text)
  BY DEF FoundAt, StandsAt
<1>. QED
  BY <1>1, <1>2

\* What a write leaves the items that are kept
LEMMA UnharmedStand ==
  ASSUME TypeOK, KeptStand, NEW item \in Unharmed, NEW x, IsBegun(x)
  PROVE  \E form \in Forms(item) : \E k \in 0..Len(file \o x) : FoundAt(file \o x, k, form)
<1>1. /\ item \in kept /\ item \in Item /\ file \in Text
      /\ AtLineStart(file) \/ \A form \in Forms(item) :
                                 ~IsSuffix(Written(form) \o <<Star>>, file)
  BY FilesAndItems DEF TypeOK, Unharmed, Endangered
<1>2. PICK form \in Forms(item) : \E k \in 0..Len(file) : FoundAt(file, k, form)
  BY <1>1 DEF KeptStand
<1>3. PICK k \in 0..Len(file) : FoundAt(file, k, form)
  BY <1>2
<1>4. k \in Nat /\ form \in Item
  BY <1>1, FormsAreItems
<1>5. AtLineStart(file) \/ ~IsSuffix(Written(form) \o <<Star>>, file)
  BY <1>1
<1>6. FoundAt(file \o x, k, form)
  BY <1>1, <1>3, <1>4, <1>5, StoodStays
<1>7. file \o x \in Text
  BY <1>1, TextJoins DEF IsBegun
<1>8. k \in 0..Len(file \o x)
  BY <1>4, <1>6, <1>7, FoundInside
<1>. QED
  BY <1>6, <1>8

LEMMA KeptStandNext == TypeOK /\ KeptStand /\ [Next]_vars => KeptStand'
<1> SUFFICES ASSUME TypeOK, KeptStand, [Next]_vars PROVE KeptStand'
  OBVIOUS
<1>1. ASSUME file' = file, kept' = kept PROVE KeptStand'
  BY <1>1 DEF KeptStand
<1>2. CASE Save
  BY <1>2 DEF Save, KeptStand
<1>3. CASE ParseRefused
  BY <1>1, <1>3 DEF ParseRefused, BeginCycle
<1>4. CASE Parse
  BY <1>1, <1>4 DEF Parse, BeginCycle
<1>5. CASE AppendItem
  <2>1. PICK item \in Items : Write(item) \/ WriteFails(item) \/ WriteCrashes(item)
    BY <1>5 DEF AppendItem
  <2>2. item \in Item /\ file \in Text /\ Forms(item) \subseteq Item
    BY FilesAndItems, FormsAreItems DEF TypeOK
  <2>3. CASE Write(item)
    <3>1. PICK form \in Forms(item) : WriteAs(item, form)
      BY <2>3 DEF Write
    <3>2. /\ file' = file \o Written(form)
          /\ kept' = Unharmed \cup (IF AtLineStart(file) THEN {item} ELSE {})
      BY <3>1 DEF WriteAs
    <3>3. IsBegun(Written(form)) /\ form \in Item
      BY <2>2, WrittenIsBegun
    <3> DEFINE x == Written(form)
    <3>4. ASSUME NEW other \in kept'
          PROVE  \E f \in Forms(other) : \E k \in 0..Len(file \o x) : FoundAt(file \o x, k, f)
      <4>1. CASE other \in Unharmed
        <5> HIDE DEF x
        <5>1. IsBegun(x)
          BY <3>3 DEF x
        <5>. QED
          BY <4>1, <5>1, UnharmedStand
      <4>2. CASE other = item /\ AtLineStart(file)
        <5>1. FoundAt(file \o x, Len(file), form) /\ Len(file) \in Nat
          BY <2>2, <3>3, <4>2, NewStands, TextJoins
        <5>2. file \o x \in Text
          BY <2>2, <3>3, TextJoins DEF IsBegun
        <5>3. Len(file) \in 0..Len(file \o x)
          BY <3>3, <5>1, <5>2, FoundInside
        <5> HIDE DEF x
        <5>. QED
          BY <4>2, <5>1, <5>3
      <4>. QED
        BY <3>2, <3>4, <4>1, <4>2
    <3>5. file' = file \o x
      BY <3>2
    <3> HIDE DEF x
    <3>. QED
      BY <3>4, <3>5 DEF KeptStand
  <2>4. CASE WriteFails(item)
    <3>1. PICK form \in Forms(item) : \E n \in Cuts \cap 0..(Len(Written(form)) - 1) :
            file' = file \o SubSeq(Written(form), 1, n)
      BY <2>4 DEF WriteFails
    <3> PICK n \in Cuts \cap 0..(Len(Written(form)) - 1) :
            file' = file \o SubSeq(Written(form), 1, n)
      BY <3>1
    <3>2. kept' = Unharmed
      BY <2>4 DEF WriteFails
    <3> DEFINE x == SubSeq(Written(form), 1, n)
    <3>3. IsBegun(x)
      BY <2>2, WrittenIsBegun
    <3>4. file' = file \o x
      OBVIOUS
    <3> HIDE DEF x
    <3>5. \A other \in Unharmed : \E f \in Forms(other) :
             \E k \in 0..Len(file \o x) : FoundAt(file \o x, k, f)
      BY <3>3, UnharmedStand
    <3>. QED
      BY <3>2, <3>4, <3>5 DEF KeptStand
  <2>5. CASE WriteCrashes(item)
    BY <1>1, <2>5 DEF WriteCrashes
  <2>. QED
    BY <2>1, <2>3, <2>4, <2>5
<1>6. CASE EndCycle
  BY <1>1, <1>6 DEF EndCycle
<1>7. CASE Restart
  BY <1>1, <1>7 DEF Restart
<1>8. CASE UNCHANGED vars
  BY <1>1, <1>8 DEF vars
<1>. QED
  BY <1>2, <1>3, <1>4, <1>5, <1>6, <1>7, <1>8 DEF Next

\* What the daemon has appended and nothing endangers stands in the org-file as
\* org_notes_write() made it of the item (without the text it had no room for, with what
\* lay behind a string without an end), at the beginning of a line and with a headline
\* behind it.
THEOREM KeptItemsStand == Spec => []KeptStand
<1>1. Init => KeptStand
  BY DEF Init, KeptStand
<1>2. TypeOK /\ KeptStand /\ [Next]_vars => KeptStand'
  BY KeptStandNext
<1>. QED
  BY <1>1, <1>2, TypeCorrect, PTL DEF Spec

\* A plain item that fits is written as it is.
LEMMA FitsWhole ==
  ASSUME NEW item \in Item, Plain(item), Fits(item)
  PROVE  Forms(item) = {item}
<1>1. /\ item.header \in Text /\ item.text \in Text \cup {NULL} /\ NULL \notin Text
      /\ item = [header |-> item.header, category |-> item.category, text |-> item.text]
  BY NullIsNothing DEF Item
<1>2. ASSUME NEW text \in Text, PlainLines(text), Surplus(text) < 0
      PROVE  ToUtf8(text) = {text}
  <2>1. \A i \in 1..Len(text) : text[i] \in PlainWords \cup {SP, NL}
    BY <1>2, PlainIs
  <2>2. \A i \in 1..Len(text) : text[i] \notin Unassigned
    BY <2>1, WordsAre, UnassignedAreBytes, SymbolsDiffer
  <2>3. ~Has(text, Unassigned)
    BY <2>2 DEF Has, Text
  <2>. QED
    BY <1>1, <1>2, <2>3 DEF ToUtf8
<1>3. ToUtf8(item.header) = {item.header}
  BY <1>1, <1>2 DEF Plain, Fits
<1>4. ToUtf8(item.text) = {item.text}
  <2>1. CASE item.text = NULL
    BY <2>1 DEF ToUtf8
  <2>2. CASE item.text # NULL
    BY <1>1, <1>2, <2>2 DEF Plain, Fits
  <2>. QED
    BY <2>1, <2>2
<1>5. item.header # NULL /\ Note(item.header, item.category, item.text) = item
  BY <1>1 DEF Note
<1> DEFINE As(header, text) == Note(header, item.category, text)
<1>6. Forms(item) = {As(header, text) : header \in {item.header} \ {NULL}, text \in {item.text}}
  BY <1>3, <1>4 DEF Forms
<1>7. As(item.header, item.text) = item
  BY <1>5
<1> HIDE DEF As
<1>. QED
  BY <1>5, <1>6, <1>7

\* A plain item whose conversion fits is read back by every later cycle as it was in the
\* handheld, whatever other items, sound, cut short or without their texts, stand around it.
THEOREM PlainItemsAreRead == Spec => PlainItemsReadBack
<1>1. TypeOK /\ KeptStand /\ [Next]_vars =>
        [Alive /\ Sound /\ AtLineStart(buffer) =>
           \A item \in kept : Plain(item) /\ Fits(item) =>
             \E i \in DOMAIN notes' : notes'[i] = AsNote(item)]_vars
  <2> SUFFICES ASSUME TypeOK, KeptStand, [Next]_vars, Alive, Sound, AtLineStart(buffer),
                      NEW item \in kept, Plain(item), Fits(item)
               PROVE  \E i \in DOMAIN notes' : notes'[i] = AsNote(item)
    BY DEF vars
  <2>1. /\ buffer \in Text /\ file \in Text
        /\ Accepted(buffer, Parsed(buffer, file))
        /\ notes' = NotesOf(Parsed(buffer, file).notes)
    BY AliveIs
  <2>2. item \in Item
    BY FilesAndItems DEF TypeOK
  <2>3. PICK k \in 0..Len(file) : FoundAt(file, k, item)
    BY <2>2, FitsWhole DEF KeptStand
  <2>. QED
    BY <2>1, <2>2, <2>3, PlainItemIsRead DEF Sound
<1>. QED
  BY <1>1, TypeCorrect, KeptItemsStand, PTL DEF Spec, PlainItemsReadBack
=============================================================================
