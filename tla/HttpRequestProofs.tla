------------------------- MODULE HttpRequestProofs -------------------------
(***************************************************************************)
(* Theorems of HttpRequest, for every request, however it is cut into      *)
(* pieces, and every store.                                                *)
(***************************************************************************)
EXTENDS HttpRequest, SequenceTheorems, WellFoundedInduction, TLAPS
-----------------------------------------------------------------------------
(***************************************************************************)
(* Induction on a set of numbers.                                          *)
(***************************************************************************)
LEMMA Least == ASSUME NEW T, T \subseteq Nat, T # {} PROVE \E n \in T : \A m \in T : n <= m
<1>1. PICK n \in T : \A m \in T : ~(<<m, n>> \in OpToRel(<, Nat))
  BY NatLessThanWellFounded, WFMin
<1>2. ASSUME NEW m \in T PROVE n <= m
  <2>1. <<m, n>> \in Nat \X Nat /\ <<m, n>>[1] = m /\ <<m, n>>[2] = n
    OBVIOUS
  <2>2. ~(m < n)
    BY <1>1, <2>1 DEF OpToRel
  <2> QED
    BY <2>1, <2>2
<1> QED
  BY <1>2

LEMMA Inductive ==
    ASSUME NEW T, T \subseteq Nat, 0 \in T, \A n \in T : n + 1 \in T
    PROVE  T = Nat
<1> SUFFICES ASSUME T # Nat PROVE FALSE
  OBVIOUS
<1>1. Nat \ T \subseteq Nat /\ Nat \ T # {}
  OBVIOUS
<1>2. PICK n \in Nat \ T : \A m \in Nat \ T : n <= m
  BY <1>1, Least
<1>3. n # 0 /\ n - 1 \in Nat
  BY <1>2
<1>4. n - 1 \in T
  BY <1>2, <1>3
<1> QED
  BY <1>2, <1>3, <1>4

LEMMA MinIs == ASSUME NEW S, S \subseteq Nat, S # {} PROVE Min(S) \in S /\ \A x \in S : Min(S) <= x
<1>1. \E x \in S : \A y \in S : x <= y
  BY Least
<1> QED
  BY <1>1 DEF Min
-----------------------------------------------------------------------------
(***************************************************************************)
(* strstr() and get_next_token().                                          *)
(***************************************************************************)
\* What a text consists of.
Tokens == STRING \cup {" ", ":", "CR", "LF", "URI", "byte"}

LEMMA Two ==
    ASSUME NEW S, NEW a \in S, NEW b \in S
    PROVE  /\ <<a, b>> \in Seq(S) /\ Len(<<a, b>>) = 2 /\ <<a, b>>[1] = a /\ <<a, b>>[2] = b
           /\ \A t \in Seq(S) : Len(t) = 2 /\ t[1] = a /\ t[2] = b => t = <<a, b>>
<1>1. <<a, b>> \in Seq(S) /\ Len(<<a, b>>) = 2
  OBVIOUS
<1>2. <<a, b>>[1] = a /\ <<a, b>>[2] = b
  OBVIOUS
<1>3. ASSUME NEW t \in Seq(S), Len(t) = 2, t[1] = a, t[2] = b PROVE t = <<a, b>>
  BY <1>1, <1>2, <1>3, SeqEqual
<1> QED
  BY <1>1, <1>2, <1>3

LEMMA One ==
    ASSUME NEW S, NEW a \in S
    PROVE  <<a>> \in Seq(S) /\ Len(<<a>>) = 1 /\ <<a>>[1] = a
  OBVIOUS

LEMMA Delimiters ==
    /\ Space \in Seq(Tokens) /\ Len(Space) = 1 /\ Space[1] = " "
    /\ Line \in Seq(Tokens) /\ Len(Line) = 2 /\ Line[1] = "CR" /\ Line[2] = "LF"
    /\ KeyEnd \in Seq(Tokens) /\ Len(KeyEnd) = 2 /\ KeyEnd[1] = ":" /\ KeyEnd[2] = " "
    /\ BlankLine \in Seq(Tokens) /\ Len(BlankLine) = 4
    /\ BlankLine[1] = "CR" /\ BlankLine[2] = "LF" /\ BlankLine[3] = "CR" /\ BlankLine[4] = "LF"
<1>1. " " \in Tokens /\ ":" \in Tokens /\ "CR" \in Tokens /\ "LF" \in Tokens
  BY DEF Tokens
<1> HIDE DEF Tokens
<1>2. Space \in Seq(Tokens) /\ Len(Space) = 1 /\ Space[1] = " "
  BY <1>1, One DEF Space
<1>3. Line \in Seq(Tokens) /\ Len(Line) = 2 /\ Line[1] = "CR" /\ Line[2] = "LF"
  BY <1>1, Two DEF Line
<1>4. KeyEnd \in Seq(Tokens) /\ Len(KeyEnd) = 2 /\ KeyEnd[1] = ":" /\ KeyEnd[2] = " "
  BY <1>1, Two DEF KeyEnd
<1>5. BlankLine \in Seq(Tokens) /\ Len(BlankLine) = 4
      /\ BlankLine[1] = "CR" /\ BlankLine[2] = "LF" /\ BlankLine[3] = "CR" /\ BlankLine[4] = "LF"
  BY <1>3, ConcatProperties DEF BlankLine
<1> QED
  BY <1>2, <1>3, <1>4, <1>5

Matches(s, d, i) == SubSeq(s, i, i + Len(d) - 1) = d

LEMMA FindIs ==
    ASSUME NEW s \in Seq(Tokens), NEW d \in Seq(Tokens), d # <<>>, NEW from \in Nat \ {0}
    PROVE  /\ Find(s, d, from) # 0 =>
                /\ Find(s, d, from) \in from .. Len(s) - Len(d) + 1
                /\ Matches(s, d, Find(s, d, from))
                /\ \A i \in from .. Find(s, d, from) - 1 : ~Matches(s, d, i)
           /\ \A i \in from .. Len(s) - Len(d) + 1 : Matches(s, d, i) => Find(s, d, from) # 0
<1> DEFINE last == Len(s) - Len(d) + 1
           places == {i \in from .. last : Matches(s, d, i)}
<1>1. Find(s, d, from) = IF places = {} THEN 0 ELSE Min(places)
  BY DEF Find, Matches
<1>2. Len(s) \in Nat /\ Len(d) \in Nat /\ last \in Int /\ from >= 1
  OBVIOUS
<1> HIDE DEF last
<1>3. places \subseteq from .. last /\ places \subseteq Nat
  BY <1>2
<1>4. ASSUME places # {}
      PROVE  Min(places) \in places /\ Min(places) # 0 /\ \A i \in from .. Min(places) - 1 : ~Matches(s, d, i)
  <2>1. Min(places) \in places /\ \A x \in places : Min(places) <= x
    <3> HIDE DEF places
    <3> QED
      BY <1>3, <1>4, MinIs
  <2>2. Min(places) \in from .. last
    BY <1>3, <2>1
  <2>3. ASSUME NEW i \in from .. Min(places) - 1, Matches(s, d, i) PROVE FALSE
    <3>1. i \in from .. last /\ ~(Min(places) <= i)
      BY <1>2, <2>2
    <3> QED
      BY <2>1, <2>3, <3>1
  <2> QED
    BY <1>2, <2>1, <2>2, <2>3
<1>5. Find(s, d, from) # 0 => places # {} /\ Find(s, d, from) = Min(places)
  BY <1>1
<1>6. Find(s, d, from) # 0 => Find(s, d, from) \in places
  BY <1>4, <1>5
<1>7. ASSUME NEW i \in from .. last, Matches(s, d, i) PROVE Find(s, d, from) # 0
  <2>1. places # {}
    BY <1>7
  <2> QED
    BY <1>1, <1>4, <2>1
<1> QED
  BY <1>4, <1>5, <1>6, <1>7 DEF last

LEMMA MatchIs ==
    ASSUME NEW s \in Seq(Tokens), NEW d \in Seq(Tokens), NEW i \in 1 .. Len(s) - Len(d) + 1
    PROVE  Matches(s, d, i) <=> \A k \in 1 .. Len(d) : s[i + k - 1] = d[k]
<1> DEFINE n == Len(d)
           t == SubSeq(s, i, i + n - 1)
<1>1. Len(s) \in Nat /\ n \in Nat /\ i \in Nat /\ i >= 1 /\ i + n - 1 <= Len(s)
  OBVIOUS
<1>2. Matches(s, d, i) <=> t = d
  BY DEF Matches
<1> HIDE DEF n
<1>3. \A k \in i .. i + n - 1 : s[k] \in Tokens
  BY <1>1, ElementOfSeq
<1>4. t \in Seq(Tokens) /\ Len(t) = n /\ \A k \in 1 .. n : t[k] = s[i + k - 1]
  BY <1>1, <1>3, SubSeqProperties
<1> HIDE DEF t
<1>5. (\A k \in 1 .. n : t[k] = d[k]) => t = d
  BY <1>4, SeqEqual DEF n
<1> QED
  BY <1>2, <1>4, <1>5 DEF n

LEMMA MatchTwo ==
    ASSUME NEW s \in Seq(Tokens), NEW d \in {Line, KeyEnd}, NEW i \in 1 .. Len(s) - 1
    PROVE  Matches(s, d, i) <=> s[i] = d[1] /\ s[i + 1] = d[2]
<1>1. d \in Seq(Tokens) /\ Len(d) = 2
  BY Delimiters
<1>2. Len(s) \in Nat /\ i \in 1 .. Len(s) - Len(d) + 1
  <2>1. Len(s) \in Nat /\ Len(s) - 1 = Len(s) - 2 + 1
    OBVIOUS
  <2> QED
    BY <1>1, <2>1
<1>3. Matches(s, d, i) <=> \A k \in 1 .. Len(d) : s[i + k - 1] = d[k]
  BY <1>1, <1>2, MatchIs
<1>4. 1 .. 2 = {1, 2} /\ i + 1 - 1 = i /\ i + 2 - 1 = i + 1
  BY <1>2
<1> QED
  BY <1>1, <1>3, <1>4

LEMMA MatchSpace ==
    ASSUME NEW s \in Seq(Tokens), NEW i \in 1 .. Len(s)
    PROVE  Matches(s, Space, i) <=> s[i] = " "
<1>1. Space \in Seq(Tokens) /\ Len(Space) = 1 /\ Space[1] = " "
  BY Delimiters
<1>2. Len(s) \in Nat /\ i \in 1 .. Len(s) - Len(Space) + 1
  <2>1. Len(s) \in Nat /\ Len(s) = Len(s) - 1 + 1
    OBVIOUS
  <2> QED
    BY <1>1, <2>1
<1>3. Matches(s, Space, i) <=> \A k \in 1 .. Len(Space) : s[i + k - 1] = Space[k]
  BY <1>1, <1>2, MatchIs
<1>4. 1 .. 1 = {1} /\ i + 1 - 1 = i
  BY <1>2
<1> QED
  BY <1>1, <1>3, <1>4

LEMMA MatchBlank ==
    ASSUME NEW s \in Seq(Tokens), NEW i \in 1 .. Len(s) - 3
    PROVE  Matches(s, BlankLine, i) <=>
             s[i] = "CR" /\ s[i + 1] = "LF" /\ s[i + 2] = "CR" /\ s[i + 3] = "LF"
<1>1. /\ BlankLine \in Seq(Tokens) /\ Len(BlankLine) = 4
      /\ BlankLine[1] = "CR" /\ BlankLine[2] = "LF" /\ BlankLine[3] = "CR" /\ BlankLine[4] = "LF"
  BY Delimiters
<1>2. Len(s) \in Nat /\ i \in 1 .. Len(s) - Len(BlankLine) + 1
  BY <1>1
<1>3. Matches(s, BlankLine, i) <=> \A k \in 1 .. Len(BlankLine) : s[i + k - 1] = BlankLine[k]
  BY <1>1, <1>2, MatchIs
<1>4. 1 .. 4 = {1, 2, 3, 4} /\ i + 1 - 1 = i /\ i + 2 - 1 = i + 1 /\ i + 3 - 1 = i + 2 /\ i + 4 - 1 = i + 3
  BY <1>2
<1> QED
  BY <1>1, <1>3, <1>4

\* The first place of a delimiter, seen from where it is.
LEMMA FirstPlace ==
    ASSUME NEW s \in Seq(Tokens), NEW d \in Seq(Tokens), d # <<>>, NEW from \in Nat \ {0},
           NEW at \in from .. Len(s) - Len(d) + 1, Matches(s, d, at),
           \A i \in from .. at - 1 : ~Matches(s, d, i)
    PROVE  Find(s, d, from) = at
<1> DEFINE f == Find(s, d, from)
<1>1. f # 0
  BY FindIs
<1>2. f \in from .. Len(s) - Len(d) + 1 /\ Matches(s, d, f) /\ \A i \in from .. f - 1 : ~Matches(s, d, i)
  BY <1>1, FindIs
<1> HIDE DEF f
<1>3. Len(s) \in Nat /\ Len(d) \in Nat
  OBVIOUS
<1>4. ~(f < at) /\ ~(at < f)
  BY <1>2, <1>3
<1>5. f = at
  BY <1>2, <1>3, <1>4
<1> QED
  BY <1>5 DEF f

\* get_next_token() from an address that is one.
LEMMA TokenIs ==
    ASSUME NEW s, NEW d, NEW from \in Nat \ {0}
    PROVE  LET i == Find(s, d, from)
           IN  /\ i = 0 => Token(s, d, from) = [val |-> <<>>, next |-> 0]
               /\ i # 0 => Token(s, d, from) = [val |-> SubSeq(s, from, i - 1), next |-> i + Len(d)]
  BY DEF Token

LEMMA TokenNone == ASSUME NEW s, NEW d PROVE Token(s, d, 0) = [val |-> <<>>, next |-> 0]
  BY DEF Token

\* Where the next token begins, a line before it ends: 0, or past a delimiter.
LEMMA TokenNext ==
    ASSUME NEW s \in Seq(Tokens), NEW d \in Seq(Tokens), d # <<>>, NEW from \in Nat
    PROVE  LET next == Token(s, d, from).next
           IN  \/ next = 0
               \/ /\ from # 0 /\ next \in from + Len(d) .. Len(s) + 1
                  /\ Matches(s, d, next - Len(d))
<1>1. CASE from = 0
  BY <1>1, TokenNone
<1>2. CASE from # 0 /\ Find(s, d, from) = 0
  BY <1>2, TokenIs
<1>3. CASE from # 0 /\ Find(s, d, from) # 0
  <2> DEFINE f == Find(s, d, from)
  <2>1. Token(s, d, from).next = f + Len(d)
    BY <1>3, TokenIs
  <2>2. f \in from .. Len(s) - Len(d) + 1 /\ Matches(s, d, f)
    BY <1>3, FindIs
  <2>3. Len(d) \in Nat /\ Len(s) \in Nat
    OBVIOUS
  <2> HIDE DEF f
  <2>4. f + Len(d) \in from + Len(d) .. Len(s) + 1 /\ f + Len(d) - Len(d) = f
    BY <2>2, <2>3
  <2> QED
    BY <1>3, <2>1, <2>2, <2>4
<1> QED
  BY <1>1, <1>2, <1>3
-----------------------------------------------------------------------------
(***************************************************************************)
(* What a client sends.                                                    *)
(***************************************************************************)
Headers == [key : Word, value : Word, spaced : BOOLEAN]

LEMMA Six ==
    ASSUME NEW S, NEW a \in S, NEW b \in S, NEW c \in S, NEW d \in S, NEW e \in S, NEW f \in S
    PROVE  LET t == <<a, b>> \o <<c>> \o <<d>> \o <<e, f>>
           IN  /\ t \in Seq(S) /\ Len(t) = 6
               /\ t[1] = a /\ t[2] = b /\ t[3] = c /\ t[4] = d /\ t[5] = e /\ t[6] = f
  OBVIOUS

LEMMA Five ==
    ASSUME NEW S, NEW a \in S, NEW b \in S, NEW d \in S, NEW e \in S, NEW f \in S
    PROVE  LET t == <<a, b>> \o <<>> \o <<d>> \o <<e, f>>
           IN  /\ t \in Seq(S) /\ Len(t) = 5
               /\ t[1] = a /\ t[2] = b /\ t[3] = d /\ t[4] = e /\ t[5] = f
  OBVIOUS

LEMMA HeaderIs ==
    ASSUME NEW h \in Headers
    PROVE  LET t == HeaderText(h)
               n == Len(t)
           IN  /\ t \in Seq(Tokens) /\ n \in {5, 6}
               /\ t[n - 1] = "CR" /\ t[n] = "LF"
               /\ \A i \in 1 .. n : t[i] = "LF" => i = n
               /\ h.spaced => /\ n = 6 /\ t[1] = h.key /\ t[2] = ":" /\ t[3] = " "
                              /\ t[4] = h.value
<1> DEFINE t == HeaderText(h)
           n == Len(t)
<1>1. h.key \in Word /\ h.value \in Word /\ h.spaced \in BOOLEAN
  BY DEF Headers
<1>2. /\ h.key \in Tokens /\ h.value \in Tokens /\ ":" \in Tokens /\ " " \in Tokens
      /\ "CR" \in Tokens /\ "LF" \in Tokens /\ h.key # "LF" /\ h.value # "LF"
  BY <1>1 DEF Word, Tokens
<1>3. CASE h.spaced
  <2>1. t = <<h.key, ":">> \o <<" ">> \o <<h.value>> \o <<"CR", "LF">>
    BY <1>3 DEF HeaderText, Space, Line
  <2>2. /\ t \in Seq(Tokens) /\ Len(t) = 6 /\ t[1] = h.key /\ t[2] = ":" /\ t[3] = " "
        /\ t[4] = h.value /\ t[5] = "CR" /\ t[6] = "LF"
    <3> HIDE DEF t, Tokens
    <3> DEFINE u == <<h.key, ":">> \o <<" ">> \o <<h.value>> \o <<"CR", "LF">>
    <3>1. /\ u \in Seq(Tokens) /\ Len(u) = 6
          /\ u[1] = h.key /\ u[2] = ":" /\ u[3] = " " /\ u[4] = h.value /\ u[5] = "CR" /\ u[6] = "LF"
      <4>1. h.key \in Tokens /\ ":" \in Tokens /\ " " \in Tokens
        BY <1>2
      <4>2. h.value \in Tokens /\ "CR" \in Tokens /\ "LF" \in Tokens
        BY <1>2
      <4> QED
        <5>1. PICK a \in Tokens : a = h.key
          BY <4>1
        <5>2. PICK b \in Tokens, c \in Tokens : b = ":" /\ c = " "
          BY <4>1
        <5>3. PICK d \in Tokens : d = h.value
          BY <4>2
        <5>4. PICK e \in Tokens, f \in Tokens : e = "CR" /\ f = "LF"
          BY <4>2
        <5> DEFINE w == <<a, b>> \o <<c>> \o <<d>> \o <<e, f>>
        <5>5. /\ w \in Seq(Tokens) /\ Len(w) = 6
              /\ w[1] = a /\ w[2] = b /\ w[3] = c /\ w[4] = d /\ w[5] = e /\ w[6] = f
          BY Six
        <5>6. u = w
          BY <5>1, <5>2, <5>3, <5>4
        <5> HIDE DEF w, u
        <5> QED
          BY <5>1, <5>2, <5>3, <5>4, <5>5, <5>6
    <3> HIDE DEF u
    <3> QED
      BY <2>1, <3>1 DEF u
  <2> HIDE DEF t
  <2>3. n = 6
    BY <2>2
  <2> HIDE DEF n
  <2>6. 1 .. n = {1, 2, 3, 4, 5, 6} /\ n - 1 = 5
    BY <2>3
  <2>4. \A i \in 1 .. n : t[i] = "LF" => i = n
    BY <1>2, <2>2, <2>3, <2>6
  <2>5. t[n - 1] = "CR" /\ t[n] = "LF" /\ n \in {5, 6}
    BY <2>2, <2>3, <2>6
  <2> QED
    BY <2>2, <2>3, <2>4, <2>5 DEF t, n
<1>4. CASE ~h.spaced
  <2>1. t = <<h.key, ":">> \o <<>> \o <<h.value>> \o <<"CR", "LF">>
    BY <1>4 DEF HeaderText, Space, Line
  <2>2. /\ t \in Seq(Tokens) /\ Len(t) = 5 /\ t[1] = h.key /\ t[2] = ":" /\ t[3] = h.value
        /\ t[4] = "CR" /\ t[5] = "LF"
    <3> HIDE DEF t, Tokens
    <3> DEFINE u == <<h.key, ":">> \o <<>> \o <<h.value>> \o <<"CR", "LF">>
    <3>1. /\ u \in Seq(Tokens) /\ Len(u) = 5
          /\ u[1] = h.key /\ u[2] = ":" /\ u[3] = h.value /\ u[4] = "CR" /\ u[5] = "LF"
      <4>1. h.key \in Tokens /\ ":" \in Tokens
        BY <1>2
      <4>2. h.value \in Tokens /\ "CR" \in Tokens /\ "LF" \in Tokens
        BY <1>2
      <4> QED
        BY <4>1, <4>2, Five
    <3> HIDE DEF u
    <3> QED
      BY <2>1, <3>1 DEF u
  <2> HIDE DEF t
  <2>3. n = 5
    BY <2>2
  <2> HIDE DEF n
  <2>6. 1 .. n = {1, 2, 3, 4, 5} /\ n - 1 = 4
    BY <2>3
  <2>4. \A i \in 1 .. n : t[i] = "LF" => i = n
    BY <1>2, <2>2, <2>3, <2>6
  <2>5. t[n - 1] = "CR" /\ t[n] = "LF" /\ n \in {5, 6}
    BY <2>2, <2>3, <2>6
  <2> QED
    BY <1>4, <2>2, <2>4, <2>5 DEF t, n
<1> QED
  BY <1>3, <1>4

\* FlattenSeq, one sequence after another.
Flat(v, seqs, n) ==
    /\ v[0] = <<>> /\ FlattenSeq(seqs) = v[n]
    /\ \A k \in 1 .. n : v[k] = v[k - 1] \o seqs[k]

LEMMA FlatExists ==
    ASSUME NEW seqs \in Seq(Seq(Tokens)), NEW n, n = Len(seqs)
    PROVE  \E v : Flat(v, seqs, n)
<1> DEFINE Step(f, i) == IF i = 1 THEN seqs[i] ELSE f[i - 1] \o seqs[i]
           Iter(f) == [i \in 1 .. n |-> Step(f, i)]
           flatten == CHOOSE f : f = Iter(f)
           Part(m, f) == f = [i \in 1 .. m |-> Step(f, i)]
           T == {m \in Nat : \E f : Part(m, f)}
<1>1. n \in Nat
  OBVIOUS
<1>2. FlattenSeq(seqs) = IF n = 0 THEN seqs ELSE flatten[n]
  BY DEF FlattenSeq
<1>3. 0 \in T
  <2>1. Part(0, [i \in 1 .. 0 |-> <<>>])
    OBVIOUS
  <2> QED
    BY <2>1
<1>4. ASSUME NEW m \in T PROVE m + 1 \in T
  <2>1. m \in Nat
    OBVIOUS
  <2>2. PICK f : Part(m, f)
    OBVIOUS
  <2> DEFINE g == [i \in 1 .. m + 1 |-> IF i = m + 1 THEN Step(f, i) ELSE f[i]]
  <2>3. ASSUME NEW i \in 1 .. m + 1 PROVE g[i] = Step(g, i)
    <3> HIDE DEF T
    <3>1. ASSUME i # 1 PROVE g[i - 1] = f[i - 1]
      BY <2>1, <3>1
    <3>2. Step(g, i) = Step(f, i)
      <4> HIDE DEF g
      <4> QED
        BY <3>1
    <3>3. CASE i = m + 1
      BY <3>2, <3>3
    <3>4. CASE i # m + 1
      <4>1. i \in 1 .. m
        BY <2>1, <3>4
      <4>2. f[i] = Step(f, i)
        <5> HIDE DEF Step
        <5> QED
          BY <2>2, <4>1
      <4> QED
        BY <3>2, <3>4, <4>2
    <3> QED
      BY <3>3, <3>4
  <2>4. Part(m + 1, g)
    <3> HIDE DEF Step, T
    <3> QED
      BY <2>3
  <2>5. \E h : Part(m + 1, h)
    BY <2>4
  <2> HIDE DEF Part
  <2> QED
    BY <2>1, <2>5
<1>5. n \in T
  <2> HIDE DEF T
  <2>1. T \subseteq Nat
    BY DEF T
  <2> QED
    BY <1>1, <1>3, <1>4, <2>1, Inductive
<1>6. \E f : f = Iter(f)
  BY <1>5
<1>7. flatten = Iter(flatten)
  BY <1>6
<1> HIDE DEF flatten
<1>8. \A i \in 1 .. n : flatten[i] = Step(flatten, i)
  <2> HIDE DEF Step
  <2> QED
    BY <1>7
<1> DEFINE v == [k \in 0 .. n |-> IF k = 0 THEN <<>> ELSE flatten[k]]
<1>9. v[0] = <<>>
  BY <1>1
<1>10. FlattenSeq(seqs) = v[n]
  BY <1>1, <1>2
<1>11. ASSUME NEW k \in 1 .. n PROVE v[k] = v[k - 1] \o seqs[k]
  <2>1. k \in 0 .. n /\ k - 1 \in 0 .. n /\ k # 0
    BY <1>1
  <2>2. v[k] = Step(flatten, k)
    BY <1>8, <2>1
  <2>3. seqs[k] \in Seq(Tokens)
    BY ElementOfSeq
  <2>4. CASE k = 1
    <3>1. v[k - 1] = <<>> /\ v[k] = seqs[k]
      BY <2>1, <2>2, <2>4
    <3> QED
      BY <2>3, <3>1, ConcatEmptySeq
  <2>5. CASE k # 1
    <3>1. v[k] = flatten[k - 1] \o seqs[k]
      BY <2>2, <2>5
    <3>2. k - 1 # 0
      BY <1>1, <2>5
    <3>3. v[k - 1] = flatten[k - 1]
      BY <2>1, <3>2
    <3> QED
      BY <3>1, <3>3
  <2> QED
    BY <2>4, <2>5
<1> HIDE DEF v
<1> QED
  BY <1>9, <1>10, <1>11 DEF Flat

\* What follows a text is found behind it, and the text where it was.
Joins(w, s, t) ==
    /\ w \in Seq(Tokens) /\ Len(w) = Len(s) + Len(t)
    /\ \A i \in 1 .. Len(s) : w[i] = s[i]
    /\ \A i \in 1 .. Len(t) : w[Len(s) + i] = t[i]

LEMMA Concat ==
    ASSUME NEW s \in Seq(Tokens), NEW t \in Seq(Tokens), NEW w, w = s \o t
    PROVE  Joins(w, s, t)
<1> HIDE DEF Tokens
<1>1. Len(s) \in Nat /\ Len(t) \in Nat
  OBVIOUS
<1>2. w \in Seq(Tokens) /\ Len(w) = Len(s) + Len(t)
  BY ConcatProperties
<1>3. ASSUME NEW i \in 1 .. Len(s) PROVE w[i] = s[i]
  BY <1>1, ConcatProperties
<1>4. ASSUME NEW i \in 1 .. Len(t) PROVE w[Len(s) + i] = t[i]
  BY <1>1, ConcatProperties
<1> QED
  BY <1>2, <1>3, <1>4 DEF Joins

\* The texts of the headers, one after another: they end a line, and if each
\* has its space, the k-th begins after six tokens for each before it.
HeadersText(hs) == FlattenSeq([i \in DOMAIN hs |-> HeaderText(hs[i])])
HeadersPlaced(hs, t) ==
    /\ t \in Seq(Tokens)
    /\ IF Len(hs) = 0 THEN t = <<>>
       ELSE Len(t) >= 2 /\ t[Len(t) - 1] = "CR" /\ t[Len(t)] = "LF"
    /\ (\A i \in 1 .. Len(hs) : hs[i].spaced) =>
        /\ Len(t) = 6 * Len(hs)
        /\ \A k \in 1 .. Len(hs) : \A j \in 1 .. 6 : t[6 * (k - 1) + j] = HeaderText(hs[k])[j]

LEMMA FlatIs == ASSUME NEW hs \in Seq(Headers) PROVE HeadersPlaced(hs, HeadersText(hs))
<1> DEFINE n == Len(hs)
           t == HeadersText(hs)
<1> DEFINE texts == [i \in DOMAIN hs |-> HeaderText(hs[i])]
           All == \A i \in 1 .. n : hs[i].spaced
           Ends(s, k) == IF k = 0 THEN s = <<>>
                         ELSE Len(s) >= 2 /\ s[Len(s) - 1] = "CR" /\ s[Len(s)] = "LF"
           Placed(s, k) == \A i \in 1 .. k : \A j \in 1 .. 6 : s[6 * (i - 1) + j] = HeaderText(hs[i])[j]
<1>1. n \in Nat /\ DOMAIN hs = 1 .. n
  OBVIOUS
<1>2. ASSUME NEW k \in 1 .. n
      PROVE  /\ texts[k] = HeaderText(hs[k]) /\ texts[k] \in Seq(Tokens)
             /\ Len(texts[k]) >= 2 /\ texts[k][Len(texts[k]) - 1] = "CR" /\ texts[k][Len(texts[k])] = "LF"
             /\ All => Len(texts[k]) = 6
  <2>1. hs[k] \in Headers
    BY <1>1, ElementOfSeq
  <2>2. texts[k] = HeaderText(hs[k])
    BY <1>1
  <2> DEFINE u == HeaderText(hs[k])
  <2>3. u \in Seq(Tokens) /\ Len(u) \in {5, 6} /\ u[Len(u) - 1] = "CR" /\ u[Len(u)] = "LF"
        /\ (hs[k].spaced => Len(u) = 6)
    BY <2>1, HeaderIs
  <2> HIDE DEF texts, u
  <2>4. Len(u) >= 2
    <3>1. \A x : x \in {5, 6} => x >= 2
      OBVIOUS
    <3> QED
      BY <2>3, <3>1
  <2>5. ASSUME All PROVE Len(u) = 6
    BY <2>3, <2>5
  <2> HIDE DEF All
  <2> QED
    BY <2>2, <2>3, <2>4, <2>5 DEF u
<1>3. texts \in Seq(Seq(Tokens)) /\ Len(texts) = n
  <2>1. texts = [k \in 1 .. n |-> texts[k]]
    BY <1>1
  <2>2. \A k \in 1 .. n : texts[k] \in Seq(Tokens)
    BY <1>2
  <2> HIDE DEF texts
  <2>3. texts \in [1 .. n -> Seq(Tokens)]
    BY <2>1, <2>2
  <2>4. texts \in Seq(Seq(Tokens))
    BY <1>1, <2>3
  <2>5. DOMAIN texts = 1 .. n
    BY <2>3
  <2> QED
    BY <1>1, <2>4, <2>5, LenProperties
<1>4. PICK v : Flat(v, texts, n)
  <2> HIDE DEF texts
  <2> QED
    BY <1>3, FlatExists
<1>5. v[0] = <<>> /\ t = v[n]
  BY <1>4 DEF Flat, HeadersText
<1>6. \A k \in 1 .. n : v[k] = v[k - 1] \o texts[k]
  BY <1>4 DEF Flat
<1> HIDE DEF texts, t
<1> DEFINE Good(k) == /\ v[k] \in Seq(Tokens) /\ Ends(v[k], k)
                      /\ All => Len(v[k]) = 6 * k /\ Placed(v[k], k)
           T == {k \in Nat : k <= n => Good(k)}
<1>7. 0 \in T
  <2>1. Good(0)
    BY <1>5
  <2> QED
    BY <2>1
<1>8. ASSUME NEW k \in T PROVE k + 1 \in T
  <2>1. k \in Nat
    OBVIOUS
  <2>2. ASSUME k + 1 <= n PROVE Good(k + 1)
    <3> DEFINE s == v[k]
               u == texts[k + 1]
               w == v[k + 1]
    <3>1. k <= n /\ k + 1 \in 1 .. n /\ k + 1 # 0 /\ (k + 1) - 1 = k
      BY <1>1, <2>1, <2>2
    <3>2. Good(k)
      BY <3>1
    <3> HIDE DEF T
    <3>3. s \in Seq(Tokens) /\ (All => Len(s) = 6 * k /\ Placed(s, k))
      BY <3>2
    <3>4. w = s \o u
      BY <1>6, <3>1
    <3>5. /\ u = HeaderText(hs[k + 1]) /\ u \in Seq(Tokens)
          /\ Len(u) >= 2 /\ u[Len(u) - 1] = "CR" /\ u[Len(u)] = "LF"
          /\ All => Len(u) = 6
      BY <1>2, <3>1
    <3> HIDE DEF s, u, w
    <3>6. /\ w \in Seq(Tokens) /\ Len(w) = Len(s) + Len(u)
          /\ \A i \in 1 .. Len(s) : w[i] = s[i]
          /\ \A i \in 1 .. Len(u) : w[Len(s) + i] = u[i]
      BY <3>3, <3>4, <3>5, Concat DEF Joins
    <3>7. Len(s) \in Nat /\ Len(u) \in Nat
      BY <3>3, <3>5
    <3>8. Ends(w, k + 1)
      <4>1. Len(u) - 1 \in 1 .. Len(u) /\ Len(u) \in 1 .. Len(u)
        BY <3>5, <3>7
      <4>2. w[Len(s) + (Len(u) - 1)] = "CR" /\ w[Len(s) + Len(u)] = "LF"
        BY <3>5, <3>6, <4>1
      <4>3. Len(s) + (Len(u) - 1) = Len(w) - 1 /\ Len(w) >= 2
        BY <3>5, <3>6, <3>7
      <4> QED
        BY <3>1, <3>6, <4>2, <4>3
    <3>9. ASSUME All PROVE Len(w) = 6 * (k + 1) /\ Placed(w, k + 1)
      <4>1. Len(s) = 6 * k /\ Placed(s, k) /\ Len(u) = 6
        BY <3>3, <3>5, <3>9
      <4>2. Len(w) = 6 * (k + 1)
        BY <2>1, <3>6, <4>1
      <4>3. ASSUME NEW i \in 1 .. k + 1, NEW j \in 1 .. 6 PROVE w[6 * (i - 1) + j] = HeaderText(hs[i])[j]
        <5>1. CASE i = k + 1
          <6>1. j \in 1 .. Len(u) /\ Len(s) + j = 6 * (i - 1) + j
            BY <2>1, <4>1, <5>1
          <6> QED
            BY <3>5, <3>6, <5>1, <6>1
        <5>2. CASE i # k + 1
          <6>1. i \in 1 .. k
            BY <2>1, <5>2
          <6>2. 6 * (i - 1) + j \in 1 .. Len(s)
            BY <2>1, <4>1, <6>1
          <6>3. s[6 * (i - 1) + j] = HeaderText(hs[i])[j]
            BY <4>1, <6>1
          <6> QED
            BY <3>6, <6>2, <6>3
        <5> QED
          BY <5>1, <5>2
      <4> HIDE DEF All
      <4> QED
        BY <4>2, <4>3
    <3> HIDE DEF Ends, Placed, All
    <3> QED
      BY <3>6, <3>8, <3>9 DEF w
  <2> HIDE DEF Good
  <2> QED
    BY <2>1, <2>2
<1>9. n \in T
  <2> HIDE DEF T
  <2>1. T \subseteq Nat
    BY DEF T
  <2> QED
    BY <1>1, <1>7, <1>8, <2>1, Inductive
<1>10. Good(n)
  <2> HIDE DEF Good
  <2> QED
    BY <1>1, <1>9
<1> HIDE DEF T
<1>11. t \in Seq(Tokens) /\ Ends(t, n) /\ (All => Len(t) = 6 * n /\ Placed(t, n))
  <2> HIDE DEF Ends, Placed, All
  <2> QED
    BY <1>5, <1>10
<1> HIDE DEF Good
<1>12. IF n = 0 THEN t = <<>> ELSE Len(t) >= 2 /\ t[Len(t) - 1] = "CR" /\ t[Len(t)] = "LF"
  BY <1>11
<1>13. All => /\ Len(t) = 6 * n
              /\ \A k \in 1 .. n : \A j \in 1 .. 6 : t[6 * (k - 1) + j] = HeaderText(hs[k])[j]
  <2> HIDE DEF Ends, All
  <2> QED
    BY <1>11
<1> QED
  BY <1>11, <1>12, <1>13 DEF HeadersPlaced, t

LEMMA Seven ==
    ASSUME NEW S, NEW a \in S, NEW b \in S, NEW c \in S, NEW d \in S, NEW e \in S, NEW f \in S
    PROVE  LET t == <<a>> \o <<b>> \o <<c>> \o <<b>> \o <<d>> \o <<e, f>>
           IN  /\ t \in Seq(S) /\ Len(t) = 7
               /\ t[1] = a /\ t[2] = b /\ t[3] = c /\ t[4] = b /\ t[5] = d /\ t[6] = e /\ t[7] = f
  OBVIOUS

\* The first line.
FirstLine(r) == <<r.method>> \o Space \o <<"URI">> \o Space \o <<r.protocol>> \o Line

LEMMA FirstLineIs ==
    ASSUME NEW r \in Requests
    PROVE  LET t == FirstLine(r)
           IN  /\ t \in Seq(Tokens) /\ Len(t) = 7
               /\ t[1] = r.method /\ t[2] = " " /\ t[3] = "URI" /\ t[4] = " " /\ t[5] = r.protocol
               /\ t[6] = "CR" /\ t[7] = "LF"
<1>1. r.method \in Word /\ r.protocol \in Word
  BY RequestsAssumption
<1>2. /\ r.method \in Tokens /\ r.protocol \in Tokens /\ " " \in Tokens
      /\ "URI" \in Tokens /\ "CR" \in Tokens /\ "LF" \in Tokens
  BY <1>1 DEF Word, Tokens
<1> HIDE DEF Tokens
<1>3. PICK a \in Tokens, b \in Tokens, c \in Tokens : a = r.method /\ b = " " /\ c = "URI"
  BY <1>2
<1>4. PICK d \in Tokens : d = r.protocol
  BY <1>2
<1>5. PICK e \in Tokens, f \in Tokens : e = "CR" /\ f = "LF"
  BY <1>2
<1> DEFINE w == <<a>> \o <<b>> \o <<c>> \o <<b>> \o <<d>> \o <<e, f>>
           t == FirstLine(r)
<1>6. /\ w \in Seq(Tokens) /\ Len(w) = 7
      /\ w[1] = a /\ w[2] = b /\ w[3] = c /\ w[4] = b /\ w[5] = d /\ w[6] = e /\ w[7] = f
  BY Seven
<1>7. t = w
  BY <1>3, <1>4, <1>5 DEF FirstLine, Space, Line
<1> HIDE DEF w, t
<1>8. /\ t \in Seq(Tokens) /\ Len(t) = 7
      /\ t[1] = r.method /\ t[2] = " " /\ t[3] = "URI" /\ t[4] = " " /\ t[5] = r.protocol
      /\ t[6] = "CR" /\ t[7] = "LF"
  BY <1>3, <1>4, <1>5, <1>6, <1>7
<1> QED
  BY <1>8 DEF t

AllSpaced(r) == \A i \in DOMAIN r.headers : r.headers[i].spaced

\* The whole of a message: the first line, the headers, the blank line that ends
\* the head, the body.  Each header that has its space is six tokens.
LEMMA TextIs ==
    ASSUME NEW r \in Requests
    PROVE  LET s == Text(r)
               n == Len(r.headers)
               end == Len(HeadText(r))
           IN  /\ s \in Seq(Tokens) /\ n \in Nat /\ end \in Nat /\ end >= 9
               /\ r.size \in Nat /\ Len(s) = end + r.size
               /\ s[1] = r.method /\ s[2] = " " /\ s[3] = "URI" /\ s[4] = " " /\ s[5] = r.protocol
               /\ s[6] = "CR" /\ s[7] = "LF"
               /\ s[end - 3] = "CR" /\ s[end - 2] = "LF" /\ s[end - 1] = "CR" /\ s[end] = "LF"
               /\ \A i \in 1 .. r.size : s[end + i] = "byte"
               /\ AllSpaced(r) =>
                    /\ end = 9 + 6 * n
                    /\ \A k \in 1 .. n : \A j \in 1 .. 6 :
                        s[1 + 6 * k + j] = HeaderText(r.headers[k])[j]
<1> DEFINE n == Len(r.headers)
           a == FirstLine(r)
           t == HeadersText(r.headers)
           head == HeadText(r)
           body == BodyText(r)
           s == Text(r)
           end == Len(head)
           Placed(u, m) == \A k \in 1 .. n : \A j \in 1 .. 6 :
                        u[6 * (k - 1) + j + m] = HeaderText(r.headers[k])[j]
<1>1. r.headers \in Seq(Headers) /\ n \in Nat /\ DOMAIN r.headers = 1 .. n
  <2>1. r.headers \in Seq(Headers)
    BY RequestsAssumption DEF Headers
  <2> HIDE DEF Headers
  <2> QED
    BY <2>1
<1>2. /\ t \in Seq(Tokens)
      /\ IF n = 0 THEN t = <<>>
         ELSE Len(t) >= 2 /\ t[Len(t) - 1] = "CR" /\ t[Len(t)] = "LF"
      /\ AllSpaced(r) =>
           /\ Len(t) = 6 * n
           /\ \A k \in 1 .. n : \A j \in 1 .. 6 : t[6 * (k - 1) + j] = HeaderText(r.headers[k])[j]
  <2>1. (\A i \in 1 .. n : r.headers[i].spaced) <=> AllSpaced(r)
    BY <1>1 DEF AllSpaced
  <2>2. HeadersPlaced(r.headers, t)
    BY <1>1, FlatIs
  <2> QED
    BY <2>1, <2>2 DEF HeadersPlaced
<1>3. /\ a \in Seq(Tokens) /\ Len(a) = 7
      /\ a[1] = r.method /\ a[2] = " " /\ a[3] = "URI" /\ a[4] = " " /\ a[5] = r.protocol
      /\ a[6] = "CR" /\ a[7] = "LF"
  BY FirstLineIs
<1>4. Line \in Seq(Tokens) /\ Len(Line) = 2 /\ Line[1] = "CR" /\ Line[2] = "LF"
  BY Delimiters
<1>5. /\ r.size \in Nat /\ body \in Seq(Tokens) /\ Len(body) = r.size
      /\ \A i \in 1 .. r.size : body[i] = "byte"
  <2>1. "byte" \in Tokens /\ r.size \in Nat
    BY RequestsAssumption DEF Tokens
  <2> HIDE DEF Tokens
  <2>2. body = [i \in 1 .. r.size |-> "byte"]
    BY DEF BodyText
  <2> QED
    BY <2>1, <2>2
<1>6. head = (a \o t) \o Line /\ s = head \o body
  BY DEF HeadText, Text, FirstLine, HeadersText
<1> HIDE DEF a, t, head, body, s
<1> DEFINE at == a \o t
<1>7. /\ at \in Seq(Tokens) /\ Len(at) = 7 + Len(t)
      /\ \A i \in 1 .. 7 : at[i] = a[i]
      /\ \A i \in 1 .. Len(t) : at[7 + i] = t[i]
  <2>1. at = a \o t
    OBVIOUS
  <2> HIDE DEF Tokens, at
  <2> QED
    <3>1. Joins(at, a, t)
      BY <1>2, <1>3, <2>1, Concat
    <3> QED
      BY <1>3, <3>1 DEF Joins
<1>8. head = at \o Line
  BY <1>6
<1> HIDE DEF at, Tokens
<1>9. /\ head \in Seq(Tokens) /\ end = Len(at) + 2
      /\ \A i \in 1 .. Len(at) : head[i] = at[i]
      /\ \A i \in 1 .. 2 : head[Len(at) + i] = Line[i]
  <2>1. Joins(head, at, Line)
    BY <1>4, <1>7, <1>8, Concat
  <2> QED
    BY <1>4, <2>1 DEF Joins
<1>10. /\ s \in Seq(Tokens) /\ Len(s) = end + Len(body)
       /\ \A i \in 1 .. end : s[i] = head[i]
       /\ \A i \in 1 .. Len(body) : s[end + i] = body[i]
  <2>1. Joins(s, head, body)
    BY <1>5, <1>6, <1>9, Concat
  <2> QED
    BY <2>1 DEF Joins
<1>11. Len(t) \in Nat /\ Len(at) \in Nat /\ end \in Nat /\ end = 9 + Len(t) /\ Len(at) = end - 2
  BY <1>2, <1>7, <1>9
<1> HIDE DEF end
<1>12. \A i \in 1 .. Len(at) : s[i] = at[i]
  BY <1>9, <1>10, <1>11
<1>13. \A i \in 1 .. 7 : s[i] = a[i]
  BY <1>7, <1>11, <1>12
<1>14. \A i \in 1 .. Len(t) : s[7 + i] = t[i]
  BY <1>7, <1>11, <1>12
<1>15. /\ s[1] = r.method /\ s[2] = " " /\ s[3] = "URI" /\ s[4] = " " /\ s[5] = r.protocol
       /\ s[6] = "CR" /\ s[7] = "LF"
  <2>1. \A i \in {1, 2, 3, 4, 5, 6, 7} : s[i] = a[i]
    BY <1>13
  <2> HIDE DEF Headers
  <2> QED
    BY <1>3, <2>1
<1>16. s[end - 1] = "CR" /\ s[end] = "LF"
  <2>1. Len(at) + 1 = end - 1 /\ Len(at) + 2 = end /\ end - 1 \in 1 .. end /\ end \in 1 .. end
    BY <1>11
  <2>2. head[end - 1] = Line[1] /\ head[end] = Line[2]
    BY <1>9, <2>1
  <2> QED
    BY <1>4, <1>10, <2>1, <2>2
<1>17. s[end - 3] = "CR" /\ s[end - 2] = "LF"
  <2>1. CASE n = 0
    <3>1. Len(t) = 0
      BY <1>2, <2>1
    <3>2. end - 3 = 6 /\ end - 2 = 7
      BY <1>11, <3>1
    <3> QED
      BY <1>15, <3>2
  <2>2. CASE n # 0
    <3>1. Len(t) - 1 \in 1 .. Len(t) /\ Len(t) \in 1 .. Len(t)
      BY <1>2, <1>11, <2>2
    <3>2. 7 + (Len(t) - 1) = end - 3 /\ 7 + Len(t) = end - 2
      BY <1>11
    <3>3. s[end - 3] = t[Len(t) - 1] /\ s[end - 2] = t[Len(t)]
      BY <1>14, <3>1, <3>2
    <3> QED
      BY <1>2, <2>2, <3>3
  <2> QED
    BY <2>1, <2>2
<1>18. r.size \in Nat /\ Len(s) = end + r.size
  BY <1>5, <1>10, <1>11
<1>19. \A i \in 1 .. r.size : s[end + i] = "byte"
  BY <1>5, <1>10
<1>20. ASSUME AllSpaced(r)
       PROVE  /\ end = 9 + 6 * n
              /\ \A k \in 1 .. n : \A j \in 1 .. 6 : s[1 + 6 * k + j] = HeaderText(r.headers[k])[j]
  <2>1. Len(t) = 6 * n
    BY <1>2, <1>20
  <2>2. ASSUME NEW k \in 1 .. n, NEW j \in 1 .. 6
        PROVE  s[1 + 6 * k + j] = HeaderText(r.headers[k])[j]
    <3>1. t[6 * (k - 1) + j] = HeaderText(r.headers[k])[j]
      BY <1>2, <1>20
    <3>2. 6 * (k - 1) + j \in 1 .. Len(t) /\ 7 + (6 * (k - 1) + j) = 1 + 6 * k + j
      BY <1>1, <2>1
    <3> QED
      BY <1>14, <3>1, <3>2
  <2> QED
    BY <1>11, <2>1, <2>2
<1>21. end \in Nat /\ end >= 9
  BY <1>11
<1> HIDE DEF n
<1> QED
  BY <1>1, <1>10, <1>15, <1>16, <1>17, <1>18, <1>19, <1>20, <1>21 DEF n, s, end, head
-----------------------------------------------------------------------------
(***************************************************************************)
(* http_parse_headers().                                                   *)
(***************************************************************************)
LEMMA TokenVal ==
    ASSUME NEW s \in Seq(Tokens), NEW d \in Seq(Tokens), d # <<>>, NEW from \in Nat
    PROVE  Token(s, d, from).val \in Seq(Tokens)
<1> HIDE DEF Tokens
<1>1. CASE from = 0
  <2>1. Token(s, d, from).val = <<>>
    BY <1>1 DEF Token
  <2> QED
    BY <2>1
<1>2. CASE from # 0 /\ Find(s, d, from) = 0
  <2>1. Token(s, d, from).val = <<>>
    BY <1>2, TokenIs
  <2> QED
    BY <2>1
<1>3. CASE from # 0 /\ Find(s, d, from) # 0
  <2> DEFINE f == Find(s, d, from)
  <2>1. Token(s, d, from).val = SubSeq(s, from, f - 1)
    BY <1>3, TokenIs
  <2>2. f \in from .. Len(s) - Len(d) + 1
    BY <1>3, FindIs
  <2>3. Len(d) \in Nat /\ Len(s) \in Nat /\ Len(d) # 0
    BY EmptySeq
  <2> HIDE DEF f
  <2>4. \A i \in from .. f - 1 : i \in 1 .. Len(s)
    BY <1>3, <2>2, <2>3
  <2>5. from \in Int /\ f - 1 \in Int
    BY <2>2, <2>3
  <2>6. SubSeq(s, from, f - 1) \in Seq(Tokens)
    BY <2>4, <2>5, SubSeqProperties
  <2> QED
    BY <2>1, <2>6
<1> QED
  BY <1>1, <1>2, <1>3

\* Where the parser goes on after a header: behind its line, or at no address.
KeyAt(s, at) == Token(s, KeyEnd, at)
ValueAt(s, at) == Token(s, Line, KeyAt(s, at).next)
HeaderAt(s, at) == [key |-> KeyAt(s, at).val, value |-> ValueAt(s, at).val]

LEMMA GoesOn ==
    ASSUME NEW s \in Seq(Tokens), NEW at \in 1 .. Len(s) + 1
    PROVE  ValueAt(s, at).next \in {0} \cup at + 1 .. Len(s) + 1
<1>1. Len(s) \in Nat
  OBVIOUS
<1> HIDE DEF Tokens
<1>2. /\ KeyEnd \in Seq(Tokens) /\ Len(KeyEnd) = 2 /\ KeyEnd # <<>>
      /\ Line \in Seq(Tokens) /\ Len(Line) = 2 /\ Line # <<>>
  BY Delimiters, EmptySeq
<1> DEFINE k == KeyAt(s, at).next
           v == ValueAt(s, at).next
<1>3. k = 0 \/ k \in at + 2 .. Len(s) + 1
  <2>1. at \in Nat /\ k = Token(s, KeyEnd, at).next
    BY <1>1 DEF KeyAt
  <2> HIDE DEF k
  <2> QED
    BY <1>2, <2>1, TokenNext
<1>4. k \in Nat
  BY <1>1, <1>3
<1>5. v = 0 \/ (k # 0 /\ v \in k + 2 .. Len(s) + 1)
  <2> HIDE DEF k
  <2>1. v = Token(s, Line, k).next
    BY DEF k, ValueAt
  <2> HIDE DEF v
  <2> QED
    BY <1>2, <1>4, <2>1, TokenNext
<1> HIDE DEF k, v
<1>6. v = 0 \/ v \in at + 1 .. Len(s) + 1
  BY <1>1, <1>3, <1>4, <1>5
<1> QED
  BY <1>6 DEF v

Unended == [headers |-> <<>>, next |-> 0]
Ended(at) == [headers |-> <<>>, next |-> at + Len(Line)]
Prepended(h, rest) == [rest EXCEPT !.headers = <<h>> \o @]
ParseStep(s, P, at) ==
    IF at = 0 THEN Unended
    ELSE IF Find(s, Line, at) = at THEN Ended(at)
    ELSE Prepended(HeaderAt(s, at), P[ValueAt(s, at).next])

\* The loop ends, since each turn goes on further behind: what it finds from an
\* address is what its turn there and the loop from the next address find.
LEMMA LoopExists ==
    ASSUME NEW s \in Seq(Tokens)
    PROVE  \E P : \A at \in 0 .. Len(s) + 1 :
                ParseHeaders(s, at) = P[at] /\ P[at] = ParseStep(s, P, at)
<1> DEFINE n == Len(s) + 1
           Body(P, at) ==
             IF at = 0 THEN [headers |-> <<>>, next |-> 0]
             ELSE IF Find(s, Line, at) = at THEN [headers |-> <<>>, next |-> at + Len(Line)]
             ELSE LET key == Token(s, KeyEnd, at)
                      value == Token(s, Line, key.next)
                      rest == P[value.next]
                  IN  [rest EXCEPT !.headers = <<[key |-> key.val, value |-> value.val]>> \o @]
           Iter(P) == [at \in 0 .. Len(s) + 1 |-> Body(P, at)]
           parse == CHOOSE P : P = Iter(P)
           Dom(m) == {at \in 0 .. n : at = 0 \/ at > n - m}
           Part(m, P) == P = [at \in Dom(m) |-> Body(P, at)]
           T == {m \in Nat : \E P : Part(m, P)}
<1>1. n \in Nat /\ n >= 1
  OBVIOUS
<1>2. \A at : ParseHeaders(s, at) = parse[at]
  BY DEF ParseHeaders
<1>3. ASSUME NEW P, NEW at PROVE Body(P, at) = ParseStep(s, P, at)
  BY DEF ParseStep, Unended, Ended, Prepended, HeaderAt, KeyAt, ValueAt
<1>4. 0 \in T
  <2>1. Dom(0) = {0}
    BY <1>1
  <2> HIDE DEF Dom
  <2>2. Part(0, [at \in Dom(0) |-> Unended])
    BY <2>1 DEF Unended
  <2> QED
    BY <2>2
<1> HIDE DEF Body
<1>5. ASSUME NEW m \in T PROVE m + 1 \in T
  <2>1. m \in Nat
    OBVIOUS
  <2>2. PICK P : Part(m, P)
    OBVIOUS
  <2> HIDE DEF T
  <2> DEFINE Q == [at \in Dom(m + 1) |-> IF at \in Dom(m) THEN P[at] ELSE ParseStep(s, P, at)]
  <2>3. ASSUME NEW at \in Dom(m + 1) PROVE Q[at] = Body(Q, at)
    <3>1. at \in 0 .. n /\ (at # 0 => at \in 1 .. n /\ at > n - (m + 1))
      BY <1>1, <2>1
    <3>2. ASSUME at # 0 PROVE ValueAt(s, at).next \in Dom(m)
      <4>1. ValueAt(s, at).next \in {0} \cup at + 1 .. n
        BY <3>1, <3>2, GoesOn
      <4> QED
        BY <1>1, <2>1, <3>1, <3>2, <4>1
    <3>3. \A x \in Dom(m) : x \in Dom(m + 1) /\ Q[x] = P[x]
      <4>1. Dom(m) \subseteq Dom(m + 1)
        BY <1>1, <2>1
      <4> HIDE DEF Dom
      <4> QED
        BY <4>1
    <3> HIDE DEF Dom
    <3>4. ParseStep(s, Q, at) = ParseStep(s, P, at)
      <4> HIDE DEF Q
      <4> QED
        BY <3>2, <3>3 DEF ParseStep
    <3>5. Q[at] = ParseStep(s, P, at)
      <4>1. CASE at \in Dom(m)
        <5>1. P[at] = Body(P, at)
          BY <2>2, <4>1
        <5>2. Q[at] = P[at]
          BY <3>3, <4>1
        <5> HIDE DEF Q
        <5> QED
          BY <1>3, <5>1, <5>2
      <4>2. CASE at \notin Dom(m)
        BY <4>2
      <4> QED
        BY <4>1, <4>2
    <3> HIDE DEF Q
    <3> QED
      BY <1>3, <3>4, <3>5
  <2>4. Part(m + 1, Q)
    <3> HIDE DEF Dom
    <3> QED
      BY <2>3
  <2>5. \E R : Part(m + 1, R)
    BY <2>4
  <2> HIDE DEF Part
  <2> QED
    BY <2>1, <2>5 DEF T
<1>6. n \in T
  <2> HIDE DEF T
  <2>1. T \subseteq Nat
    BY DEF T
  <2> QED
    BY <1>1, <1>4, <1>5, <2>1, Inductive
<1>7. \E P : P = Iter(P)
  <2>1. PICK P : Part(n, P)
    BY <1>6
  <2>2. Dom(n) = 0 .. Len(s) + 1
    BY <1>1
  <2> HIDE DEF Dom
  <2> QED
    BY <2>1, <2>2
<1>8. parse = Iter(parse)
  BY <1>7
<1> HIDE DEF parse
<1>9. ASSUME NEW at \in 0 .. Len(s) + 1 PROVE parse[at] = ParseStep(s, parse, at)
  <2>1. parse[at] = Body(parse, at)
    BY <1>8
  <2> QED
    BY <1>3, <2>1
<1> QED
  BY <1>2, <1>9

\* (the same, without the function)
LEMMA LoopIs ==
    ASSUME NEW s \in Seq(Tokens), NEW at \in 0 .. Len(s) + 1
    PROVE  /\ at = 0 => ParseHeaders(s, at) = Unended
           /\ at # 0 /\ Find(s, Line, at) = at => ParseHeaders(s, at) = Ended(at)
           /\ at # 0 /\ Find(s, Line, at) # at =>
                ParseHeaders(s, at) =
                    Prepended(HeaderAt(s, at), ParseHeaders(s, ValueAt(s, at).next))
<1>1. PICK P : \A x \in 0 .. Len(s) + 1 : ParseHeaders(s, x) = P[x] /\ P[x] = ParseStep(s, P, x)
  BY LoopExists
<1>2. at # 0 => ValueAt(s, at).next \in 0 .. Len(s) + 1
  <2>1. ASSUME at # 0 PROVE ValueAt(s, at).next \in {0} \cup at + 1 .. Len(s) + 1
    <3>1. at \in 1 .. Len(s) + 1
      BY <2>1
    <3> QED
      BY <3>1, GoesOn
  <2> QED
    BY <2>1
<1> QED
  BY <1>1, <1>2 DEF ParseStep

\* What the parser finds ends behind a line, if it ends.
Heads == [headers : Seq([key : Seq(Tokens), value : Seq(Tokens)]), next : Nat]
EndsALine(s, next) == next # 0 => next \in 3 .. Len(s) + 1 /\ s[next - 1] = "LF"

LEMMA PrependedIs ==
    ASSUME NEW S, NEW T, NEW rest \in [headers : S, next : T],
           NEW h, <<h>> \o rest.headers \in S
    PROVE  /\ Prepended(h, rest) \in [headers : S, next : T]
           /\ Prepended(h, rest).headers = <<h>> \o rest.headers
           /\ Prepended(h, rest).next = rest.next
<1>1. Prepended(h, rest).headers = <<h>> \o rest.headers
  BY DEF Prepended
<1>2. Prepended(h, rest).next = rest.next
  BY DEF Prepended
<1>3. Prepended(h, rest) \in [headers : S, next : T]
  BY DEF Prepended
<1> QED
  BY <1>1, <1>2, <1>3

LEMMA LineIsAt ==
    ASSUME NEW s \in Seq(Tokens), NEW at \in 1 .. Len(s) + 1, Find(s, Line, at) = at
    PROVE  at \in 1 .. Len(s) - 1 /\ s[at] = "CR" /\ s[at + 1] = "LF"
<1> HIDE DEF Tokens
<1>1. Line \in Seq(Tokens) /\ Len(Line) = 2 /\ Line[1] = "CR" /\ Line[2] = "LF" /\ Line # <<>>
  BY Delimiters, EmptySeq
<1>2. Len(s) \in Nat /\ at \in Nat \ {0}
  OBVIOUS
<1>3. at \in at .. Len(s) - Len(Line) + 1 /\ Matches(s, Line, at)
  <2> DEFINE f == Find(s, Line, at)
  <2>1. f # 0 => f \in at .. Len(s) - Len(Line) + 1 /\ Matches(s, Line, f)
    BY <1>1, <1>2, FindIs
  <2> QED
    BY <1>2, <2>1
<1>4. at \in 1 .. Len(s) - 1
  BY <1>1, <1>2, <1>3
<1> QED
  BY <1>1, <1>3, <1>4, MatchTwo

LEMMA LoopTypes ==
    ASSUME NEW s \in Seq(Tokens), NEW start \in 0 .. Len(s) + 1
    PROVE  ParseHeaders(s, start) \in Heads /\ EndsALine(s, ParseHeaders(s, start).next)
<1> DEFINE n == Len(s) + 1
           Good(at) == ParseHeaders(s, at) \in Heads /\ EndsALine(s, ParseHeaders(s, at).next)
           T == {m \in Nat : \A at \in 0 .. n : at = 0 \/ at > n - m => Good(at)}
<1>1. n \in Nat /\ n >= 1
  OBVIOUS
<1> HIDE DEF Tokens
<1>2. Good(0)
  <2>1. 0 \in 0 .. Len(s) + 1
    BY <1>1
  <2>2. ParseHeaders(s, 0) = Unended
    BY <2>1, LoopIs
  <2>3. <<>> \in Seq([key : Seq(Tokens), value : Seq(Tokens)])
    BY EmptySeq
  <2>4. Unended \in Heads /\ Unended.next = 0
    BY <2>3 DEF Unended, Heads
  <2> QED
    BY <2>2, <2>4 DEF EndsALine
<1>3. 0 \in T
  <2> HIDE DEF Good
  <2> QED
    BY <1>1, <1>2
<1>4. ASSUME NEW m \in T PROVE m + 1 \in T
  <2>1. m \in Nat
    OBVIOUS
  <2>2. \A at \in 0 .. n : at = 0 \/ at > n - m => Good(at)
    OBVIOUS
  <2>3. ASSUME NEW at \in 0 .. n, at = 0 \/ at > n - (m + 1) PROVE Good(at)
    <3>1. CASE at = 0
      BY <1>2, <3>1
    <3>2. CASE at # 0 /\ Find(s, Line, at) = at
      <4>1. ParseHeaders(s, at) = Ended(at)
        BY <3>2, LoopIs
      <4>2. at \in 1 .. Len(s) + 1
        BY <1>1, <3>2
      <4>3. at \in 1 .. Len(s) - 1 /\ s[at + 1] = "LF"
        BY <3>2, <4>2, LineIsAt
      <4>4. Len(Line) = 2
        BY Delimiters
      <4>5. ParseHeaders(s, at) \in Heads /\ ParseHeaders(s, at).next = at + 2
        BY <4>1, <4>3, <4>4 DEF Ended, Heads
      <4>6. at + 2 \in 3 .. Len(s) + 1 /\ (at + 2) - 1 = at + 1
        BY <1>1, <4>3
      <4> QED
        BY <4>3, <4>5, <4>6 DEF EndsALine
    <3>3. CASE at # 0 /\ Find(s, Line, at) # at
      <4> DEFINE next == ValueAt(s, at).next
                 rest == ParseHeaders(s, next)
                 h == HeaderAt(s, at)
      <4>1. ParseHeaders(s, at) = Prepended(h, rest)
        BY <3>3, LoopIs
      <4>2. at \in 1 .. Len(s) + 1
        BY <1>1, <3>3
      <4>3. next \in {0} \cup at + 1 .. Len(s) + 1
        BY <4>2, GoesOn
      <4>4. h \in [key : Seq(Tokens), value : Seq(Tokens)]
        <5>1. KeyEnd \in Seq(Tokens) /\ KeyEnd # <<>> /\ Line \in Seq(Tokens) /\ Line # <<>>
          BY Delimiters, EmptySeq
        <5>2. at \in Nat
          BY <4>2
        <5>3. KeyAt(s, at).val \in Seq(Tokens)
          BY <5>1, <5>2, TokenVal DEF KeyAt
        <5> DEFINE k == KeyAt(s, at).next
        <5>4. k \in Nat
          <6>1. k = Token(s, KeyEnd, at).next
            BY DEF KeyAt
          <6>2. k = 0 \/ k \in at + Len(KeyEnd) .. Len(s) + 1
            <7> HIDE DEF k
            <7> QED
              BY <5>1, <5>2, <6>1, TokenNext
          <6>3. at + Len(KeyEnd) \in Nat
            BY <5>1, <5>2
          <6> HIDE DEF k
          <6> QED
            BY <1>1, <6>2, <6>3
        <5>5. ValueAt(s, at).val = Token(s, Line, k).val
          BY DEF ValueAt
        <5> HIDE DEF k
        <5>6. ValueAt(s, at).val \in Seq(Tokens)
          BY <5>1, <5>4, <5>5, TokenVal
        <5> QED
          BY <5>3, <5>6 DEF HeaderAt
      <4>5. Good(next)
        <5> HIDE DEF next, Good
        <5>1. next \in 0 .. n /\ (next = 0 \/ next > n - m)
          BY <1>1, <2>1, <2>3, <3>3, <4>2, <4>3
        <5> QED
          BY <2>2, <5>1
      <4> HIDE DEF h
      <4>6. rest \in Heads /\ EndsALine(s, rest.next)
        BY <4>5
      <4> HIDE DEF rest
      <4>7. Prepended(h, rest) \in Heads /\ Prepended(h, rest).next = rest.next
        <5>1. rest.headers \in Seq([key : Seq(Tokens), value : Seq(Tokens)]) /\ rest.next \in Nat
          BY <4>6 DEF Heads
        <5>2. <<h>> \o rest.headers \in Seq([key : Seq(Tokens), value : Seq(Tokens)])
          BY <4>4, <5>1
        <5>3. rest \in [headers : Seq([key : Seq(Tokens), value : Seq(Tokens)]), next : Nat]
          BY <4>6 DEF Heads
        <5> DEFINE S == Seq([key : Seq(Tokens), value : Seq(Tokens)])
        <5>4. <<h>> \o rest.headers \in S /\ rest \in [headers : S, next : Nat]
          BY <5>2, <5>3
        <5> HIDE DEF S
        <5>5. Prepended(h, rest) \in [headers : S, next : Nat] /\ Prepended(h, rest).next = rest.next
          BY <5>4, PrependedIs
        <5> QED
          BY <5>5 DEF S, Heads
      <4> QED
        BY <4>1, <4>6, <4>7
    <3> QED
      BY <3>1, <3>2, <3>3
  <2> HIDE DEF Good
  <2> QED
    BY <2>1, <2>3
<1>5. n \in T
  <2> HIDE DEF T
  <2>1. T \subseteq Nat
    BY DEF T
  <2> QED
    BY <1>1, <1>3, <1>4, <2>1, Inductive
<1>6. start = 0 \/ start > n - n
  OBVIOUS
<1>7. Good(start)
  <2> HIDE DEF Good
  <2> QED
    BY <1>5, <1>6
<1> QED
  BY <1>7
-----------------------------------------------------------------------------
(***************************************************************************)
(* http_parse_message().                                                   *)
(***************************************************************************)
UriAt(s) == Token(s, Space, Token(s, Space, 1).next)
ProtocolAt(s) == Token(s, Line, UriAt(s).next)

LEMMA HeadParts ==
    ASSUME NEW s
    PROVE  LET m == ParsedHead(s)
               rest == ParseHeaders(s, ProtocolAt(s).next)
           IN  /\ m.method = Token(s, Space, 1).val /\ m.uri = UriAt(s).val
               /\ m.protocol = ProtocolAt(s).val
               /\ m.headers = rest.headers /\ m.next = rest.next
               /\ m.length = ContentLength(rest.headers)
  BY DEF ParsedHead, UriAt, ProtocolAt

\* A message ends behind a line, if it ends.
LEMMA HeadEnds ==
    ASSUME NEW s \in Seq(Tokens)
    PROVE  /\ EndsALine(s, ParsedHead(s).next)
           /\ ParsedHead(s).headers \in Seq([key : Seq(Tokens), value : Seq(Tokens)])
<1> HIDE DEF Tokens
<1>1. Len(s) \in Nat
  OBVIOUS
<1>2. Space \in Seq(Tokens) /\ Space # <<>> /\ Len(Space) = 1
      /\ Line \in Seq(Tokens) /\ Line # <<>> /\ Len(Line) = 2
  BY Delimiters, EmptySeq
<1> DEFINE a == Token(s, Space, 1).next
           b == UriAt(s).next
           c == ProtocolAt(s).next
<1>3. a = 0 \/ a \in 2 .. Len(s) + 1
  <2>1. 1 \in Nat /\ 1 + 1 = 2
    OBVIOUS
  <2> QED
    BY <1>2, <2>1, TokenNext
<1>4. b = 0 \/ b \in a + 1 .. Len(s) + 1
  <2>1. a \in Nat /\ b = Token(s, Space, a).next
    BY <1>1, <1>3 DEF UriAt
  <2> HIDE DEF a, b
  <2> QED
    BY <1>2, <2>1, TokenNext
<1>5. c = 0 \/ c \in b + 2 .. Len(s) + 1
  <2>1. b \in Nat
    <3> HIDE DEF a, b
    <3> QED
      BY <1>1, <1>3, <1>4
  <2>2. c = Token(s, Line, b).next
    BY DEF ProtocolAt
  <2> HIDE DEF b, c
  <2> QED
    BY <1>2, <2>1, <2>2, TokenNext
<1> HIDE DEF a, b, c
<1>6. c \in 0 .. Len(s) + 1
  BY <1>1, <1>3, <1>4, <1>5
<1>7. EndsALine(s, ParseHeaders(s, c).next)
  BY <1>6, LoopTypes
<1>8. ParsedHead(s).next = ParseHeaders(s, c).next /\ ParsedHead(s).headers = ParseHeaders(s, c).headers
  BY HeadParts DEF c
<1>9. ParseHeaders(s, c).headers \in Seq([key : Seq(Tokens), value : Seq(Tokens)])
  <2>1. ParseHeaders(s, c) \in Heads
    BY <1>6, LoopTypes
  <2> QED
    BY <2>1 DEF Heads
<1> QED
  BY <1>7, <1>8, <1>9

\* A token that stands before its delimiter is cut off.
LEMMA TokenOne ==
    ASSUME NEW s \in Seq(Tokens), NEW d \in {Space, Line, KeyEnd}, NEW at \in Nat \ {0},
           at + Len(d) <= Len(s), \A i \in 1 .. Len(d) : s[at + i] = d[i], s[at] # d[1]
    PROVE  /\ Find(s, d, at) = at + 1
           /\ Token(s, d, at) = [val |-> <<s[at]>>, next |-> at + 1 + Len(d)]
<1> HIDE DEF Tokens
<1>1. d \in Seq(Tokens) /\ Len(d) \in {1, 2} /\ d # <<>>
  BY Delimiters, EmptySeq
<1>2. Len(s) \in Nat /\ Len(d) \in Nat /\ Len(d) >= 1 /\ Len(d) <= 2
  BY <1>1
<1>3. /\ at \in 1 .. Len(s) - Len(d) + 1 /\ at + 1 \in 1 .. Len(s) - Len(d) + 1
      /\ at + 1 \in at .. Len(s) - Len(d) + 1 /\ at \in 1 .. Len(s)
  BY <1>2
<1>4. ~Matches(s, d, at)
  <2>1. Matches(s, d, at) <=> \A k \in 1 .. Len(d) : s[at + k - 1] = d[k]
    BY <1>1, <1>3, MatchIs
  <2>2. 1 \in 1 .. Len(d) /\ at + 1 - 1 = at
    BY <1>2
  <2> QED
    BY <2>1, <2>2
<1>5. Matches(s, d, at + 1)
  <2>1. Matches(s, d, at + 1) <=> \A k \in 1 .. Len(d) : s[(at + 1) + k - 1] = d[k]
    BY <1>1, <1>3, MatchIs
  <2>2. \A k \in 1 .. Len(d) : (at + 1) + k - 1 = at + k
    BY <1>2
  <2> QED
    BY <2>1, <2>2
<1>6. \A i \in at .. at + 1 - 1 : ~Matches(s, d, i)
  <2>1. \A i \in at .. at + 1 - 1 : i = at
    OBVIOUS
  <2> QED
    BY <1>4, <2>1
<1>7. Find(s, d, at) = at + 1
  BY <1>1, <1>3, <1>5, <1>6, FirstPlace
<1>8. SubSeq(s, at, at) = <<s[at]>>
  <2> DEFINE u == SubSeq(s, at, at)
  <2>1. u \in Seq(Tokens) /\ Len(u) = 1 /\ u[1] = s[at]
    <3>1. \A i \in at .. at : s[i] \in Tokens
      BY <1>3, ElementOfSeq
    <3>2. at - at + 1 = 1 /\ at + 1 - 1 = at /\ at <= at
      OBVIOUS
    <3>3. u \in Seq(Tokens) /\ Len(u) = 1
      BY <3>1, <3>2, SubSeqProperties
    <3>4. u[1] = s[at + 1 - 1]
      BY <1>3, <3>1, SubSeqProperties
    <3> QED
      BY <3>2, <3>3, <3>4
  <2>2. s[at] \in Tokens
    BY <1>3, ElementOfSeq
  <2>3. <<s[at]>> \in Seq(Tokens) /\ Len(<<s[at]>>) = 1 /\ <<s[at]>>[1] = s[at]
    BY <2>2, One
  <2> HIDE DEF u
  <2>4. u = <<s[at]>>
    BY <2>1, <2>3, SeqEqual
  <2> QED
    BY <2>4 DEF u
<1>9. at + 1 - 1 = at /\ at + 1 # 0
  OBVIOUS
<1>10. Token(s, d, at) = [val |-> SubSeq(s, at, at + 1 - 1), next |-> at + 1 + Len(d)]
  BY <1>7, <1>9 DEF Token
<1> QED
  BY <1>7, <1>8, <1>9, <1>10

Spaced(h) == h.spaced
HoldsHeader(s, at, h) == \A j \in 1 .. 6 : s[at + j - 1] = HeaderText(h)[j]

\* A header that has its space is cut into its key and its value.
LEMMA CutsHeader ==
    ASSUME NEW s \in Seq(Tokens), NEW at \in Nat \ {0}, at + 5 <= Len(s), NEW h \in Headers,
           Spaced(h), HoldsHeader(s, at, h)
    PROVE  /\ Find(s, Line, at) # at
           /\ HeaderAt(s, at) = [key |-> <<h.key>>, value |-> <<h.value>>]
           /\ ValueAt(s, at).next = at + 6
<1> DEFINE t == HeaderText(h)
<1>1. Len(s) \in Nat
  OBVIOUS
<1>2. /\ Len(t) = 6 /\ t[1] = h.key /\ t[2] = ":" /\ t[3] = " " /\ t[4] = h.value
      /\ t[5] = "CR" /\ t[6] = "LF"
  <2>1. /\ t \in Seq(Tokens) /\ t[Len(t) - 1] = "CR" /\ t[Len(t)] = "LF"
        /\ Len(t) = 6 /\ t[1] = h.key /\ t[2] = ":" /\ t[3] = " " /\ t[4] = h.value
    BY HeaderIs, Zenon DEF Spaced
  <2> HIDE DEF t, Tokens
  <2>2. Len(t) - 1 = 5
    <3>1. Len(t) = 6
      BY <2>1
    <3> QED
      BY <3>1
  <2> QED
    BY <2>1, <2>2
<1> HIDE DEF t, Tokens
<1>3. /\ s[at] = t[1] /\ s[at + 1] = t[2] /\ s[at + 2] = t[3] /\ s[at + 3] = t[4]
      /\ s[at + 4] = t[5] /\ s[at + 5] = t[6]
  <2>1. \A j \in {1, 2, 3, 4, 5, 6} : s[at + j - 1] = t[j]
    <3>1. \A j \in 1 .. 6 : s[at + j - 1] = t[j]
      BY DEF t, HoldsHeader
    <3>2. \A j \in {1, 2, 3, 4, 5, 6} : j \in 1 .. 6
      OBVIOUS
    <3> QED
      BY <3>1, <3>2
  <2>2. at + 1 - 1 = at /\ at + 2 - 1 = at + 1 /\ at + 3 - 1 = at + 2 /\ at + 4 - 1 = at + 3
        /\ at + 5 - 1 = at + 4 /\ at + 6 - 1 = at + 5
    OBVIOUS
  <2> QED
    BY <2>1, <2>2
<1>4. h.key \in Word /\ h.value \in Word
  BY DEF Headers
<1>5. h.key # ":" /\ h.key # "CR" /\ h.value # "CR"
  BY <1>4 DEF Word
<1>14. Len(KeyEnd) = 2 /\ Len(Line) = 2
  BY Delimiters
<1>6. /\ KeyEnd \in {Space, Line, KeyEnd} /\ Len(KeyEnd) = 2 /\ KeyEnd[1] = ":" /\ KeyEnd[2] = " "
      /\ Line \in {Space, Line, KeyEnd} /\ Len(Line) = 2 /\ Line[1] = "CR" /\ Line[2] = "LF"
  BY Delimiters
<1>7. Token(s, KeyEnd, at) = [val |-> <<s[at]>>, next |-> at + 1 + 2]
  <2>1. at + Len(KeyEnd) <= Len(s)
    BY <1>1, <1>14
  <2>2. \A i \in 1 .. Len(KeyEnd) : s[at + i] = KeyEnd[i]
    <3>1. \A i \in {1, 2} : s[at + i] = KeyEnd[i]
      BY <1>2, <1>3, <1>6
    <3>2. 1 .. Len(KeyEnd) = {1, 2}
      BY <1>14
    <3> QED
      BY <3>1, <3>2
  <2>3. s[at] # KeyEnd[1]
    BY <1>2, <1>3, <1>5, <1>6
  <2> QED
    BY <1>6, <2>1, <2>2, <2>3, TokenOne
<1>8. at + 1 + 2 = at + 3 /\ at + 3 \in Nat \ {0}
  OBVIOUS
<1>9. KeyAt(s, at).val = <<h.key>> /\ KeyAt(s, at).next = at + 3
  <2>1. KeyAt(s, at).val = <<s[at]>> /\ KeyAt(s, at).next = at + 1 + 2
    BY <1>7 DEF KeyAt
  <2>2. s[at] = h.key
    BY <1>2, <1>3, Zenon
  <2> QED
    BY <1>8, <2>1, <2>2, Zenon
<1>10. Token(s, Line, at + 3) = [val |-> <<s[at + 3]>>, next |-> (at + 3) + 1 + 2]
  <2>1. (at + 3) + Len(Line) <= Len(s)
    BY <1>1, <1>14
  <2>2. \A i \in 1 .. Len(Line) : s[(at + 3) + i] = Line[i]
    <3>1. (at + 3) + 1 = at + 4 /\ (at + 3) + 2 = at + 5
      OBVIOUS
    <3>2. \A i \in {1, 2} : s[(at + 3) + i] = Line[i]
      BY <1>2, <1>3, <1>6, <3>1
    <3>3. 1 .. Len(Line) = {1, 2}
      BY <1>14
    <3> QED
      BY <3>2, <3>3
  <2>3. s[at + 3] # Line[1]
    BY <1>2, <1>3, <1>5, <1>6
  <2> QED
    BY <1>6, <1>8, <2>1, <2>2, <2>3, TokenOne
<1>11. (at + 3) + 1 + 2 = at + 6
  OBVIOUS
<1>12. ValueAt(s, at).val = <<h.value>> /\ ValueAt(s, at).next = at + 6
  <2>1. ValueAt(s, at) = Token(s, Line, at + 3)
    BY <1>9 DEF ValueAt
  <2>2. ValueAt(s, at).val = <<s[at + 3]>> /\ ValueAt(s, at).next = (at + 3) + 1 + 2
    BY <1>10, <2>1
  <2>3. s[at + 3] = h.value
    BY <1>2, <1>3, Zenon
  <2> QED
    BY <1>11, <2>2, <2>3, Zenon
<1>13. Find(s, Line, at) # at
  <2>1. ASSUME Find(s, Line, at) = at PROVE FALSE
    <3>1. at \in 1 .. Len(s) + 1
      BY <1>1
    <3>2. s[at] = "CR"
      BY <2>1, <3>1, LineIsAt
    <3> QED
      BY <1>2, <1>3, <1>5, <3>2
  <2> QED
    BY <2>1
<1> QED
  BY <1>9, <1>12, <1>13 DEF HeaderAt

\* A text whose first end tokens are those of a message's head.
HoldsHead(s, r) ==
    /\ s \in Seq(Tokens) /\ Len(s) >= Len(HeadText(r))
    /\ \A i \in 1 .. Len(HeadText(r)) : s[i] = Text(r)[i]

\* The headers from the k-th of the last m are cut as they were sent.
LEMMA CutsHeaders ==
    ASSUME NEW r \in Requests, AllSpaced(r), NEW s, HoldsHead(s, r)
    PROVE  LET p == ParseHeaders(s, 8)
           IN  /\ p.next = Len(HeadText(r)) + 1
               /\ Len(p.headers) = Len(r.headers)
               /\ \A i \in 1 .. Len(r.headers) :
                    p.headers[i] = [key |-> <<r.headers[i].key>>, value |-> <<r.headers[i].value>>]
<1> DEFINE n == Len(r.headers)
           end == Len(HeadText(r))
           Cut(i) == [key |-> <<r.headers[i].key>>, value |-> <<r.headers[i].value>>]
           At(m) == 8 + 6 * (n - m)
           Good(m, p) == /\ p.next = end + 1 /\ Len(p.headers) = m
                         /\ \A i \in 1 .. m : p.headers[i] = Cut(n - m + i)
           T == {m \in Nat : m <= n => Good(m, ParseHeaders(s, At(m)))}
<1>1. n \in Nat /\ end \in Nat /\ end = 9 + 6 * n /\ r.headers \in Seq(Headers)
  <2>1. r.headers \in Seq(Headers)
    BY RequestsAssumption DEF Headers
  <2> QED
    BY <2>1, TextIs
<1>2. s \in Seq(Tokens) /\ Len(s) \in Nat /\ Len(s) >= end
  BY DEF HoldsHead
<1>3. \A i \in 1 .. end : s[i] = Text(r)[i]
  BY DEF HoldsHead
<1>4. \A k \in 1 .. n : \A j \in 1 .. 6 : Text(r)[1 + 6 * k + j] = HeaderText(r.headers[k])[j]
  BY TextIs
<1>5. s[end - 1] = "CR" /\ s[end] = "LF"
  <2>1. end - 1 \in 1 .. end /\ end \in 1 .. end
    BY <1>1
  <2> QED
    BY <1>3, <2>1, TextIs
<1>6. \A k \in 1 .. n : \A j \in 1 .. 6 : s[1 + 6 * k + j] = HeaderText(r.headers[k])[j]
  <2> TAKE k \in 1 .. n
  <2> TAKE j \in 1 .. 6
  <2>1. 1 + 6 * k + j \in 1 .. end
    BY <1>1
  <2> QED
    BY <1>3, <1>4, <2>1
<1> HIDE DEF n, end, Tokens
<1>7. 0 \in T
  <2>1. At(0) = end - 1 /\ At(0) # 0 /\ At(0) \in 0 .. Len(s) + 1 /\ At(0) + 2 = end + 1
    BY <1>1, <1>2
  <2>2. Find(s, Line, At(0)) = At(0)
    <3> DEFINE a == At(0)
    <3>1. a \in Nat \ {0} /\ a \in 1 .. Len(s) - 1 /\ s[a] = "CR" /\ s[a + 1] = "LF"
      BY <1>1, <1>2, <1>5, <2>1
    <3> HIDE DEF a
    <3>2. Line \in Seq(Tokens) /\ Line # <<>> /\ Len(Line) = 2 /\ Line[1] = "CR" /\ Line[2] = "LF"
      BY Delimiters, EmptySeq
    <3>3. Matches(s, Line, a)
      BY <1>2, <3>1, <3>2, MatchTwo
    <3>4. a \in a .. Len(s) - Len(Line) + 1 /\ \A i \in a .. a - 1 : ~Matches(s, Line, i)
      BY <1>2, <3>1, <3>2
    <3>5. Find(s, Line, a) = a
      BY <1>2, <3>1, <3>2, <3>3, <3>4, FirstPlace
    <3> QED
      BY <3>5 DEF a
  <2>3. ParseHeaders(s, At(0)) = Ended(At(0))
    <3> HIDE DEF At
    <3> QED
      BY <1>2, <2>1, <2>2, LoopIs
  <2>4. Len(Line) = 2
    BY Delimiters
  <2>5. Good(0, Ended(At(0)))
    <3> HIDE DEF At
    <3>1. Ended(At(0)).next = At(0) + 2 /\ Ended(At(0)).headers = <<>>
      BY <2>4 DEF Ended
    <3> QED
      BY <2>1, <3>1
  <2> HIDE DEF Good, At
  <2> QED
    BY <2>3, <2>5
<1>8. ASSUME NEW m \in T PROVE m + 1 \in T
  <2>1. m \in Nat
    OBVIOUS
  <2>2. ASSUME m + 1 <= n PROVE Good(m + 1, ParseHeaders(s, At(m + 1)))
    <3> DEFINE a == At(m + 1)
               k == n - m
               h == r.headers[k]
               rest == ParseHeaders(s, At(m))
    <3>1. k \in 1 .. n /\ a = 2 + 6 * k /\ a + 6 = At(m)
      BY <1>1, <2>1, <2>2
    <3>2. Good(m, rest)
      <4> HIDE DEF Good
      <4> QED
        BY <1>1, <2>1, <2>2
    <3>3. h \in Headers /\ Spaced(h)
      <4>1. h \in Headers
        BY <1>1, <3>1, ElementOfSeq DEF n
      <4>2. k \in DOMAIN r.headers
        BY <1>1, <3>1 DEF n
      <4> QED
        BY <4>1, <4>2 DEF AllSpaced, Spaced
    <3>4. \A j \in 1 .. 6 : s[a + j - 1] = HeaderText(h)[j]
      <4> TAKE j \in 1 .. 6
      <4>1. a + j - 1 = 1 + 6 * k + j
        BY <1>1, <2>1, <3>1
      <4> QED
        BY <1>6, <3>1, <4>1
    <3>5. a \in Nat \ {0} /\ a + 5 <= Len(s) /\ a \in 0 .. Len(s) + 1 /\ a # 0 /\ At(m) \in 0 .. Len(s) + 1
      BY <1>1, <1>2, <2>1, <3>1
    <3> HIDE DEF a, h, T
    <3>6. /\ Find(s, Line, a) # a
          /\ HeaderAt(s, a) = [key |-> <<h.key>>, value |-> <<h.value>>]
          /\ ValueAt(s, a).next = a + 6
      <4>1. HoldsHeader(s, a, h)
        BY <3>4 DEF HoldsHeader
      <4> QED
        BY <1>2, <3>3, <3>5, <4>1, CutsHeader
    <3>7. HeaderAt(s, a) = Cut(k)
      BY <3>6 DEF h
    <3>8. ParseHeaders(s, a) = Prepended(Cut(k), rest)
      <4> HIDE DEF Cut, At
      <4> QED
        BY <1>2, <3>1, <3>5, <3>6, <3>7, LoopIs
    <3>9. rest \in Heads
      <4> HIDE DEF At
      <4> QED
        BY <1>2, <3>5, LoopTypes
    <3> HIDE DEF Cut, rest, At, k
    <3>10. /\ Prepended(Cut(k), rest).headers = <<Cut(k)>> \o rest.headers
           /\ Prepended(Cut(k), rest).next = rest.next
      <4>1. rest \in [headers : {rest.headers} \cup {<<Cut(k)>> \o rest.headers}, next : Nat]
        BY <3>9 DEF Heads
      <4> DEFINE S == {rest.headers} \cup {<<Cut(k)>> \o rest.headers}
      <4>2. <<Cut(k)>> \o rest.headers \in S /\ rest \in [headers : S, next : Nat]
        BY <4>1
      <4> HIDE DEF S
      <4> QED
        BY <4>2, PrependedIs
    <3> DEFINE hs == rest.headers
               all == <<Cut(k)>> \o hs
               S == {Cut(k)} \cup [key : Seq(Tokens), value : Seq(Tokens)]
    <3>11. hs \in Seq(S) /\ Cut(k) \in S
      <4>1. hs \in Seq([key : Seq(Tokens), value : Seq(Tokens)])
        BY <3>9 DEF Heads
      <4> DEFINE R == [key : Seq(Tokens), value : Seq(Tokens)]
      <4>2. R \subseteq S
        OBVIOUS
      <4>3. hs \in Seq(R)
        BY <4>1
      <4> HIDE DEF R, S, hs
      <4>4. hs \in Seq(S)
        BY <4>2, <4>3
      <4> QED
        BY <4>4 DEF S
    <3> HIDE DEF S
    <3>12. <<Cut(k)>> \in Seq(S) /\ Len(<<Cut(k)>>) = 1 /\ <<Cut(k)>>[1] = Cut(k)
      BY <3>11, One
    <3>13. Len(all) = 1 + Len(hs) /\ all[1] = Cut(k) /\ \A i \in 1 .. Len(hs) : all[1 + i] = hs[i]
      <4> DEFINE one == <<Cut(k)>>
      <4>1. one \in Seq(S) /\ Len(one) = 1 /\ one[1] = Cut(k)
        BY <3>12
      <4> HIDE DEF one, hs
      <4>2. Len(one \o hs) = Len(one) + Len(hs)
            /\ \A i \in 1 .. Len(one) + Len(hs) :
                 (one \o hs)[i] = IF i <= Len(one) THEN one[i] ELSE hs[i - Len(one)]
        BY <3>11, <4>1, ConcatProperties
      <4>3. Len(hs) \in Nat
        BY <3>11
      <4>4. \A i \in 1 .. Len(hs) : 1 + i \in 1 .. 1 + Len(hs) /\ ~(1 + i <= 1) /\ (1 + i) - 1 = i
        BY <4>3
      <4>5. \A i \in 1 .. Len(hs) : (one \o hs)[1 + i] = hs[i]
        BY <4>1, <4>2, <4>4
      <4>6. 1 \in 1 .. 1 + Len(hs) /\ 1 <= 1
        BY <4>3
      <4>7. (one \o hs)[1] = Cut(k)
        BY <4>1, <4>2, <4>6
      <4> QED
        BY <4>1, <4>2, <4>5, <4>7 DEF one
    <3>14. Len(hs) = m /\ rest.next = end + 1 /\ \A i \in 1 .. m : hs[i] = Cut(n - m + i)
      BY <3>2
    <3> HIDE DEF hs, all
    <3>15. Len(all) = m + 1
      BY <2>1, <3>13, <3>14
    <3>16. ASSUME NEW i \in 1 .. m + 1 PROVE all[i] = Cut(n - (m + 1) + i)
      <4>1. CASE i = 1
        <5>1. n - (m + 1) + i = k
          BY <1>1, <2>1, <4>1 DEF k
        <5> QED
          BY <3>13, <4>1, <5>1
      <4>2. CASE i # 1
        <5>1. i - 1 \in 1 .. m /\ 1 + (i - 1) = i /\ n - (m + 1) + i = n - m + (i - 1)
          BY <1>1, <2>1, <4>2
        <5>2. all[1 + (i - 1)] = hs[i - 1]
          BY <3>13, <3>14, <5>1
        <5> QED
          BY <3>14, <5>1, <5>2
      <4> QED
        BY <4>1, <4>2
    <3>17. Good(m + 1, Prepended(Cut(k), rest))
      BY <3>10, <3>14, <3>15, <3>16 DEF all, hs
    <3> HIDE DEF Good
    <3> QED
      BY <3>8, <3>17 DEF a
  <2> HIDE DEF Good, At
  <2> QED
    BY <2>1, <2>2
<1>9. n \in T
  <2> HIDE DEF T
  <2>1. T \subseteq Nat
    BY DEF T
  <2> QED
    BY <1>1, <1>7, <1>8, <2>1, Inductive
<1>10. Good(n, ParseHeaders(s, 8))
  <2>1. At(n) = 8
    BY <1>1
  <2> HIDE DEF Good, At
  <2> QED
    BY <1>1, <1>9, <2>1
<1>11. \A i \in 1 .. n : n - n + i = i
  BY <1>1
<1> HIDE DEF T, Cut
<1>12. ParseHeaders(s, 8).next = end + 1 /\ Len(ParseHeaders(s, 8).headers) = n
       /\ \A i \in 1 .. n : ParseHeaders(s, 8).headers[i] = Cut(i)
  BY <1>10, <1>11
<1> QED
  BY <1>12 DEF n, end, Cut

\* What has come of a message.
Prefix(s, r) ==
    /\ s \in Seq(Tokens) /\ Len(s) <= Len(Text(r))
    /\ \A i \in 1 .. Len(s) : s[i] = Text(r)[i]

\* From its second token on, its method is known.
LEMMA MethodIsSent ==
    ASSUME NEW r \in Requests, NEW s, Prefix(s, r), Len(s) >= 2
    PROVE  Token(s, Space, 1) = [val |-> <<r.method>>, next |-> 3]
<1> HIDE DEF Tokens
<1>1. s \in Seq(Tokens) /\ Len(s) \in Nat /\ \A i \in 1 .. Len(s) : s[i] = Text(r)[i]
  BY DEF Prefix
<1>2. Text(r)[1] = r.method /\ Text(r)[2] = " "
  BY TextIs
<1>3. s[1] = r.method /\ s[2] = " "
  <2>1. 1 \in 1 .. Len(s) /\ 2 \in 1 .. Len(s)
    BY <1>1
  <2> QED
    BY <1>1, <1>2, <2>1
<1>4. r.method # " "
  <2>1. r.method \in Word
    BY RequestsAssumption
  <2> QED
    BY <2>1 DEF Word
<1>5. Space \in {Space, Line, KeyEnd} /\ Len(Space) = 1 /\ Space[1] = " "
  BY Delimiters
<1>6. 1 + Len(Space) <= Len(s) /\ 1 + 1 + Len(Space) = 3
  <2>1. Len(Space) = 1 /\ Len(s) \in Nat
    BY <1>1, <1>5
  <2> QED
    BY <2>1
<1>7. \A i \in 1 .. Len(Space) : s[1 + i] = Space[i]
  <2>1. \A i \in 1 .. 1 : s[1 + i] = Space[i]
    <3>1. \A i \in 1 .. 1 : i = 1
      OBVIOUS
    <3>2. 1 + 1 = 2
      OBVIOUS
    <3>3. s[1 + 1] = Space[1]
      BY <1>3, <1>5, <3>2, Zenon
    <3> QED
      BY <3>1, <3>3, Zenon
  <2> QED
    BY <1>5, <2>1
<1>8. s[1] # Space[1] /\ 1 \in Nat \ {0}
  BY <1>3, <1>4, <1>5
<1>9. Token(s, Space, 1) = [val |-> <<s[1]>>, next |-> 1 + 1 + Len(Space)]
  BY <1>1, <1>5, <1>6, <1>7, <1>8, TokenOne
<1> QED
  BY <1>3, <1>6, <1>9

\* Once the head is there, every part of it is the part that was sent.
LEMMA HeadIsSent ==
    ASSUME NEW r \in Requests, AllSpaced(r), NEW s, Prefix(s, r), Len(s) >= Len(HeadText(r))
    PROVE  LET m == ParsedHead(s)
           IN  /\ m.method = <<r.method>> /\ m.uri = <<"URI">> /\ m.protocol = <<r.protocol>>
               /\ m.next = Len(HeadText(r)) + 1
               /\ Len(m.headers) = Len(r.headers)
               /\ \A i \in 1 .. Len(r.headers) :
                    m.headers[i] = [key |-> <<r.headers[i].key>>, value |-> <<r.headers[i].value>>]
               /\ m.length = ContentLength(m.headers)
<1> HIDE DEF Tokens
<1>1. s \in Seq(Tokens) /\ Len(s) \in Nat /\ \A i \in 1 .. Len(s) : s[i] = Text(r)[i]
  BY DEF Prefix
<1>2. /\ Text(r)[1] = r.method /\ Text(r)[2] = " " /\ Text(r)[3] = "URI" /\ Text(r)[4] = " "
      /\ Text(r)[5] = r.protocol /\ Text(r)[6] = "CR" /\ Text(r)[7] = "LF"
      /\ Len(HeadText(r)) \in Nat /\ Len(HeadText(r)) >= 9
  BY TextIs
<1>17. Len(HeadText(r)) \in Nat /\ Len(HeadText(r)) >= 9
  BY TextIs
<1>3. Len(s) >= 9
  <2>1. Len(s) \in Nat
    BY <1>1
  <2> QED
    BY <1>17, <2>1
<1>4. s[3] = "URI" /\ s[4] = " " /\ s[5] = r.protocol /\ s[6] = "CR" /\ s[7] = "LF"
  <2>1. 3 \in 1 .. Len(s) /\ 4 \in 1 .. Len(s) /\ 5 \in 1 .. Len(s) /\ 6 \in 1 .. Len(s)
        /\ 7 \in 1 .. Len(s)
    BY <1>1, <1>3
  <2> QED
    BY <1>1, <1>2, <2>1
<1>5. r.protocol # "CR" /\ "URI" # " "
  <2>1. r.protocol \in Word
    BY RequestsAssumption
  <2> QED
    BY <2>1 DEF Word
<1>6. Token(s, Space, 1) = [val |-> <<r.method>>, next |-> 3]
  <2>1. Len(s) >= 2
    BY <1>1, <1>3
  <2> QED
    BY <2>1, MethodIsSent
<1>7. Len(Space) = 1 /\ Len(Line) = 2
  BY Delimiters
<1>8. /\ Space \in {Space, Line, KeyEnd} /\ Space[1] = " "
      /\ Line \in {Space, Line, KeyEnd} /\ Line[1] = "CR" /\ Line[2] = "LF"
  BY Delimiters
<1>9. Token(s, Space, 3) = [val |-> <<"URI">>, next |-> 5]
  <2>1. 3 + Len(Space) <= Len(s) /\ 3 + 1 + Len(Space) = 5 /\ 3 \in Nat \ {0}
    BY <1>1, <1>3, <1>7
  <2>2. \A i \in 1 .. Len(Space) : s[3 + i] = Space[i]
    <3>1. \A i \in 1 .. 1 : i = 1
      OBVIOUS
    <3>2. 3 + 1 = 4
      OBVIOUS
    <3>3. s[3 + 1] = Space[1]
      BY <1>4, <1>8, <3>2, Zenon
    <3> QED
      BY <1>7, <3>1, <3>3, Zenon
  <2>3. s[3] # Space[1]
    BY <1>4, <1>5, <1>8
  <2>4. Token(s, Space, 3) = [val |-> <<s[3]>>, next |-> 3 + 1 + Len(Space)]
    BY <1>1, <1>8, <2>1, <2>2, <2>3, TokenOne
  <2> QED
    BY <1>4, <2>1, <2>4
<1>10. Token(s, Line, 5) = [val |-> <<r.protocol>>, next |-> 8]
  <2>1. 5 + Len(Line) <= Len(s) /\ 5 + 1 + Len(Line) = 8 /\ 5 \in Nat \ {0}
    BY <1>1, <1>3, <1>7
  <2>2. \A i \in 1 .. Len(Line) : s[5 + i] = Line[i]
    <3>1. \A i \in 1 .. 2 : i = 1 \/ i = 2
      OBVIOUS
    <3>2. 5 + 1 = 6 /\ 5 + 2 = 7
      OBVIOUS
    <3>3. s[5 + 1] = Line[1] /\ s[5 + 2] = Line[2]
      BY <1>4, <1>8, <3>2, Zenon
    <3> QED
      BY <1>7, <3>1, <3>3, Zenon
  <2>3. s[5] # Line[1]
    BY <1>4, <1>5, <1>8
  <2>4. Token(s, Line, 5) = [val |-> <<s[5]>>, next |-> 5 + 1 + Len(Line)]
    BY <1>1, <1>8, <2>1, <2>2, <2>3, TokenOne
  <2> QED
    BY <1>4, <2>1, <2>4
<1>11. Token(s, Space, 1).next = 3 /\ Token(s, Space, 1).val = <<r.method>>
  BY <1>6
<1>12. UriAt(s).next = 5 /\ UriAt(s).val = <<"URI">>
  BY <1>9, <1>11 DEF UriAt
<1>13. ProtocolAt(s).next = 8 /\ ProtocolAt(s).val = <<r.protocol>>
  BY <1>10, <1>12 DEF ProtocolAt
<1>14. HoldsHead(s, r)
  <2>1. Len(s) >= Len(HeadText(r))
    OBVIOUS
  <2>2. \A i \in 1 .. Len(HeadText(r)) : s[i] = Text(r)[i]
    <3>1. Len(s) \in Nat /\ Len(HeadText(r)) \in Nat
      BY <1>1, <1>17
    <3>2. 1 .. Len(HeadText(r)) \subseteq 1 .. Len(s)
      BY <2>1, <3>1
    <3>3. \A i \in 1 .. Len(s) : s[i] = Text(r)[i]
      BY DEF Prefix
    <3>4. ASSUME NEW i \in 1 .. Len(HeadText(r)) PROVE s[i] = Text(r)[i]
      <4>1. i \in 1 .. Len(s)
        BY <3>2
      <4> QED
        BY <3>3, <4>1
    <3> QED
      BY <3>4
  <2> QED
    BY <1>1, <2>1, <2>2 DEF HoldsHead
<1> DEFINE p == ParseHeaders(s, 8)
           m == ParsedHead(s)
<1>15. /\ p.next = Len(HeadText(r)) + 1 /\ Len(p.headers) = Len(r.headers)
       /\ \A i \in 1 .. Len(r.headers) :
            p.headers[i] = [key |-> <<r.headers[i].key>>, value |-> <<r.headers[i].value>>]
  BY <1>14, CutsHeaders
<1>16. /\ m.method = <<r.method>> /\ m.uri = <<"URI">> /\ m.protocol = <<r.protocol>>
       /\ m.headers = p.headers /\ m.next = p.next /\ m.length = ContentLength(p.headers)
  <2> HIDE DEF p
  <2> QED
    BY <1>11, <1>12, <1>13, HeadParts DEF p
<1> HIDE DEF p, m
<1> QED
  BY <1>15, <1>16 DEF m

\* The head is there when its blank line is.
LEMMA ArrivedIs ==
    ASSUME NEW s \in Seq(Tokens)
    PROVE  HeadArrived(s) <=>
             \E i \in 1 .. Len(s) - 3 :
                s[i] = "CR" /\ s[i + 1] = "LF" /\ s[i + 2] = "CR" /\ s[i + 3] = "LF"
<1> HIDE DEF Tokens
<1>1. BlankLine \in Seq(Tokens) /\ Len(BlankLine) = 4 /\ BlankLine # <<>> /\ Len(s) \in Nat
  <2>1. BlankLine \in Seq(Tokens) /\ Len(BlankLine) = 4
    BY Delimiters
  <2>2. Len(s) \in Nat
    OBVIOUS
  <2>3. BlankLine # <<>>
    BY <2>1, EmptySeq
  <2> QED
    BY <2>1, <2>2, <2>3
<1>2. Len(s) - Len(BlankLine) + 1 = Len(s) - 3
  BY <1>1
<1> DEFINE f == Find(s, BlankLine, 1)
<1>3. /\ f # 0 => f \in 1 .. Len(s) - Len(BlankLine) + 1 /\ Matches(s, BlankLine, f)
      /\ \A i \in 1 .. Len(s) - Len(BlankLine) + 1 : Matches(s, BlankLine, i) => f # 0
  <2>1. 1 \in Nat \ {0}
    OBVIOUS
  <2> QED
    BY <1>1, <2>1, FindIs
<1>4. HeadArrived(s) <=> f # 0
  BY DEF HeadArrived
<1> HIDE DEF f
<1>5. HeadArrived(s) <=> \E i \in 1 .. Len(s) - 3 : Matches(s, BlankLine, i)
  BY <1>2, <1>3, <1>4
<1>6. \A i \in 1 .. Len(s) - 3 : Matches(s, BlankLine, i) <=>
        s[i] = "CR" /\ s[i + 1] = "LF" /\ s[i + 2] = "CR" /\ s[i + 3] = "LF"
  BY MatchBlank
<1> QED
  BY <1>5, <1>6

\* A whole message has its head, and no more than its body behind it.
LEMMA WholeHasArrived == ASSUME NEW r \in Requests PROVE HeadArrived(Text(r))
<1> DEFINE s == Text(r)
           end == Len(HeadText(r))
<1>1. s \in Seq(Tokens) /\ end \in Nat /\ end >= 9 /\ r.size \in Nat /\ Len(s) = end + r.size
  BY TextIs
<1>2. s[end - 3] = "CR" /\ s[end - 2] = "LF" /\ s[end - 1] = "CR" /\ s[end] = "LF"
  BY TextIs
<1> HIDE DEF s, end, Tokens
<1>3. end - 3 \in 1 .. Len(s) - 3
  BY <1>1
<1>4. (end - 3) + 1 = end - 2 /\ (end - 3) + 2 = end - 1 /\ (end - 3) + 3 = end
  BY <1>1
<1>5. \E i \in 1 .. Len(s) - 3 : s[i] = "CR" /\ s[i + 1] = "LF" /\ s[i + 2] = "CR" /\ s[i + 3] = "LF"
  <2> WITNESS end - 3 \in 1 .. Len(s) - 3
  <2> QED
    BY <1>2, <1>4
<1>6. HeadArrived(s)
  BY <1>1, <1>5, ArrivedIs
<1> QED
  BY <1>6 DEF s

LEMMA LengthIs == ASSUME NEW hs PROVE ContentLength(hs) \in {0, request.size}
  BY DEF ContentLength

LEMMA WholeIsComplete ==
    ASSUME request \in Requests, ParsedHead(Text(request)).next # 0
    PROVE  Complete(Text(request), ParsedHead(Text(request)))
<1> DEFINE s == Text(request)
           m == ParsedHead(s)
           end == Len(HeadText(request))
           size == request.size
<1>1. /\ s \in Seq(Tokens) /\ end \in Nat /\ size \in Nat /\ Len(s) = end + size
      /\ \A i \in 1 .. size : s[end + i] = "byte"
  BY TextIs
<1>2. m.next \in 3 .. Len(s) + 1 /\ s[m.next - 1] = "LF"
  BY <1>1, HeadEnds DEF EndsALine
<1>3. m.length \in {0, size}
  <2>1. m.length = ContentLength(ParseHeaders(s, ProtocolAt(s).next).headers)
    BY HeadParts
  <2> HIDE DEF m
  <2> QED
    BY <2>1, LengthIs
<1> DEFINE next == m.next
           length == m.length
<1>4. next \in 3 .. Len(s) + 1 /\ s[next - 1] = "LF" /\ length \in {0, size}
  BY <1>2, <1>3
<1> HIDE DEF s, m, end, next, length, size, Tokens
<1>5. next - 1 <= end
  <2> SUFFICES ASSUME next - 1 > end PROVE FALSE
    BY <1>1, <1>4
  <2>1. next - 1 - end \in 1 .. size /\ end + (next - 1 - end) = next - 1
    BY <1>1, <1>4
  <2>2. s[next - 1] = "byte"
    BY <1>1, <2>1
  <2> QED
    BY <1>4, <2>2
<1>6. Len(s) - next + 1 + Slack >= length
  BY <1>1, <1>4, <1>5 DEF Slack
<1> QED
  BY <1>6 DEF Complete, s, m, next, length

\* Where each token of a message with spaced headers stands: behind the first
\* line, the q-th token of a header ends its line if it is the sixth.
LEMMA PlaceOf ==
    ASSUME NEW n \in Nat, NEW j \in 8 .. 7 + 6 * n
    PROVE  \E k \in 1 .. n : \E q \in 1 .. 6 : j = 1 + 6 * k + q
<1> DEFINE T == {m \in Nat : \A x \in 8 .. 7 + 6 * m : \E k \in 1 .. m : \E q \in 1 .. 6 : x = 1 + 6 * k + q}
<1>1. 0 \in T
  OBVIOUS
<1>2. ASSUME NEW m \in T PROVE m + 1 \in T
  <2>1. m \in Nat
    OBVIOUS
  <2>2. \A x \in 8 .. 7 + 6 * m : \E k \in 1 .. m : \E q \in 1 .. 6 : x = 1 + 6 * k + q
    OBVIOUS
  <2>3. ASSUME NEW x \in 8 .. 7 + 6 * (m + 1)
        PROVE  \E k \in 1 .. m + 1 : \E q \in 1 .. 6 : x = 1 + 6 * k + q
    <3>1. CASE x <= 7 + 6 * m
      <4>1. x \in 8 .. 7 + 6 * m
        BY <2>1, <3>1
      <4>2. PICK k \in 1 .. m : \E q \in 1 .. 6 : x = 1 + 6 * k + q
        BY <2>2, <4>1
      <4>3. k \in 1 .. m + 1
        BY <2>1
      <4> QED
        BY <4>2, <4>3
    <3>2. CASE ~(x <= 7 + 6 * m)
      <4>1. x - (1 + 6 * (m + 1)) \in 1 .. 6 /\ x = 1 + 6 * (m + 1) + (x - (1 + 6 * (m + 1)))
        BY <2>1, <3>2
      <4>2. m + 1 \in 1 .. m + 1
        BY <2>1
      <4> QED
        BY <4>1, <4>2
    <3> QED
      BY <3>1, <3>2
  <2> QED
    BY <2>1, <2>3
<1>3. T = Nat
  <2>1. T \subseteq Nat
    OBVIOUS
  <2> HIDE DEF T
  <2> QED
    BY <1>1, <1>2, <2>1, Inductive
<1>4. n \in T
  BY <1>3
<1> QED
  BY <1>4

\* No blank line stands before the end of the head.
LEMMA HoldsTheHead ==
    ASSUME NEW r \in Requests, AllSpaced(r), NEW s, Prefix(s, r), HeadArrived(s)
    PROVE  Len(s) >= Len(HeadText(r))
<1> DEFINE n == Len(r.headers)
           end == Len(HeadText(r))
           t == Text(r)
           Behind(x, i) == x[i + 1] = "LF" /\ x[i + 2] = "CR"
<1>1. s \in Seq(Tokens) /\ Len(s) \in Nat /\ Len(s) <= Len(t) /\ \A i \in 1 .. Len(s) : s[i] = t[i]
  BY DEF Prefix
<1>2. n \in Nat /\ end \in Nat /\ end = 9 + 6 * n
  BY TextIs
<1>3. /\ t[1] = r.method /\ t[2] = " " /\ t[3] = "URI" /\ t[4] = " " /\ t[5] = r.protocol
      /\ t[6] = "CR" /\ t[7] = "LF"
  BY TextIs
<1>4. \A k \in 1 .. n : \A j \in 1 .. 6 : t[1 + 6 * k + j] = HeaderText(r.headers[k])[j]
  BY TextIs
<1>5. r.protocol # "LF"
  <2>1. r.protocol \in Word
    BY RequestsAssumption
  <2> QED
    BY <2>1 DEF Word
<1>6. ASSUME NEW k \in 1 .. n
      PROVE  /\ \A j \in 1 .. 6 : t[1 + 6 * k + j] = "LF" => j = 6
             /\ t[2 + 6 * k] # "CR"
  <2> DEFINE h == r.headers[k]
             u == HeaderText(h)
  <2>1. h \in Headers /\ Spaced(h)
    <3>1. r.headers \in Seq(Headers)
      BY RequestsAssumption DEF Headers
    <3>2. k \in DOMAIN r.headers
      BY <3>1
    <3> QED
      BY <3>1, <3>2, ElementOfSeq DEF AllSpaced, Spaced
  <2> HIDE DEF h
  <2>2. Len(u) = 6 /\ u[1] = h.key /\ \A i \in 1 .. Len(u) : u[i] = "LF" => i = Len(u)
    BY <2>1, HeaderIs, Zenon DEF Spaced
  <2>3. \A j \in 1 .. 6 : t[1 + 6 * k + j] = u[j]
    BY <1>4 DEF h
  <2> HIDE DEF u, t, n, end, Behind
  <2>4. \A j \in 1 .. 6 : t[1 + 6 * k + j] = "LF" => j = 6
    BY <2>2, <2>3
  <2>5. h.key # "CR"
    <3>1. h.key \in Word
      BY <2>1 DEF Headers
    <3> QED
      BY <3>1 DEF Word
  <2>6. t[2 + 6 * k] = u[1]
    <3>1. 1 \in 1 .. 6 /\ 1 + 6 * k + 1 = 2 + 6 * k
      BY <1>2
    <3> QED
      BY <2>3, <3>1
  <2> QED
    BY <2>2, <2>4, <2>5, <2>6
<1>7. PICK i \in 1 .. Len(s) - 3 : s[i + 1] = "LF" /\ s[i + 2] = "CR"
  BY <1>1, ArrivedIs
<1> HIDE DEF t, n, end, Tokens
<1>8. i \in Nat /\ i >= 1 /\ i + 3 <= Len(s)
  BY <1>1, <1>7
<1>9. t[i + 1] = "LF" /\ t[i + 2] = "CR"
  <2>1. i + 1 \in 1 .. Len(s) /\ i + 2 \in 1 .. Len(s)
    BY <1>1, <1>8
  <2> QED
    BY <1>1, <1>7, <2>1
<1>10. ASSUME Len(s) < end PROVE FALSE
  <2>1. i + 1 < 7 + 6 * n
    BY <1>1, <1>2, <1>8, <1>10
  <2>2. ASSUME NEW k \in 1 .. n, i + 2 = 2 + 6 * k PROVE FALSE
    BY <1>6, <1>9, <2>2
  <2>3. CASE i + 1 < 7
    <3>1. i + 1 \in {2, 3, 4, 5, 6}
      BY <1>8, <2>3
    <3> QED
      BY <1>3, <1>5, <1>9, <3>1
  <2>4. CASE i + 1 = 7
    <3>1. 1 \in 1 .. n /\ i + 2 = 2 + 6 * 1
      BY <1>2, <1>8, <2>1, <2>4
    <3> QED
      BY <2>2, <3>1
  <2>5. CASE i + 1 > 7
    <3>1. i + 1 \in 8 .. 7 + 6 * n
      BY <1>2, <1>8, <2>1, <2>5
    <3>2. PICK k \in 1 .. n : \E q \in 1 .. 6 : i + 1 = 1 + 6 * k + q
      BY <1>2, <3>1, PlaceOf
    <3>3. PICK q \in 1 .. 6 : i + 1 = 1 + 6 * k + q
      BY <3>2
    <3>4. q = 6
      BY <1>6, <1>9, <3>3
    <3>5. k + 1 \in 1 .. n /\ i + 2 = 2 + 6 * (k + 1)
      BY <1>2, <1>8, <2>1, <3>3, <3>4
    <3> QED
      BY <2>2, <3>5
  <2> QED
    BY <1>8, <2>3, <2>4, <2>5
<1>11. Len(s) >= end
  BY <1>1, <1>2, <1>10
<1> QED
  BY <1>11 DEF end

\* http_parse_message() finds the length of the body, and waits for all of it but
\* its last Slack bytes.
LEMMA AlmostWhole ==
    ASSUME request \in Requests, PlainHeaders(request), NEW s, Prefix(s, request),
           HeadArrived(s), Complete(s, ParsedHead(s))
    PROVE  Len(s) + Slack >= Len(Text(request))
<1> DEFINE r == request
           m == ParsedHead(s)
           hs == m.headers
           n == Len(r.headers)
           end == Len(HeadText(r))
<1>1. AllSpaced(r) /\ HasBody(r) => \E i \in DOMAIN r.headers : r.headers[i].key = "Content-Length"
  BY DEF PlainHeaders, AllSpaced
<1>2. \A i \in DOMAIN r.headers : r.headers[i].key # "Content"
  BY DEF PlainHeaders
<1>3. AllSpaced(r)
  BY DEF PlainHeaders, AllSpaced
<1>4. Len(s) >= end
  BY <1>3, HoldsTheHead
<1>5. /\ m.next = end + 1 /\ Len(hs) = n
      /\ \A i \in 1 .. n : hs[i] = [key |-> <<r.headers[i].key>>, value |-> <<r.headers[i].value>>]
      /\ m.length = ContentLength(hs)
  BY <1>3, <1>4, HeadIsSent
<1>6. end \in Nat /\ r.size \in Nat /\ Len(Text(r)) = end + r.size
  BY TextIs
<1>7. s \in Seq(Tokens) /\ Len(s) \in Nat /\ Len(s) <= Len(Text(r))
  BY DEF Prefix
<1>8. n \in Nat /\ DOMAIN r.headers = 1 .. n
  <2>1. r.headers \in Seq(Headers)
    BY RequestsAssumption DEF Headers
  <2> HIDE DEF Headers
  <2> QED
    BY <2>1
<1>9. DOMAIN hs = 1 .. n
  <2>3. hs \in Seq([key : Seq(Tokens), value : Seq(Tokens)])
    BY <1>7, HeadEnds
  <2> HIDE DEF hs, Tokens
  <2> QED
    BY <1>5, <1>8, <2>3
<1>10. ASSUME HasBody(r) PROVE ContentLength(hs) = r.size
  <2> DEFINE L == LengthHeaders(hs)
  <2>1. PICK i \in DOMAIN r.headers : r.headers[i].key = "Content-Length"
    BY <1>1, <1>3, <1>10
  <2>2. i \in L
    <3>1. hs[i].key = <<"Content-Length">>
      <4>1. i \in 1 .. n
        BY <1>8, <2>1
      <4> HIDE DEF hs, n
      <4>2. hs[i] = [key |-> <<r.headers[i].key>>, value |-> <<r.headers[i].value>>]
        BY <1>5, <4>1
      <4>3. hs[i].key = <<r.headers[i].key>>
        BY <4>2
      <4> QED
        BY <2>1, <4>3
    <3> QED
      BY <1>8, <1>9, <2>1, <3>1 DEF LengthHeaders, LengthKeys
  <2>3. L \subseteq 1 .. n
    BY <1>9 DEF LengthHeaders
  <2>4. L \subseteq Nat /\ L # {}
    BY <2>2, <2>3
  <2> DEFINE j == Min(L)
  <2>5. j \in L
    <3> HIDE DEF L
    <3> QED
      BY <2>4, MinIs
  <2>6. j \in 1 .. n /\ hs[j].key \in LengthKeys
    BY <2>3, <2>5 DEF LengthHeaders
  <2> HIDE DEF j
  <2>7. hs[j].key = <<r.headers[j].key>> /\ hs[j].value = <<r.headers[j].value>>
    <3> HIDE DEF hs, n
    <3>1. hs[j] = [key |-> <<r.headers[j].key>>, value |-> <<r.headers[j].value>>]
      BY <1>5, <2>6
    <3> QED
      BY <3>1
  <2>8. r.headers[j].key = "Content-Length"
    <3> DEFINE k == r.headers[j].key
    <3>1. <<k>> = <<"Content-Length">> \/ <<k>> = <<"Content">>
      BY <2>6, <2>7 DEF LengthKeys
    <3> HIDE DEF k
    <3>2. \A x, y : <<x>> = <<y>> => x = y
      OBVIOUS
    <3>3. k = "Content-Length" \/ k = "Content"
      BY <3>1, <3>2
    <3> QED
      BY <1>2, <1>8, <2>6, <3>3 DEF k
  <2>9. r.headers[j].value = "length"
    BY <1>8, <2>6, <2>8, RequestsAssumption
  <2>10. hs[Min(LengthHeaders(hs))].value = <<"length">>
    BY <2>7, <2>9 DEF j
  <2> HIDE DEF hs
  <2> QED
    BY <1>10, <2>4, <2>10 DEF ContentLength
<1> DEFINE next == m.next
           length == m.length
<1>11. Len(s) - next + 1 + Slack >= length
  BY DEF Complete
<1>12. next = end + 1 /\ (r.size > 0 => length = r.size)
  BY <1>5, <1>10 DEF HasBody
<1>13. Len(s) >= end
  BY <1>4
<1> HIDE DEF next, length, end, m, Tokens
<1> QED
  BY <1>6, <1>7, <1>11, <1>12, <1>13 DEF Slack
-----------------------------------------------------------------------------
(***************************************************************************)
(* http_get_var().                                                         *)
(***************************************************************************)
Names == DOMAIN Limits

LEMMA LimitsAre ==
    /\ Names = {"res", "img_id", "name"}
    /\ Limits["res"] = RES_SIZE /\ Limits["img_id"] = MAX_IMG_ID /\ Limits["name"] = MAX_IMGFS_NAME
  BY DEF Names, Limits

LEMMA LimitIsNat == ASSUME NEW name \in Names PROVE Limits[name] \in Nat /\ Limits[name] <= 127
<1>1. name \in {"res", "img_id", "name"}
  BY LimitsAre
<1>2. Limits[name] \in {10, 127, 31}
  BY <1>1, LimitsAre DEF RES_SIZE, MAX_IMG_ID, MAX_IMGFS_NAME
<1> QED
  BY <1>2

LEMMA PlaceIs ==
    ASSUME NEW r \in Requests, NEW name, Places(r.params, name) # {}
    PROVE  /\ Place(r.params, name) \in Places(r.params, name)
           /\ \A x \in Places(r.params, name) : Place(r.params, name) <= x
           /\ DOMAIN r.params \subseteq Nat
<1>1. r.params \in Seq([key : STRING, value : [text : Seq(STRING), len : Nat]])
  BY RequestsAssumption
<1> DEFINE P == [key : STRING, value : [text : Seq(STRING), len : Nat]]
<1>2. DOMAIN r.params \subseteq Nat
  <2>1. r.params \in Seq(P)
    BY <1>1
  <2> HIDE DEF P
  <2> QED
    BY <2>1
<1>3. Places(r.params, name) \subseteq Nat
  BY <1>2 DEF Places
<1> QED
  BY <1>2, <1>3, MinIs DEF Place

\* It dies of an empty value only, the last one.
LEMMA DiesOfEmpty ==
    ASSUME NEW r \in Requests, NEW name, NEW limit, Lookup(r.params, name, limit).ret = "crash"
    PROVE  \E i \in DOMAIN r.params : r.params[i].value.len = 0
<1>1. Places(r.params, name) # {}
  BY DEF Lookup
<1>2. Place(r.params, name) \in DOMAIN r.params
  BY <1>1, PlaceIs DEF Places
<1>3. r.params[Place(r.params, name)].value.len = 0
  BY <1>1 DEF Lookup, Found
<1> QED
  BY <1>2, <1>3

\* A plain parameter is found if it is there, and what is found is its value.
LEMMA LookupIs ==
    ASSUME NEW r \in Requests, NEW name \in Names, PlainParam(r, name)
    PROVE  LET v == Lookup(r.params, name, Limits[name])
           IN  IF v.ret = "found"
               THEN /\ v.text = Asked(r, name) /\ Has(r, name)
                    /\ Value(r.params, Place(r.params, name)).len # Limits[name]
               ELSE v.ret = "ERR_NONE" /\ ~Has(r, name)
<1> DEFINE v == Lookup(r.params, name, Limits[name])
           i == Place(r.params, name)
           p == r.params[i]
           S == {k \in DOMAIN r.params : r.params[k].key = name}
<1>1. S \subseteq Places(r.params, name)
  BY DEF Places, EndsIn
<1>2. CASE Places(r.params, name) = {}
  <2>1. v.ret = "ERR_NONE"
    BY <1>2 DEF Lookup
  <2>2. ~Has(r, name)
    BY <1>1, <1>2 DEF Has
  <2> HIDE DEF v
  <2> QED
    BY <2>1, <2>2 DEF v
<1>3. CASE Places(r.params, name) # {}
  <2>1. /\ i \in Places(r.params, name) /\ \A x \in Places(r.params, name) : i <= x
        /\ DOMAIN r.params \subseteq Nat
    BY <1>3, PlaceIs
  <2>2. p.key = name /\ p.value.len \in 1 .. Limits[name] - 1
    BY <1>3 DEF PlainParam
  <2>3. i \in DOMAIN r.params /\ i \in S
    BY <2>1, <2>2 DEF Places
  <2> HIDE DEF i
  <2>4. Min(S) = i
    <3>1. S \subseteq Nat /\ S # {}
      BY <2>1, <2>3
    <3> HIDE DEF S
    <3>2. Min(S) \in S /\ \A x \in S : Min(S) <= x
      BY <3>1, MinIs
    <3>3. i <= Min(S) /\ Min(S) <= i
      BY <1>1, <2>1, <2>3, <3>2
    <3> QED
      BY <2>1, <2>3, <3>1, <3>2, <3>3
  <2>5. Limits[name] \in Nat
    BY LimitIsNat
  <2> DEFINE len == p.value.len
  <2>6. len > 0 /\ len # 0 /\ ~(len > Limits[name]) /\ len # Limits[name]
    <3>1. len \in 1 .. Limits[name] - 1
      BY <2>2
    <3> HIDE DEF len
    <3> QED
      BY <2>5, <3>1
  <2>7. Value(r.params, i) = p.value
    BY <2>6 DEF Value
  <2>8. v = Found(p.value.text)
    BY <1>3, <2>6, <2>7 DEF Lookup, i
  <2>9. Asked(r, name) = p.value.text
    BY <2>4 DEF Asked
  <2>10. Has(r, name)
    BY <2>3 DEF Has
  <2> HIDE DEF v, p
  <2>11. v.ret = "found" /\ v.text = Asked(r, name)
    BY <2>8, <2>9 DEF Found
  <2> QED
    BY <2>6, <2>7, <2>10, <2>11 DEF i, v
<1> QED
  BY <1>2, <1>3
-----------------------------------------------------------------------------
(***************************************************************************)
(* handle_http_message() and handle_X_call().                              *)
(***************************************************************************)
Parts(r) ==
    IF MatchUri(r, "/imgfs/insert") THEN {"name"}
    ELSE IF MatchUri(r, "/imgfs/delete") THEN {"img_id"} ELSE {"img_id", "res"}
HasAll(r) == \A name \in Parts(r) : Has(r, name)
AnEmptyValue(r) == \E i \in DOMAIN r.params : r.params[i].value.len = 0

AnInsertion(r, m) ==
    MatchUri(r, "/imgfs/insert") /\ m.method = <<"POST">> /\ HasBody(r)

\* The call c is the one that r asks for, if its method is the one m has.
AskedBy(r, c, m) ==
    \/ c.op = "JSON" /\ MatchUri(r, "/imgfs/list")
    \/ c.op = "read" /\ MatchUri(r, "/imgfs/read")
       /\ c.id = Asked(r, "img_id") /\ Begins(c.res, Asked(r, "res"))
    \/ c.op = "delete" /\ MatchUri(r, "/imgfs/delete") /\ c.id = Asked(r, "img_id")
    \/ c.op = "insert" /\ AnInsertion(r, m)
       /\ c.id = Asked(r, "name") /\ (stream = Text(r) => c.img = r.body)
Paths(op) == CASE op = "JSON" -> "/imgfs/list" [] op = "read" -> "/imgfs/read"
               [] op = "delete" -> "/imgfs/delete" [] op = "insert" -> "/imgfs/insert"
Ops == {"JSON", "read", "delete", "insert"}
AFile(r) == r.path = "/" \/ MatchUri(r, "/index.html")

\* A URI begins with one of the server's at most.
LEMMA MatchesOne ==
    ASSUME NEW r,
           NEW t \in {"/index.html", "/imgfs/list", "/imgfs/insert", "/imgfs/read", "/imgfs/delete"},
           NEW u \in {"/index.html", "/imgfs/list", "/imgfs/insert", "/imgfs/read", "/imgfs/delete"},
           MatchUri(r, t)
    PROVE  r.path # "/" /\ (MatchUri(r, u) => u = t)
<1> DEFINE Longer(x) ==
             CASE x = "/index.html" -> "/index.html5"
               [] x = "/imgfs/list" -> "/imgfs/listing"
               [] x = "/imgfs/insert" -> "/imgfs/insertion"
               [] x = "/imgfs/read" -> "/imgfs/reader"
               [] x = "/imgfs/delete" -> "/imgfs/deleted"
<1>1. ASSUME NEW x \in {"/index.html", "/imgfs/list", "/imgfs/insert", "/imgfs/read", "/imgfs/delete"},
             MatchUri(r, x)
      PROVE  r.path \in {x, Longer(x)}
  <2>1. ASSUME <<r.path, x>> \in LongerPaths PROVE r.path = Longer(x)
    <3>1. \A a, b, c, d : <<a, b>> = <<c, d>> => a = c /\ b = d
      OBVIOUS
    <3>2. \/ r.path = "/index.html5" /\ x = "/index.html"
          \/ r.path = "/imgfs/listing" /\ x = "/imgfs/list"
          \/ r.path = "/imgfs/insertion" /\ x = "/imgfs/insert"
          \/ r.path = "/imgfs/reader" /\ x = "/imgfs/read"
          \/ r.path = "/imgfs/deleted" /\ x = "/imgfs/delete"
      BY <2>1, <3>1 DEF LongerPaths
    <3> QED
      BY <3>2
  <2> QED
    BY <1>1, <2>1 DEF MatchUri
<1>2. r.path \in {t, Longer(t)}
  BY <1>1
<1>3. MatchUri(r, u) => r.path \in {u, Longer(u)}
  BY <1>1
<1> QED
  BY <1>2, <1>3

\* What is said to a request, or done for it.
Right(r, a, m) ==
    /\ a.do = "crash" => AnEmptyValue(r) \/ AnInsertion(r, m)
    /\ a.do = "reply" =>
        /\ a.status \in {"302", "200"} => AFile(r)
        /\ a.ret = "ERR_NOT_ENOUGH_ARGUMENTS" /\ PlainParams(r) => ~HasAll(r)
    /\ a.do = "call" =>
        /\ a.call.op \in Ops /\ MatchUri(r, Paths(a.call.op))
        /\ a.call.ret = "pending"
        /\ PlainParams(r) => AskedBy(r, a.call, m)

LEMMA RefusalIs ==
    ASSUME NEW r, NEW m, NEW ret, ret = "ERR_NOT_ENOUGH_ARGUMENTS" /\ PlainParams(r) => ~HasAll(r)
    PROVE  Right(r, Refusal(ret), m)
  BY DEF Right, Refusal, Answer

LEMMA CrashIs ==
    ASSUME NEW r, NEW m, AnEmptyValue(r) \/ AnInsertion(r, m) PROVE Right(r, Crashes, m)
<1>1. Crashes.do = "crash"
  BY DEF Crashes, Answer
<1> QED
  BY <1>1 DEF Right

LEMMA ServeIs ==
    ASSUME NEW r, NEW m, NEW c, c.op \in Ops, MatchUri(r, Paths(c.op)), c.ret = "pending",
           PlainParams(r) => AskedBy(r, c, m)
    PROVE  Right(r, Serve(c), m)
<1>1. Serve(c).do = "call" /\ Serve(c).call = c
  BY DEF Serve, Answer
<1> QED
  BY <1>1 DEF Right

LEMMA ListIs ==
    ASSUME NEW r, NEW m, MatchUri(r, "/imgfs/list"), NEW a \in HandleList
    PROVE  Right(r, a, m)
<1> DEFINE c == [Store!NoCall EXCEPT !.op = "JSON"]
<1>1. c.op = "JSON" /\ c.ret = "pending"
  BY DEF Store!NoCall
<1>2. a = Serve(c)
  BY DEF HandleList
<1> HIDE DEF c
<1>3. Right(r, Serve(c), m)
  BY <1>1, ServeIs DEF Ops, Paths, AskedBy
<1> QED
  BY <1>2, <1>3

LEMMA ReadIs ==
    ASSUME NEW r \in Requests, NEW m, MatchUri(r, "/imgfs/read"), NEW a \in HandleRead(r.params)
    PROVE  Right(r, a, m)
<1> DEFINE l == Lookup(r.params, "res", RES_SIZE)
           v == Lookup(r.params, "img_id", MAX_IMG_ID)
<1>1. PlainParams(r) =>
        /\ IF l.ret = "found" THEN l.text = Asked(r, "res") ELSE ~Has(r, "res")
        /\ IF v.ret = "found" THEN v.text = Asked(r, "img_id") ELSE ~Has(r, "img_id")
  <2> SUFFICES ASSUME PlainParams(r)
               PROVE  /\ IF l.ret = "found" THEN l.text = Asked(r, "res") ELSE ~Has(r, "res")
                      /\ IF v.ret = "found" THEN v.text = Asked(r, "img_id") ELSE ~Has(r, "img_id")
    OBVIOUS
  <2>1. "res" \in Names /\ "img_id" \in Names /\ PlainParam(r, "res") /\ PlainParam(r, "img_id")
        /\ Limits["res"] = RES_SIZE /\ Limits["img_id"] = MAX_IMG_ID
    BY LimitsAre DEF PlainParams, Names
  <2>2. IF l.ret = "found" THEN l.text = Asked(r, "res") ELSE ~Has(r, "res")
    BY <2>1, LookupIs
  <2>3. IF v.ret = "found" THEN v.text = Asked(r, "img_id") ELSE ~Has(r, "img_id")
    BY <2>1, LookupIs
  <2> QED
    BY <2>2, <2>3
<1>2. (l.ret = "crash" => AnEmptyValue(r)) /\ (v.ret = "crash" => AnEmptyValue(r))
  BY DiesOfEmpty DEF AnEmptyValue
<1>3. Has(r, "res") /\ Has(r, "img_id") <=> HasAll(r)
  BY MatchesOne DEF HasAll, Parts
<1>4. HandleRead(r.params) =
        IF l.ret = "crash" THEN {Crashes}
        ELSE IF l.ret # "found" THEN {Refusal("ERR_NOT_ENOUGH_ARGUMENTS")}
        ELSE {IF res = "none" THEN Refusal("ERR_RESOLUTIONS")
              ELSE IF v.ret = "crash" THEN Crashes
              ELSE IF v.ret # "found" THEN Refusal("ERR_NOT_ENOUGH_ARGUMENTS")
              ELSE Serve([Store!NoCall EXCEPT !.op = "read", !.id = v.text, !.res = res]) :
                res \in RequestedRes(l.text)}
  BY DEF HandleRead
<1> HIDE DEF l, v
<1>5. CASE l.ret = "crash"
  <2>1. a = Crashes
    BY <1>4, <1>5
  <2> QED
    BY <1>2, <1>5, <2>1, CrashIs
<1>6. CASE l.ret # "crash" /\ l.ret # "found"
  <2>1. a = Refusal("ERR_NOT_ENOUGH_ARGUMENTS")
    BY <1>4, <1>6
  <2>2. PlainParams(r) => ~HasAll(r)
    BY <1>1, <1>3, <1>6
  <2> QED
    BY <2>1, <2>2, RefusalIs
<1>7. CASE l.ret = "found"
  <2>1. PICK res \in RequestedRes(l.text) :
            a = IF res = "none" THEN Refusal("ERR_RESOLUTIONS")
                ELSE IF v.ret = "crash" THEN Crashes
                ELSE IF v.ret # "found" THEN Refusal("ERR_NOT_ENOUGH_ARGUMENTS")
                ELSE Serve([Store!NoCall EXCEPT !.op = "read", !.id = v.text, !.res = res])
    BY <1>4, <1>7
  <2>2. CASE res = "none"
    <3>1. a = Refusal("ERR_RESOLUTIONS")
      BY <2>1, <2>2
    <3> QED
      BY <3>1, RefusalIs
  <2>3. CASE res # "none" /\ v.ret = "crash"
    <3>1. a = Crashes
      BY <2>1, <2>3
    <3> QED
      BY <1>2, <2>3, <3>1, CrashIs
  <2>4. CASE res # "none" /\ v.ret # "crash" /\ v.ret # "found"
    <3>1. a = Refusal("ERR_NOT_ENOUGH_ARGUMENTS")
      BY <2>1, <2>4
    <3>2. PlainParams(r) => ~HasAll(r)
      BY <1>1, <1>3, <2>4
    <3> QED
      BY <3>1, <3>2, RefusalIs
  <2>5. CASE res # "none" /\ v.ret = "found"
    <3> DEFINE c == [Store!NoCall EXCEPT !.op = "read", !.id = v.text, !.res = res]
    <3>1. a = Serve(c)
      BY <2>1, <2>5
    <3>2. c.op = "read" /\ c.ret = "pending" /\ c.id = v.text /\ c.res = res
      BY DEF Store!NoCall
    <3>3. Begins(res, l.text)
      BY <2>5 DEF RequestedRes, Matching
    <3> HIDE DEF c
    <3>4. PlainParams(r) => AskedBy(r, c, m)
      BY <1>1, <1>7, <2>5, <3>2, <3>3 DEF AskedBy
    <3>5. c.op \in Ops /\ MatchUri(r, Paths(c.op))
      BY <3>2 DEF Ops, Paths
    <3> QED
      BY <3>1, <3>2, <3>4, <3>5, ServeIs
  <2> QED
    BY <2>2, <2>3, <2>4, <2>5
<1> QED
  BY <1>5, <1>6, <1>7

LEMMA DeleteIs ==
    ASSUME NEW r \in Requests, NEW m, MatchUri(r, "/imgfs/delete"), NEW a \in HandleDelete(r.params)
    PROVE  Right(r, a, m)
<1> DEFINE v == Lookup(r.params, "img_id", MAX_IMG_ID)
<1>1. PlainParams(r) => IF v.ret = "found" THEN v.text = Asked(r, "img_id") ELSE ~Has(r, "img_id")
  <2> SUFFICES ASSUME PlainParams(r)
               PROVE  IF v.ret = "found" THEN v.text = Asked(r, "img_id") ELSE ~Has(r, "img_id")
    OBVIOUS
  <2>1. "img_id" \in Names /\ PlainParam(r, "img_id") /\ Limits["img_id"] = MAX_IMG_ID
    BY LimitsAre DEF PlainParams, Names
  <2> QED
    BY <2>1, LookupIs
<1>2. v.ret = "crash" => AnEmptyValue(r)
  BY DiesOfEmpty DEF AnEmptyValue
<1>3. Has(r, "img_id") <=> HasAll(r)
  BY MatchesOne DEF HasAll, Parts
<1>4. HandleDelete(r.params) =
        IF v.ret = "crash" THEN {Crashes}
        ELSE IF v.ret # "found" THEN {Refusal("ERR_NOT_ENOUGH_ARGUMENTS")}
        ELSE {Serve([Store!NoCall EXCEPT !.op = "delete", !.id = v.text])}
  BY DEF HandleDelete
<1> HIDE DEF v
<1>5. CASE v.ret = "crash"
  <2>1. a = Crashes
    BY <1>4, <1>5
  <2> QED
    BY <1>2, <1>5, <2>1, CrashIs
<1>6. CASE v.ret # "crash" /\ v.ret # "found"
  <2>1. a = Refusal("ERR_NOT_ENOUGH_ARGUMENTS")
    BY <1>4, <1>6
  <2>2. PlainParams(r) => ~HasAll(r)
    BY <1>1, <1>3, <1>6
  <2> QED
    BY <2>1, <2>2, RefusalIs
<1>7. CASE v.ret = "found"
  <2> DEFINE c == [Store!NoCall EXCEPT !.op = "delete", !.id = v.text]
  <2>1. a = Serve(c)
    BY <1>4, <1>7
  <2>2. c.op = "delete" /\ c.ret = "pending" /\ c.id = v.text
    BY DEF Store!NoCall
  <2> HIDE DEF c
  <2>3. PlainParams(r) => AskedBy(r, c, m)
    BY <1>1, <1>7, <2>2 DEF AskedBy
  <2>4. c.op \in Ops /\ MatchUri(r, Paths(c.op))
    BY <2>2 DEF Ops, Paths
  <2> QED
    BY <2>1, <2>2, <2>3, <2>4, ServeIs
<1> QED
  BY <1>5, <1>6, <1>7

LEMMA InsertIs ==
    ASSUME request \in Requests, NEW m, MatchUri(request, "/imgfs/insert"), MayInsert(m),
           NEW a \in HandleInsert(m, request.params), m.length # 0 => HasBody(request)
    PROVE  Right(request, a, m)
<1> DEFINE r == request
           l == Lookup(r.params, "name", MAX_IMGFS_NAME)
<1>1. PlainParams(r) =>
        /\ NameLookups(r.params) = {l}
        /\ IF l.ret = "found" THEN l.text = Asked(r, "name") ELSE ~Has(r, "name")
  <2> SUFFICES ASSUME PlainParams(r)
               PROVE  /\ NameLookups(r.params) = {l}
                      /\ IF l.ret = "found" THEN l.text = Asked(r, "name") ELSE ~Has(r, "name")
    OBVIOUS
  <2>1. "name" \in Names /\ PlainParam(r, "name") /\ Limits["name"] = MAX_IMGFS_NAME
    BY LimitsAre DEF PlainParams, Names
  <2>2. IF l.ret = "found"
        THEN l.text = Asked(r, "name") /\ Value(r.params, Place(r.params, "name")).len # MAX_IMGFS_NAME
        ELSE ~Has(r, "name")
    BY <2>1, LookupIs
  <2> QED
    BY <2>2 DEF NameLookups
<1>2. l.ret = "crash" => AnEmptyValue(r)
  BY DiesOfEmpty DEF AnEmptyValue
<1>3. Has(r, "name") <=> HasAll(r)
  BY DEF HasAll, Parts
<1>4. NameLookups(r.params) \subseteq {l, Found(Garbled)}
  BY DEF NameLookups
<1>5. CASE m.length = 0
  <2>1. a = Refusal("ERR_INVALID_COMMAND")
    BY <1>5 DEF HandleInsert
  <2> QED
    BY <2>1, RefusalIs
<1>6. CASE m.length # 0
  <2>1. PICK v \in NameLookups(r.params) :
            a \in IF v.ret = "crash" THEN {Crashes}
                  ELSE IF v.ret # "found" THEN {Refusal("ERR_NOT_ENOUGH_ARGUMENTS")}
                  ELSE Insertions(v.text)
    BY <1>6 DEF HandleInsert
  <2> HIDE DEF l
  <2>2. /\ PlainParams(r) => v = l
        /\ v = l \/ v.ret = "found"
    BY <1>1, <1>4 DEF Found
  <2>6. AnInsertion(r, m)
    BY <1>6 DEF AnInsertion, MayInsert
  <2>3. CASE v.ret = "crash"
    <3>1. a = Crashes /\ v = l
      BY <2>1, <2>2, <2>3
    <3> QED
      BY <1>2, <2>3, <3>1, CrashIs
  <2>4. CASE v.ret # "crash" /\ v.ret # "found"
    <3>1. a = Refusal("ERR_NOT_ENOUGH_ARGUMENTS") /\ v = l
      BY <2>1, <2>2, <2>4
    <3>2. PlainParams(r) => ~HasAll(r)
      BY <1>1, <1>3, <2>4, <3>1
    <3> QED
      BY <3>1, <3>2, RefusalIs
  <2>5. CASE v.ret = "found" /\ a = Crashes
    BY <2>5, <2>6, CrashIs
  <2>7. CASE v.ret = "found" /\ a # Crashes
    <3> DEFINE c(img) == [Store!NoCall EXCEPT !.op = "insert", !.id = v.text, !.img = img]
    <3>1. PICK img \in BodyInHand : a = Serve(c(img))
      BY <2>1, <2>7 DEF Insertions
    <3>2. /\ c(img).op = "insert" /\ c(img).ret = "pending" /\ c(img).id = v.text
          /\ c(img).img = img
      BY DEF Store!NoCall
    <3>6. stream = Text(r) => img = r.body
      BY DEF BodyInHand
    <3> HIDE DEF c
    <3>3. PlainParams(r) => AskedBy(r, c(img), m)
      BY <1>1, <2>2, <2>6, <2>7, <3>2, <3>6 DEF AskedBy
    <3>4. c(img).op \in Ops /\ MatchUri(r, Paths(c(img).op))
      BY <3>2 DEF Ops, Paths
    <3> QED
      BY <3>1, <3>2, <3>3, <3>4, ServeIs
  <2> QED
    BY <2>3, <2>4, <2>5, <2>7
<1> QED
  BY <1>5, <1>6

LEMMA FileIs ==
    ASSUME NEW r, NEW m, AFile(r), NEW a \in ServeFile
    PROVE  Right(r, a, m)
<1>1. a.do = "reply" /\ a.ret \in {"ERR_NONE", "ERR_IO"}
  BY DEF ServeFile, Answer
<1> QED
  BY <1>1 DEF Right

LEMMA MessageIs ==
    ASSUME request \in Requests, NEW m, NEW a \in HandleMessage(m),
           m.length # 0 => HasBody(request)
    PROVE  Right(request, a, m)
<1> DEFINE r == request
           file == (r.path = "/" /\ r.params = <<>>) \/ MatchUri(r, "/index.html")
           list == MatchUri(r, "/imgfs/list")
           insert == MatchUri(r, "/imgfs/insert") /\ MayInsert(m)
           read == MatchUri(r, "/imgfs/read")
           delete == MatchUri(r, "/imgfs/delete")
<1>1. /\ file => ~list /\ ~insert /\ ~read /\ ~delete
      /\ list => ~insert /\ ~read /\ ~delete
      /\ insert => ~read /\ ~delete
      /\ read => ~delete
  BY MatchesOne
<1>2. a \in CASE file -> ServeFile
             [] list -> HandleList
             [] insert -> HandleInsert(m, r.params)
             [] read -> HandleRead(r.params)
             [] delete -> HandleDelete(r.params)
             [] OTHER -> {Refusal("ERR_INVALID_COMMAND")}
  BY DEF HandleMessage
<1>3. /\ file => AFile(r)
      /\ insert => MatchUri(r, "/imgfs/insert") /\ MayInsert(m)
  BY DEF AFile
<1>4. CASE file
  <2>1. a \in ServeFile
    <3> HIDE DEF file, list, insert, read, delete
    <3> QED
      BY <1>1, <1>2, <1>4
  <2> QED
    BY <1>3, <1>4, <2>1, FileIs
<1>5. CASE list
  <2>1. a \in HandleList
    <3> HIDE DEF file, list, insert, read, delete
    <3> QED
      BY <1>1, <1>2, <1>5
  <2> QED
    BY <1>5, <2>1, ListIs
<1>6. CASE insert
  <2>1. a \in HandleInsert(m, r.params)
    <3> HIDE DEF file, list, insert, read, delete
    <3> QED
      BY <1>1, <1>2, <1>6
  <2> QED
    BY <1>6, <2>1, InsertIs
<1>7. CASE read
  <2>1. a \in HandleRead(r.params)
    <3> HIDE DEF file, list, insert, read, delete
    <3> QED
      BY <1>1, <1>2, <1>7
  <2> QED
    BY <1>7, <2>1, ReadIs
<1>8. CASE delete
  <2>1. a \in HandleDelete(r.params)
    <3> HIDE DEF file, list, insert, read, delete
    <3> QED
      BY <1>1, <1>2, <1>8
  <2> QED
    BY <1>8, <2>1, DeleteIs
<1>9. CASE ~file /\ ~list /\ ~insert /\ ~read /\ ~delete
  <2>1. a = Refusal("ERR_INVALID_COMMAND")
    <3> HIDE DEF file, list, insert, read, delete
    <3> QED
      BY <1>2, <1>9
  <2> QED
    BY <2>1, RefusalIs
<1> QED
  BY <1>4, <1>5, <1>6, <1>7, <1>8, <1>9
-----------------------------------------------------------------------------
(***************************************************************************)
(* The inductive invariant: what has come of the request, and what its     *)
(* call, or its answer, has to do with it and with the store.              *)
(***************************************************************************)
Received ==
    /\ request \in Requests /\ Prefix(stream, request)
    /\ phase = "receiving" => stream # Text(request)
    /\ phase = "dispatch" =>
        /\ HeadArrived(stream)
        /\ PlainHeaders(request) => Len(stream) + Slack >= Len(Text(request))

\* A call is the one asked for, and its result, once there, is so in the store.
ResultIsTrue ==
    /\ call.op = "insert" => <<call.id, call.img>> \in db
    /\ call.op = "delete" => call.id \notin Store!Ids(db)
    /\ call.op = "read" => <<call.id, call.data.img>> \in db /\ call.data.res = call.res
    /\ call.op = "JSON" => call.ids = Store!Ids(db)
Called ==
    phase = "in_call" =>
        /\ call.op \in Ops /\ MatchUri(request, Paths(call.op))
        /\ call.ret # "ERR_NOT_ENOUGH_ARGUMENTS"
        /\ call.ret = "ERR_NONE" => ResultIsTrue

ReqInv ==
    /\ phase \in {"receiving", "dispatch", "in_call", "done", "crashed"}
    /\ Received /\ db \subseteq ImgIds \X Images
    /\ phase # "done" => reply = NoReply
    /\ Called /\ CallIsAsked /\ AskedIsServed /\ DiesOfARequest /\ ReplyTellsTruth

LEMMA PrefixIs ==
    ASSUME NEW r \in Requests, NEW n \in 1 .. Len(Text(r))
    PROVE  Prefix(SubSeq(Text(r), 1, n), r) /\ Len(SubSeq(Text(r), 1, n)) = n
<1> DEFINE t == Text(r)
           s == SubSeq(t, 1, n)
<1>1. t \in Seq(Tokens) /\ Len(t) \in Nat
  <2>1. t \in Seq(Tokens)
    BY TextIs
  <2> HIDE DEF t, Tokens
  <2> QED
    BY <2>1
<1> HIDE DEF t, Tokens
<1>2. \A i \in 1 .. n : t[i] \in Tokens
  BY <1>1, ElementOfSeq DEF t
<1>3. n \in Nat /\ n >= 1 /\ n <= Len(t)
  BY <1>1 DEF t
<1>4. s \in Seq(Tokens) /\ Len(s) = n /\ \A i \in 1 .. n : s[i] = t[1 + i - 1]
  BY <1>2, <1>3, SubSeqProperties
<1>5. \A i \in 1 .. n : 1 + i - 1 = i
  BY <1>3
<1> HIDE DEF s
<1>6. s \in Seq(Tokens) /\ Len(s) = n /\ Len(s) <= Len(t) /\ \A i \in 1 .. Len(s) : s[i] = t[i]
  BY <1>3, <1>4, <1>5
<1> QED
  BY <1>6 DEF Prefix, s, t

\* A text as long as the message is the message.
LEMMA WholeIs ==
    ASSUME NEW r \in Requests, NEW s, Prefix(s, r), Len(s) = Len(Text(r))
    PROVE  s = Text(r)
<1> DEFINE t == Text(r)
<1>1. t \in Seq(Tokens)
  BY TextIs
<1>2. s \in Seq(Tokens) /\ Len(s) = Len(t) /\ \A i \in 1 .. Len(s) : s[i] = t[i]
  BY DEF Prefix
<1> HIDE DEF t, Tokens
<1>3. s = t
  BY <1>1, <1>2, SeqEqual
<1> QED
  BY <1>3 DEF t

LEMMA InitInv == ASSUME Init PROVE ReqInv
<1>1. request \in Requests /\ stream = <<>> /\ phase = "receiving" /\ db \in Stores
  BY DEF Init
<1>2. Prefix(stream, request) /\ stream # Text(request)
  <2> DEFINE t == Text(request)
             end == Len(HeadText(request))
  <2>1. t \in Seq(Tokens) /\ end \in Nat /\ end >= 9 /\ request.size \in Nat /\ Len(t) = end + request.size
    BY <1>1, TextIs
  <2>2. Len(t) >= 9
    <3> HIDE DEF end, t, Tokens
    <3> QED
      BY <2>1
  <2> HIDE DEF t, end, Tokens
  <2>3. <<>> \in Seq(Tokens) /\ Len(<<>>) = 0
    BY EmptySeq
  <2>4. <<>> # t /\ Len(<<>>) <= Len(t) /\ \A i \in 1 .. Len(<<>>) : <<>>[i] = t[i]
    BY <2>1, <2>2, <2>3
  <2> QED
    BY <1>1, <2>3, <2>4 DEF Prefix, t
<1>3. db \subseteq ImgIds \X Images /\ reply = NoReply
  BY <1>1, StoresAssumption DEF Init
<1> QED
  BY <1>1, <1>2, <1>3
     DEF ReqInv, Received, Called, CallIsAsked, AskedIsServed, DiesOfARequest, ReplyTellsTruth

\* http_parse_message() hands a message over when it is whole, not later, and
\* dies of a header it cannot cut, or one too many, only.
LEMMA ReceiveInv == ASSUME ReqInv, Receive PROVE ReqInv'
<1> DEFINE r == request
<1>1. /\ r \in Requests /\ phase = "receiving" /\ db \subseteq ImgIds \X Images
      /\ request' = request /\ db' = db /\ call' = call /\ reply' = reply
      /\ Prefix(stream, r)
  BY DEF ReqInv, Received, Receive, store
<1>2. PICK n \in Len(stream) + 1 .. Len(Text(r)) :
        stream' = SubSeq(Text(r), 1, n) /\ Parse(SubSeq(Text(r), 1, n))
  BY DEF Receive
<1> DEFINE s == SubSeq(Text(r), 1, n)
           m == ParsedHead(s)
<1>3. n \in 1 .. Len(Text(r))
  <2>1. Len(stream) \in Nat /\ Len(Text(r)) \in Nat
    <3>1. stream \in Seq(Tokens) /\ Text(r) \in Seq(Tokens)
      BY <1>1, TextIs DEF Prefix
    <3> HIDE DEF r, Tokens
    <3> QED
      BY <3>1
  <2> QED
    BY <2>1
<1>4. Prefix(s, r) /\ Len(s) = n
  BY <1>1, <1>3, PrefixIs
<1>5. stream' = s /\ Parse(s)
  BY <1>2
<1> HIDE DEF s, m
<1>6. s \in Seq(Tokens)
  BY <1>4 DEF Prefix
<1>7. /\ ~HeadArrived(s) => phase' = "receiving"
      /\ HeadArrived(s) =>
            IF m.protocol # <<"HTTP/1.1">> THEN phase' = "done"
            ELSE IF m.next = 0 \/ Len(m.headers) > MaxHeaders THEN phase' = "crashed"
            ELSE IF ~Complete(s, m) THEN phase' = "receiving" ELSE phase' = "dispatch"
  BY <1>5 DEF Parse, m
<1>8. phase' \in {"receiving", "done", "crashed", "dispatch"}
  BY <1>7
\* The whole of it waits for nothing.
<1>9. ASSUME s = Text(r) PROVE phase' # "receiving"
  <2>1. HeadArrived(s)
    BY <1>1, <1>9, WholeHasArrived
  <2>2. m.next # 0 => Complete(s, m)
    BY <1>1, <1>9, WholeIsComplete DEF m
  <2> QED
    BY <1>7, <2>1, <2>2
<1>10. ASSUME phase' = "dispatch", PlainHeaders(r) PROVE Len(s) + Slack >= Len(Text(r))
  <2>1. HeadArrived(s) /\ Complete(s, m)
    BY <1>7, <1>10
  <2> QED
    BY <1>1, <1>4, <1>10, <2>1, AlmostWhole DEF m
<1>11. phase' = "dispatch" => HeadArrived(s)
  BY <1>7
<1>12. ASSUME phase' = "crashed"
       PROVE  (\E i \in DOMAIN r.headers : ~r.headers[i].spaced) \/ Len(r.headers) > MaxHeaders
  <2> SUFFICES ASSUME AllSpaced(r) PROVE Len(r.headers) > MaxHeaders
    BY DEF AllSpaced
  <2>1. HeadArrived(s) /\ (m.next = 0 \/ Len(m.headers) > MaxHeaders)
    BY <1>7, <1>12
  <2>2. Len(s) >= Len(HeadText(r))
    BY <1>1, <1>4, <2>1, HoldsTheHead
  <2>3. m.next = Len(HeadText(r)) + 1 /\ Len(m.headers) = Len(r.headers)
    BY <1>1, <1>4, <2>2, HeadIsSent DEF m
  <2>4. Len(HeadText(r)) \in Nat
    BY <1>1, TextIs
  <2> QED
    BY <2>1, <2>3, <2>4
<1>13. Received'
  BY <1>1, <1>4, <1>5, <1>9, <1>10, <1>11 DEF Received
<1>14. DiesOfARequest'
  BY <1>1, <1>12 DEF DiesOfARequest
\* What is answered to another protocol is nothing.
<1>15. AskedIsServed' /\ ReplyTellsTruth'
  <2>1. reply = NoReply
    BY <1>1 DEF ReqInv
  <2> QED
    BY <1>1, <2>1 DEF NoReply, AskedIsServed, ReplyTellsTruth
<1>16. Called' /\ CallIsAsked'
  BY <1>8 DEF Called, CallIsAsked
<1>17. reply' = NoReply
  BY <1>1 DEF ReqInv
<1> QED
  BY <1>1, <1>8, <1>13, <1>14, <1>15, <1>16, <1>17 DEF ReqInv

\* The handler says nothing, and calls nothing, but what the request is for.
LEMMA DispatchInv == ASSUME ReqInv, Dispatch PROVE ReqInv'
<1> DEFINE r == request
           m == ParsedHead(stream)
<1>1. /\ r \in Requests /\ phase = "dispatch" /\ db \subseteq ImgIds \X Images
      /\ request' = request /\ stream' = stream /\ reply = NoReply
      /\ Prefix(stream, r) /\ HeadArrived(stream)
  BY DEF ReqInv, Received, Dispatch
<1>2. m.method = <<r.method>> /\ (m.length # 0 => HasBody(r))
  <2>1. Len(stream) >= 2
    <3>1. stream \in Seq(Tokens)
      BY <1>1 DEF Prefix
    <3>2. PICK i \in 1 .. Len(stream) - 3 : TRUE
      BY <1>1, <3>1, ArrivedIs
    <3>3. Len(stream) \in Nat
      BY <3>1
    <3> QED
      BY <3>2, <3>3
  <2>2. Token(stream, Space, 1).val = <<r.method>>
    BY <1>1, <2>1, MethodIsSent
  <2>3. m.method = <<r.method>>
    BY <2>2, HeadParts
  <2>4. m.length = ContentLength(ParseHeaders(stream, ProtocolAt(stream).next).headers)
    BY HeadParts
  <2> HIDE DEF m
  <2>5. m.length \in {0, r.size}
    BY <2>4, LengthIs
  <2>6. r.size \in Nat
    BY <1>1, RequestsAssumption
  <2> QED
    BY <2>3, <2>5, <2>6 DEF HasBody
<1>3. PICK a \in HandleMessage(m) :
        \/ a.do = "crash" /\ phase' = "crashed" /\ UNCHANGED <<reply, store>>
        \/ /\ a.do = "reply" /\ phase' = "done" /\ UNCHANGED store
           /\ reply' = [NoReply EXCEPT !.status = a.status, !.ret = a.ret]
        \/ a.do = "call" /\ phase' = "in_call" /\ call' = a.call /\ UNCHANGED <<db, reply>>
  BY DEF Dispatch
<1>4. Right(r, a, m)
  BY <1>1, <1>2, MessageIs
<1> HIDE DEF m
<1>5. Received'
  BY <1>1, <1>3 DEF Received
<1>6. db' = db
  BY <1>3 DEF store
<1>10. m.method = <<"POST">> => r.method = "POST"
  <2>1. \A x, y : <<x>> = <<y>> => x = y
    OBVIOUS
  <2> QED
    BY <1>2, <2>1
<1>7. CASE a.do = "crash"
  <2>1. phase' = "crashed" /\ reply' = reply
    BY <1>3, <1>7
  <2>3. AnEmptyValue(r) \/ AnInsertion(r, m)
    BY <1>4, <1>7 DEF Right
  <2>2. DiesOfARequest'
    BY <1>1, <1>10, <2>3 DEF AnEmptyValue, AnInsertion, DiesOfARequest
  <2> QED
    BY <1>1, <1>5, <1>6, <2>1, <2>2 DEF ReqInv, Called, CallIsAsked, AskedIsServed, ReplyTellsTruth
<1>8. CASE a.do = "reply"
  <2>1. phase' = "done" /\ reply'.status = a.status /\ reply'.ret = a.ret
    BY <1>3, <1>8 DEF NoReply
  <2>2. /\ a.status \in {"302", "200"} => AFile(r)
        /\ a.ret = "ERR_NOT_ENOUGH_ARGUMENTS" /\ PlainParams(r) => ~HasAll(r)
    BY <1>4, <1>8 DEF Right
  <2>3. AskedIsServed'
    BY <1>1, <2>1, <2>2 DEF AskedIsServed, HasAll, Parts
  <2>5. AFile(r) => /\ ~MatchUri(r, "/imgfs/list") /\ ~MatchUri(r, "/imgfs/insert")
                    /\ ~MatchUri(r, "/imgfs/read") /\ ~MatchUri(r, "/imgfs/delete")
    BY MatchesOne DEF AFile
  <2>4. ReplyTellsTruth'
    BY <1>1, <2>1, <2>2, <2>5 DEF ReplyTellsTruth
  <2> QED
    BY <1>1, <1>5, <1>6, <2>1, <2>3, <2>4 DEF ReqInv, Called, CallIsAsked, DiesOfARequest
<1>9. CASE a.do = "call"
  <2>1. phase' = "in_call" /\ call' = a.call /\ reply' = reply
    BY <1>3, <1>9
  <2>2. /\ a.call.op \in Ops /\ MatchUri(r, Paths(a.call.op)) /\ a.call.ret = "pending"
        /\ PlainParams(r) => AskedBy(r, a.call, m)
    BY <1>4, <1>9 DEF Right
  <2>4. CallIsAsked'
    BY <1>1, <1>10, <2>1, <2>2 DEF CallIsAsked, AskedBy, AnInsertion
  <2>5. Called'
    BY <1>1, <2>1, <2>2 DEF Called
  <2> QED
    BY <1>1, <1>5, <1>6, <2>1, <2>4, <2>5 DEF ReqInv, AskedIsServed, DiesOfARequest, ReplyTellsTruth
<1> QED
  BY <1>3, <1>7, <1>8, <1>9

\* The store answers the call as it was made.
LEMMA CallStoreInv == ASSUME ReqInv, CallStore PROVE ReqInv'
<1>1. /\ phase = "in_call" /\ call.ret = "pending" /\ call.op \in Ops
      /\ db \subseteq ImgIds \X Images /\ CallIsAsked /\ Received /\ MatchUri(request, Paths(call.op))
      /\ phase' = phase /\ request' = request /\ stream' = stream /\ reply' = reply
  BY DEF ReqInv, Called, CallStore
<1>2. call # Store!NoCall
  BY <1>1 DEF Ops, Store!NoCall
<1>3. Received'
  BY <1>1 DEF Received
<1>4. SUFFICES /\ db' \subseteq ImgIds \X Images
               /\ call'.op = call.op /\ call'.id = call.id /\ call'.img = call.img /\ call'.res = call.res
               /\ call'.ret # "ERR_NOT_ENOUGH_ARGUMENTS"
               /\ call'.ret = "ERR_NONE" => ResultIsTrue'
  <2>1. Called'
    BY <1>1, <1>4 DEF Called
  <2>2. CallIsAsked'
    BY <1>1, <1>4 DEF CallIsAsked
  <2> QED
    BY <1>1, <1>3, <1>4, <2>1, <2>2 DEF ReqInv, AskedIsServed, DiesOfARequest, ReplyTellsTruth
<1>5. CASE Store!Insert
  <2>1. /\ call.op = "insert" /\ call.id \in ImgIds /\ call.img \in Images
        /\ call'.op = call.op /\ call'.id = call.id /\ call'.img = call.img /\ call'.res = call.res
        /\ call'.ret = "ERR_NONE" /\ db' = db \cup {<<call.id, call.img>>}
    BY <1>5 DEF Store!Insert, Store!Inserts, Store!Call, Store!Answer
  <2>2. ResultIsTrue'
    BY <2>1 DEF ResultIsTrue
  <2> QED
    BY <1>1, <2>1, <2>2
<1>6. CASE Store!Delete
  <2>1. /\ call.op = "delete"
        /\ call'.op = call.op /\ call'.id = call.id /\ call'.img = call.img /\ call'.res = call.res
        /\ call'.ret = "ERR_NONE" /\ db' = {p \in db : p[1] # call.id}
    BY <1>6 DEF Store!Delete, Store!Deletes, Store!Call, Store!Answer
  <2>2. ResultIsTrue'
    BY <2>1 DEF ResultIsTrue, Store!Ids
  <2> QED
    BY <1>1, <2>1, <2>2
<1>7. CASE Store!Read
  <2>1. PICK c \in Store!Reads : \E p \in db :
            /\ Store!Serving(c) /\ p[1] = c.id
            /\ call' = [c EXCEPT !.ret = "ERR_NONE", !.data = [img |-> p[2], res |-> c.res]]
            /\ UNCHANGED db
    BY <1>7 DEF Store!Read
  <2>2. PICK p \in db :
            /\ Store!Serving(c) /\ p[1] = c.id
            /\ call' = [c EXCEPT !.ret = "ERR_NONE", !.data = [img |-> p[2], res |-> c.res]]
            /\ UNCHANGED db
    BY <2>1
  <2>3. c = call /\ db' = db
    BY <1>2, <2>2 DEF Store!Serving
  <2>4. call.op = "read" /\ call'.ret = "ERR_NONE"
        /\ call'.op = call.op /\ call'.id = call.id /\ call'.img = call.img /\ call'.res = call.res
        /\ call'.data = [img |-> p[2], res |-> call.res]
    BY <2>2, <2>3 DEF Store!Reads, Store!Call
  <2>5. p = <<call.id, p[2]>>
    BY <1>1, <2>2, <2>3
  <2>6. ResultIsTrue'
    BY <2>3, <2>4, <2>5 DEF ResultIsTrue
  <2> QED
    BY <1>1, <2>3, <2>4, <2>6
<1>8. CASE Store!List
  <2>1. PICK c \in Store!Lists("JSON") \cup Store!Lists("STDOUT") : \E ids :
            /\ Store!Serving(c) /\ call' = [c EXCEPT !.ret = "ERR_NONE", !.ids = ids]
            /\ c.op = "JSON" => ids = Store!Ids(db)
            /\ UNCHANGED db
    BY <1>8 DEF Store!List, Store!Lists, Store!Call
  <2>2. PICK ids :
            /\ Store!Serving(c) /\ call' = [c EXCEPT !.ret = "ERR_NONE", !.ids = ids]
            /\ c.op = "JSON" => ids = Store!Ids(db)
            /\ UNCHANGED db
    BY <2>1
  <2>3. c = call /\ db' = db
    BY <1>2, <2>2 DEF Store!Serving
  <2>4. call.op \in {"JSON", "STDOUT"} /\ call'.ret = "ERR_NONE"
        /\ call'.op = call.op /\ call'.id = call.id /\ call'.img = call.img /\ call'.res = call.res
        /\ call'.ids = ids
    BY <2>2, <2>3 DEF Store!Lists, Store!Call
  <2>5. ResultIsTrue'
    BY <1>1, <2>2, <2>3, <2>4 DEF ResultIsTrue, Ops, Store!Ids
  <2> QED
    BY <1>1, <2>3, <2>4, <2>5
<1>9. CASE Store!Refuse
  <2>1. PICK c \in Store!Inserts \cup Store!Deletes \cup Store!Reads :
          \E ret \in {"ERR_IO", "ERR_IMGFS_FULL", "ERR_IMGLIB", "ERR_DUPLICATE_ID",
                      "ERR_IMAGE_NOT_FOUND", "ERR_INVALID_IMGID"} :
            Store!Serving(c) /\ call' = [c EXCEPT !.ret = ret]
    BY <1>9 DEF Store!Refuse, Store!Answer
  <2>2. db' = db
    BY <1>9 DEF Store!Refuse
  <2>3. c = call
    BY <1>2, <2>1 DEF Store!Serving
  <2>4. /\ call'.op = call.op /\ call'.id = call.id /\ call'.img = call.img /\ call'.res = call.res
        /\ call'.ret \notin {"ERR_NONE", "ERR_NOT_ENOUGH_ARGUMENTS"}
    BY <2>1, <2>3 DEF Store!Inserts, Store!Deletes, Store!Reads, Store!Call
  <2> QED
    BY <1>1, <2>2, <2>4
<1> QED
  BY <1>5, <1>6, <1>7, <1>8, <1>9 DEF CallStore

\* The answer is what the store has said.
LEMMA ReplyInv == ASSUME ReqInv, Reply PROVE ReqInv'
<1>1. /\ phase = "in_call" /\ call.ret # "pending" /\ call.op \in Ops
      /\ db \subseteq ImgIds \X Images /\ CallIsAsked /\ Received /\ MatchUri(request, Paths(call.op))
      /\ call.ret # "ERR_NOT_ENOUGH_ARGUMENTS" /\ (call.ret = "ERR_NONE" => ResultIsTrue)
      /\ phase' = "done" /\ request' = request /\ stream' = stream /\ db' = db
  BY DEF ReqInv, Called, Reply, Store!Return
<1>2. /\ reply'.ret = call.ret /\ reply'.data = call.data /\ reply'.ids = call.ids
      /\ reply'.status = IF call.ret # "ERR_NONE" THEN "500"
                         ELSE IF call.op \in {"insert", "delete"} THEN "302" ELSE "200"
  BY DEF Reply
<1>3. Received'
  BY <1>1 DEF Received
<1>4. AskedIsServed'
  BY <1>1, <1>2 DEF AskedIsServed
<1>5. ReplyTellsTruth'
  <2> SUFFICES ASSUME PlainHeaders(request), PlainParams(request)
               PROVE  /\ reply'.status = "302" /\ MatchUri(request, "/imgfs/insert") =>
                            \E p \in db : /\ p[1] = Asked(request, "name")
                                           /\ stream = Text(request) => p[2] = request.body
                      /\ reply'.status = "302" /\ MatchUri(request, "/imgfs/delete") =>
                            Asked(request, "img_id") \notin Store!Ids(db)
                      /\ reply'.status = "200" /\ MatchUri(request, "/imgfs/read") =>
                            /\ <<Asked(request, "img_id"), reply'.data.img>> \in db
                            /\ Begins(reply'.data.res, Asked(request, "res"))
                      /\ reply'.status = "200" /\ MatchUri(request, "/imgfs/list") =>
                            reply'.ids = Store!Ids(db)
    BY <1>1 DEF ReplyTellsTruth, Store!Ids
  <2>1. reply'.status \in {"302", "200"} => ResultIsTrue
    BY <1>1, <1>2
  <2>6. ASSUME NEW op \in Ops, MatchUri(request, Paths(op)) PROVE op = call.op
    <3>1. \A x \in Ops : Paths(x) \in {"/imgfs/list", "/imgfs/insert", "/imgfs/read", "/imgfs/delete"}
      BY DEF Ops, Paths
    <3>2. Paths(op) = Paths(call.op)
      BY <1>1, <2>6, <3>1, MatchesOne
    <3> QED
      BY <1>1, <3>2 DEF Ops, Paths
  <2>7. /\ MatchUri(request, "/imgfs/insert") => call.op = "insert"
        /\ MatchUri(request, "/imgfs/delete") => call.op = "delete"
        /\ MatchUri(request, "/imgfs/read") => call.op = "read"
        /\ MatchUri(request, "/imgfs/list") => call.op = "JSON"
    BY <2>6 DEF Ops, Paths
  <2>2. CASE call.op = "insert"
    <3>1. call.id = Asked(request, "name") /\ (stream = Text(request) => call.img = request.body)
      BY <1>1, <2>2 DEF CallIsAsked
    <3>2. reply'.status = "302" => \E p \in db : p[1] = call.id /\ p[2] = call.img
      BY <2>1, <2>2 DEF ResultIsTrue
    <3> QED
      BY <2>2, <2>7, <3>1, <3>2
  <2>3. CASE call.op = "delete"
    <3>1. call.id = Asked(request, "img_id")
      BY <1>1, <2>3 DEF CallIsAsked
    <3> QED
      BY <2>1, <2>3, <2>7, <3>1 DEF ResultIsTrue
  <2>4. CASE call.op = "read"
    <3>1. call.id = Asked(request, "img_id") /\ Begins(call.res, Asked(request, "res"))
      BY <1>1, <2>4 DEF CallIsAsked
    <3>2. reply'.status = "200" => <<call.id, reply'.data.img>> \in db /\ reply'.data.res = call.res
      BY <1>2, <2>1, <2>4 DEF ResultIsTrue
    <3> QED
      BY <2>4, <2>7, <3>1, <3>2
  <2>5. CASE call.op = "JSON"
    BY <1>2, <2>1, <2>5, <2>7 DEF ResultIsTrue
  <2> QED
    BY <1>1, <2>2, <2>3, <2>4, <2>5 DEF Ops
<1> QED
  BY <1>1, <1>3, <1>4, <1>5 DEF ReqInv, Called, CallIsAsked, DiesOfARequest

\* It dies of a read that failed in the file.
LEMMA FreeAgainInv == ASSUME ReqInv, FreeAgain PROVE ReqInv'
<1>1. /\ call.op = "read" /\ call.ret = "ERR_IO" /\ phase' = "crashed"
      /\ request' = request /\ stream' = stream /\ reply' = reply /\ db' = db /\ call' = call
      /\ Received /\ db \subseteq ImgIds \X Images /\ reply = NoReply
  BY DEF ReqInv, FreeAgain, store
<1>2. Received'
  BY <1>1 DEF Received
<1>3. DiesOfARequest'
  BY <1>1 DEF DiesOfARequest
<1> QED
  BY <1>1, <1>2, <1>3 DEF ReqInv, Called, CallIsAsked, AskedIsServed, ReplyTellsTruth

\* The invariant holds in every reachable state: http_parse_message(), the
\* handlers and the store agree on the request in hand.
THEOREM Inv == Spec => []ReqInv
<1>1. ASSUME ReqInv, [Next]_vars PROVE ReqInv'
  <2>1. CASE UNCHANGED vars
    <3>1. Received' <=> Received
      BY <2>1 DEF vars, store, Received
    <3>2. Called' <=> Called
      BY <2>1 DEF vars, store, Called, ResultIsTrue, Store!Ids
    <3>3. (CallIsAsked' <=> CallIsAsked) /\ (AskedIsServed' <=> AskedIsServed)
      BY <2>1 DEF vars, store, CallIsAsked, AskedIsServed
    <3>4. (DiesOfARequest' <=> DiesOfARequest) /\ (ReplyTellsTruth' <=> ReplyTellsTruth)
      BY <2>1 DEF vars, store, DiesOfARequest, ReplyTellsTruth, Store!Ids
    <3> QED
      BY <1>1, <2>1, <3>1, <3>2, <3>3, <3>4 DEF vars, store, ReqInv
  <2> QED
    BY <1>1, <2>1, ReceiveInv, DispatchInv, CallStoreInv, ReplyInv, FreeAgainInv DEF Next
<1> QED
  BY <1>1, InitInv, PTL DEF Spec

\* http_parse_message() hands a message over when it is whole, however it was
\* cut into pieces, and not later; and if its headers have their spaces and are
\* not too many, each part of its head is the part the client sent, and no more
\* than Slack bytes of its body are missing.
THEOREM ParsedIsSentCorrect == Spec => []ParsedIsSent
<1>1. ASSUME ReqInv PROVE ParsedIsSent
  <2>1. request \in Requests /\ Prefix(stream, request) /\ (stream = Text(request) => phase # "receiving")
    BY <1>1 DEF ReqInv, Received
  <2>2. ASSUME phase = "dispatch", PlainHeaders(request)
        PROVE  LET m == ParsedHead(stream)
               IN  /\ m.method = <<request.method>> /\ m.uri = <<"URI">>
                   /\ Len(m.headers) = Len(request.headers)
                   /\ \A i \in DOMAIN m.headers : m.headers[i].key = <<request.headers[i].key>>
                   /\ Len(stream) + Slack >= Len(Text(request))
    <3> DEFINE m == ParsedHead(stream)
               hs == m.headers
               n == Len(request.headers)
               Cut(i) == [key |-> <<request.headers[i].key>>, value |-> <<request.headers[i].value>>]
    <3>1. /\ HeadArrived(stream) /\ AllSpaced(request)
          /\ Len(stream) + Slack >= Len(Text(request))
      BY <1>1, <2>2 DEF ReqInv, Received, PlainHeaders, AllSpaced
    <3>2. Len(stream) >= Len(HeadText(request))
      BY <2>1, <3>1, HoldsTheHead
    <3>3. /\ m.method = <<request.method>> /\ m.uri = <<"URI">> /\ Len(hs) = n
          /\ \A i \in 1 .. n : hs[i] = Cut(i)
      BY <2>1, <3>1, <3>2, HeadIsSent
    <3>4. hs \in Seq([key : Seq(Tokens), value : Seq(Tokens)])
      BY <2>1, HeadEnds DEF Prefix
    <3>5. DOMAIN hs = 1 .. n
      <4> HIDE DEF hs, n, Tokens
      <4> QED
        BY <3>3, <3>4
    <3>6. \A i : Cut(i).key = <<request.headers[i].key>>
      OBVIOUS
    <3> HIDE DEF hs, n, Cut
    <3>7. \A i \in DOMAIN hs : hs[i].key = <<request.headers[i].key>>
      BY <3>3, <3>5, <3>6
    <3> QED
      BY <3>1, <3>3, <3>7 DEF hs, n
  <2> QED
    BY <2>1, <2>2 DEF ParsedIsSent
<1> QED
  BY <1>1, Inv, PTL

\* A call of the store does what its request asks for, to the image it names:
\* an image is inserted by a POST only, and is the body of that request if that
\* has arrived.
THEOREM CallIsAskedCorrect == Spec => []CallIsAsked
<1>1. ReqInv => CallIsAsked
  BY DEF ReqInv
<1> QED
  BY <1>1, Inv, PTL

\* No request that has all its parts is refused for want of them.
THEOREM AskedIsServedCorrect == Spec => []AskedIsServed
<1>1. ReqInv => AskedIsServed
  BY DEF ReqInv
<1> QED
  BY <1>1, Inv, PTL

\* The server dies of no request but one with a header that has no space behind
\* its colon, one header too many, or an empty parameter; of a read that failed in
\* the file; or of an image there is no memory to copy.
THEOREM DiesOfARequestCorrect == Spec => []DiesOfARequest
<1>1. ReqInv => DiesOfARequest
  BY DEF ReqInv
<1> QED
  BY <1>1, Inv, PTL

\* What an answer says is so in the store.
THEOREM ReplyTellsTruthCorrect == Spec => []ReplyTellsTruth
<1>1. ReqInv => ReplyTellsTruth
  BY DEF ReqInv
<1> QED
  BY <1>1, Inv, PTL
=============================================================================
