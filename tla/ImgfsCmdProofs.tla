-------------------------- MODULE ImgfsCmdProofs ---------------------------
(***************************************************************************)
(* Theorems of ImgfsCmd, for every command line and every directory.       *)
(***************************************************************************)
EXTENDS ImgfsCmd, WellFoundedInduction, TLAPS
-----------------------------------------------------------------------------
(***************************************************************************)
(* The loop of do_create_cmd().                                            *)
(***************************************************************************)
\* Induction on a set of numbers.
LEMMA Least == ASSUME NEW T, T \subseteq Nat, T # {} PROVE \E n \in T : \A m \in T : n <= m
<1>1. PICK n \in T : \A m \in T : ~(<<m, n>> \in OpToRel(<, Nat))
  BY NatLessThanWellFounded, WFMin
<1>2. ASSUME NEW m \in T PROVE n <= m
  <2>1. <<m, n>> \in Nat \X Nat /\ <<m, n>>[1] = m /\ <<m, n>>[2] = n
    OBVIOUS
  <2>2. ~(m < n)
    BY <1>1, <2>1 DEF OpToRel
  <2> QED
    BY <2>1, <2>2
<1> QED
  BY <1>2

LEMMA Greatest ==
    ASSUME NEW n \in Nat, NEW T, T \subseteq 0 .. n, T # {}
    PROVE  \E x \in T : \A y \in T : y <= x
<1> DEFINE Rest == {n - x : x \in T}
<1>1. Rest \subseteq Nat /\ Rest # {}
  OBVIOUS
<1>2. PICK r \in Rest : \A q \in Rest : r <= q
  BY <1>1, Least
<1>3. PICK x \in T : r = n - x
  OBVIOUS
<1>4. ASSUME NEW y \in T PROVE y <= x
  <2>1. n - x <= n - y
    BY <1>2, <1>3
  <2> QED
    BY <2>1
<1> QED
  BY <1>4

LEMMA Inductive ==
    ASSUME NEW T, T \subseteq Nat, 0 \in T, \A n \in T : n + 1 \in T
    PROVE  T = Nat
<1> SUFFICES ASSUME T # Nat PROVE FALSE
  OBVIOUS
<1>1. Nat \ T \subseteq Nat /\ Nat \ T # {}
  OBVIOUS
<1>2. PICK n \in Nat \ T : \A m \in Nat \ T : n <= m
  BY <1>1, Least
<1>3. n # 0 /\ n - 1 \in Nat
  BY <1>2
<1>4. n - 1 \in T
  BY <1>2, <1>3
<1> QED
  BY <1>2, <1>3, <1>4

\* One turn of the loop, at argument i.
Size(args, i) == <<Atouint(args[i + 1], UINT16_MAX), Atouint(args[i + 2], UINT16_MAX)>>
Then(key, value, rest) == [rest EXCEPT !.settings = <<[key |-> key, value |-> value]>> \o @]
Turn(args, from, i) ==
    IF i > Len(args) THEN Stop("ERR_NONE", FALSE)
    ELSE CASE args[i] = "-max_files" ->
            IF i + 1 > Len(args) THEN Stop("ERR_NOT_ENOUGH_ARGUMENTS", TRUE)
            ELSE Then("max_files", Atouint(args[i + 1], UINT32_MAX), from[i + 2])
      [] args[i] \in {"-thumb_res", "-small_res"} ->
            LET thumb == args[i] = "-thumb_res"
                max == IF thumb THEN MAX_THUMB_RES ELSE MAX_SMALL_RES
            IN  IF i + 2 > Len(args) THEN Stop("ERR_NOT_ENOUGH_ARGUMENTS", TRUE)
                ELSE IF ~InBounds(Size(args, i)[1], Size(args, i)[2], max)
                THEN Stop("ERR_RESOLUTIONS", FALSE)
                ELSE Then(IF thumb THEN "thumb_res" ELSE "small_res", Size(args, i), from[i + 3])
      [] OTHER -> Stop("ERR_INVALID_ARGUMENT", FALSE)
Turns(args, from) == [i \in 2 .. Len(args) + 3 |-> Turn(args, from, i)]
Loop(args) == CHOOSE from : from = Turns(args, from)

LEMMA OptionsIs == ASSUME NEW args PROVE Options(args) = Loop(args)[2]
  BY DEF Options, Loop, Turns, Turn, Size, Then

LEMMA TurnReads ==
    ASSUME NEW args \in Seq(STRING), NEW i \in Nat, NEW f, NEW g,
           i <= Len(args) => f[i + 2] = g[i + 2] /\ f[i + 3] = g[i + 3]
    PROVE  Turn(args, f, i) = Turn(args, g, i)
<1>1. CASE i > Len(args)
  BY <1>1 DEF Turn
<1>2. CASE f[i + 2] = g[i + 2] /\ f[i + 3] = g[i + 3]
  BY <1>2 DEF Turn
<1> QED
  BY <1>1, <1>2

LEMMA LoopExists == ASSUME NEW args \in Seq(STRING) PROVE \E from : from = Turns(args, from)
<1> DEFINE L == Len(args)
           Part(n, g) == g = [i \in L + 3 - n .. L + 3 |-> Turn(args, g, i)]
           T == {n \in Nat : n <= L + 1 => \E g : Part(n, g)}
<1>1. L \in Nat
  OBVIOUS
<1> HIDE DEF L
<1>2. 0 \in T
  <2> DEFINE g == [i \in L + 3 - 0 .. L + 3 |-> Turn(args, <<>>, i)]
  <2>1. ASSUME NEW i \in L + 3 - 0 .. L + 3 PROVE g[i] = Turn(args, g, i)
    <3>1. ~(i <= Len(args)) /\ i \in Nat
      BY <1>1 DEF L
    <3>2. Turn(args, <<>>, i) = Turn(args, g, i)
      BY <3>1, TurnReads
    <3> QED
      BY <3>2
  <2>2. Part(0, g)
    BY <2>1
  <2> QED
    BY <2>2
<1>3. ASSUME NEW n \in T PROVE n + 1 \in T
  <2> SUFFICES ASSUME n + 1 <= L + 1 PROVE \E h : Part(n + 1, h)
    OBVIOUS
  <2>1. n \in Nat /\ n <= L + 1
    BY <1>1
  <2>2. PICK g : Part(n, g)
    BY <2>1
  <2> DEFINE first == L + 3 - (n + 1)
             h == [i \in first .. L + 3 |-> IF i = first THEN Turn(args, g, i) ELSE g[i]]
  <2>3. first \in Nat /\ first = L + 2 - n /\ first .. L + 3 = {first} \cup (L + 3 - n .. L + 3)
    BY <1>1, <2>1
  <2>4. ASSUME NEW i \in first .. L + 3 PROVE Turn(args, g, i) = Turn(args, h, i)
    <3>1. ASSUME i <= L PROVE h[i + 2] = g[i + 2] /\ h[i + 3] = g[i + 3]
      <4>1. i + 2 \in first .. L + 3 /\ i + 2 # first /\ i + 3 \in first .. L + 3 /\ i + 3 # first
        BY <1>1, <2>3, <3>1
      <4> QED
        BY <4>1
    <3>2. i \in Nat
      BY <2>3
    <3> HIDE DEF h
    <3>3. i <= Len(args) => g[i + 2] = h[i + 2] /\ g[i + 3] = h[i + 3]
      BY <3>1 DEF L
    <3> QED
      BY <3>2, <3>3, TurnReads
  <2>5. ASSUME NEW i \in first .. L + 3 PROVE h[i] = Turn(args, g, i)
    <3>1. CASE i = first
      BY <3>1
    <3>2. CASE i # first
      <4>1. i \in L + 3 - n .. L + 3
        BY <2>3, <3>2
      <4>2. g[i] = Turn(args, g, i)
        BY <2>2, <4>1
      <4> QED
        BY <3>2, <4>2
    <3> QED
      BY <3>1, <3>2
  <2>6. Part(n + 1, h)
    BY <2>4, <2>5
  <2> QED
    BY <2>6
<1>4. L + 1 \in T
  BY <1>1, <1>2, <1>3, Inductive
<1>5. PICK g : Part(L + 1, g)
  BY <1>1, <1>4
<1>6. L + 3 - (L + 1) = 2
  BY <1>1
<1> QED
  BY <1>5, <1>6 DEF Turns, L

LEMMA LoopIs ==
    ASSUME NEW args \in Seq(STRING), NEW i \in 2 .. Len(args) + 3
    PROVE  Loop(args)[i] = Turn(args, Loop(args), i)
<1>1. Loop(args) = Turns(args, Loop(args))
  BY LoopExists DEF Loop
<1> QED
  BY <1>1 DEF Turns

\* What the loop sets is in bounds, whatever the arguments.
Sizes(max) == (1 .. max) \X (1 .. max)
Settings == [key : {"max_files"}, value : Nat]
    \cup [key : {"thumb_res"}, value : Sizes(MAX_THUMB_RES)]
    \cup [key : {"small_res"}, value : Sizes(MAX_SMALL_RES)]
Configs == [max_files : Nat, thumb_res : Sizes(MAX_THUMB_RES), small_res : Sizes(MAX_SMALL_RES)]
Ends == [settings : Seq(Settings), closes : BOOLEAN,
         ret : {"ERR_NONE", "ERR_NOT_ENOUGH_ARGUMENTS", "ERR_RESOLUTIONS", "ERR_INVALID_ARGUMENT"}]

LEMMA AtouintTypes == ASSUME NEW s, NEW max \in Nat PROVE Atouint(s, max) \in 0 .. max
  BY NumbersAssumption DEF Atouint

LEMMA StopTypes ==
    ASSUME NEW err \in {"ERR_NONE", "ERR_NOT_ENOUGH_ARGUMENTS", "ERR_RESOLUTIONS", "ERR_INVALID_ARGUMENT"},
           NEW closes \in BOOLEAN
    PROVE  Stop(err, closes) \in Ends
  BY DEF Stop, Ends

LEMMA ThenTypes ==
    ASSUME NEW key, NEW value, [key |-> key, value |-> value] \in Settings, NEW rest \in Ends
    PROVE  /\ Then(key, value, rest) \in Ends
           /\ Then(key, value, rest).settings = <<[key |-> key, value |-> value]>> \o rest.settings
           /\ Then(key, value, rest).ret = rest.ret
           /\ rest.settings \in Seq(Settings)
<1> DEFINE s == [key |-> key, value |-> value]
<1>1. <<s>> \in Seq(Settings) /\ rest.settings \in Seq(Settings)
  BY DEF Ends
<1>2. <<s>> \o rest.settings \in Seq(Settings)
  BY <1>1
<1> HIDE DEF s
<1>3. Then(key, value, rest) = [rest EXCEPT !.settings = <<s>> \o @]
  BY DEF Then, s
<1> QED
  BY <1>2, <1>3 DEF Ends, s

LEMMA LoopTypes ==
    ASSUME NEW args \in Seq(STRING)
    PROVE  \A i \in 2 .. Len(args) + 3 : Loop(args)[i] \in Ends
<1> DEFINE F == Loop(args)
           L == Len(args)
           Bad == {i \in 2 .. L + 3 : F[i] \notin Ends}
<1>1. L \in Nat
  OBVIOUS
<1> SUFFICES ASSUME Bad # {} PROVE FALSE
  OBVIOUS
<1>2. PICK i \in Bad : \A j \in Bad : j <= i
  <2>1. Bad \subseteq 0 .. L + 3 /\ L + 3 \in Nat
    BY <1>1
  <2> HIDE DEF Bad
  <2> QED
    BY <2>1, Greatest
<1>3. F[i] = Turn(args, F, i)
  BY LoopIs
<1>4. i <= L => F[i + 2] \in Ends /\ F[i + 3] \in Ends
  BY <1>1, <1>2
<1>5. /\ [key |-> "max_files", value |-> Atouint(args[i + 1], UINT32_MAX)] \in Settings
      /\ \A w, h : InBounds(w, h, MAX_THUMB_RES) => [key |-> "thumb_res", value |-> <<w, h>>] \in Settings
      /\ \A w, h : InBounds(w, h, MAX_SMALL_RES) => [key |-> "small_res", value |-> <<w, h>>] \in Settings
  <2>1. Atouint(args[i + 1], UINT32_MAX) \in Nat
    BY AtouintTypes, WidthsAssumption
  <2> QED
    BY <2>1 DEF Settings, Sizes, InBounds
<1> HIDE DEF F, L
<1>6. Turn(args, F, i) \in Ends
  <2>1. ASSUME NEW max, NEW key,
               InBounds(Size(args, i)[1], Size(args, i)[2], max),
               \A w, h : InBounds(w, h, max) => [key |-> key, value |-> <<w, h>>] \in Settings,
               F[i + 3] \in Ends
        PROVE  Then(key, Size(args, i), F[i + 3]) \in Ends
    <3>1. Size(args, i) = <<Size(args, i)[1], Size(args, i)[2]>>
      BY DEF Size
    <3>2. [key |-> key, value |-> Size(args, i)] \in Settings
      BY <2>1, <3>1
    <3> QED
      BY <2>1, <3>2, ThenTypes
  <2>2. F[i + 2] \in Ends => Then("max_files", Atouint(args[i + 1], UINT32_MAX), F[i + 2]) \in Ends
    BY <1>5, ThenTypes
  <2>3. CASE i > Len(args)
    BY <2>3, StopTypes DEF Turn
  <2>4. CASE i <= Len(args) /\ args[i] = "-max_files"
    BY <1>4, <2>2, <2>4, StopTypes DEF Turn, L
  <2>5. CASE i <= Len(args) /\ args[i] = "-thumb_res"
    BY <1>4, <1>5, <2>1, <2>5, StopTypes DEF Turn, L
  <2>6. CASE i <= Len(args) /\ args[i] = "-small_res"
    BY <1>4, <1>5, <2>1, <2>6, StopTypes DEF Turn, L
  <2>7. CASE i <= Len(args) /\ args[i] \notin {"-max_files", "-thumb_res", "-small_res"}
    BY <2>7, StopTypes DEF Turn
  <2>8. Len(args) \in Nat /\ i \in Nat
    BY <1>1 DEF L
  <2> QED
    BY <2>3, <2>4, <2>5, <2>6, <2>7, <2>8
<1> QED
  BY <1>3, <1>6

LEMMA OptionsTypes == ASSUME NEW args \in Seq(STRING) PROVE Options(args) \in Ends
<1>1. 2 \in 2 .. Len(args) + 3
  OBVIOUS
<1> QED
  BY <1>1, OptionsIs, LoopTypes
-----------------------------------------------------------------------------
(***************************************************************************)
(* The configuration: a fold over what the loop sets.                      *)
(***************************************************************************)
LEMMA MaxIs == ASSUME NEW n \in Nat, NEW S, S \subseteq 0 .. n, S # {} PROVE Max(S) \in S /\ \A x \in S : x <= Max(S)
<1>1. \E x \in S : \A y \in S : y <= x
  BY Greatest
<1>2. \A x \in S : \A y \in S : x >= y <=> y <= x
  OBVIOUS
<1> QED
  BY <1>1, <1>2 DEF Max

\* The values a fold goes through.
Folded(c, s) == FoldLeft(Set, c, s)
Through(v, c, s, n) ==
    v[0] = c /\ (\A k \in 1 .. n : v[k] = Set(v[k - 1], s[k])) /\ Folded(c, s) = v[n]

LEMMA FoldIs ==
    ASSUME NEW c, NEW s, NEW n \in Nat, DOMAIN s = 1 .. n
    PROVE  \E v : Through(v, c, s, n)
<1> DEFINE Step(iter, S) == IF S = {} THEN c ELSE LET x == Max(S) IN Set(iter[S \ {x}], s[x])
           Iter(iter) == [S \in SUBSET (DOMAIN s) |-> Step(iter, S)]
           iter == CHOOSE iter : iter = Iter(iter)
<1>1. Folded(c, s) = iter[DOMAIN s]
  BY DEF Folded, FoldLeft, MapThenFoldSet
<1> DEFINE Part(m, g) == g = [S \in SUBSET (1 .. m) |-> Step(g, S)]
           T == {m \in Nat : \E g : Part(m, g)}
<1>2. 0 \in T
  <2> DEFINE g == [S \in SUBSET (1 .. 0) |-> c]
  <2>0. 1 .. 0 = {}
    OBVIOUS
  <2>1. \A S \in SUBSET (1 .. 0) : S = {}
    BY <2>0
  <2>2. \A S \in SUBSET (1 .. 0) : g[S] = Step(g, S)
    BY <2>1
  <2>3. Part(0, g)
    BY <2>2
  <2> QED
    BY <2>3
<1>3. ASSUME NEW m \in T PROVE m + 1 \in T
  <2>1. m \in Nat
    OBVIOUS
  <2>2. PICK g : Part(m, g)
    OBVIOUS
  <2> DEFINE last == m + 1
             h == [S \in SUBSET (1 .. last) |->
                    IF last \in S THEN Set(g[S \ {last}], s[last]) ELSE g[S]]
  <2>3. ASSUME NEW S \in SUBSET (1 .. last) PROVE h[S] = Step(h, S)
    <3> HIDE DEF T
    <3>1. CASE last \in S
      <4>1. Max(S) = last
        <5>1. S \subseteq 0 .. last /\ S # {} /\ last \in Nat
          BY <2>1, <3>1
        <5>2. Max(S) \in S /\ last <= Max(S)
          BY <3>1, <5>1, MaxIs
        <5> HIDE DEF h, last, Step, Iter, Part
        <5>3. \A x \in 0 .. last : last <= x => x = last
          BY <5>1
        <5> QED
          BY <5>1, <5>2, <5>3
      <4>2. S \ {last} \in SUBSET (1 .. last) /\ last \notin S \ {last}
        OBVIOUS
      <4>3. h[S \ {last}] = g[S \ {last}] /\ h[S] = Set(g[S \ {last}], s[last])
        BY <3>1, <4>2
      <4>4. S # {}
        BY <3>1
      <4> HIDE DEF h, last
      <4> QED
        BY <4>1, <4>3, <4>4
    <3>2. CASE last \notin S
      <4>1. S \in SUBSET (1 .. m)
        BY <2>1, <3>2
      <4>2. g[S] = Step(g, S) /\ h[S] = g[S]
        BY <2>2, <3>2, <4>1
      <4>3. S \ {Max(S)} \in SUBSET (1 .. last) /\ last \notin S \ {Max(S)}
        BY <3>2
      <4>4. h[S \ {Max(S)}] = g[S \ {Max(S)}]
        BY <4>3
      <4> HIDE DEF h, last
      <4> QED
        BY <4>2, <4>4
    <3> QED
      BY <3>1, <3>2
  <2>4. Part(m + 1, h)
    <3> HIDE DEF Step, T
    <3> QED
      BY <2>3
  <2>5. \E f : Part(m + 1, f)
    BY <2>4
  <2> HIDE DEF Part
  <2> QED
    BY <2>1, <2>5
<1>4. n \in T
  <2> HIDE DEF T
  <2>1. T \subseteq Nat
    BY DEF T
  <2> QED
    BY <1>2, <1>3, <2>1, Inductive
<1>5. \E g : g = Iter(g)
  BY <1>4
<1>6. iter = Iter(iter)
  BY <1>5
<1> HIDE DEF iter
<1>7. \A S \in SUBSET (DOMAIN s) : iter[S] = Step(iter, S)
  BY <1>6
<1> DEFINE v == [k \in 0 .. n |-> iter[1 .. k]]
<1>8. v[0] = c
  <2>1. 1 .. 0 = {} /\ {} \in SUBSET (DOMAIN s)
    OBVIOUS
  <2>2. iter[{}] = c
    BY <1>7, <2>1
  <2> QED
    BY <2>1, <2>2
<1>9. ASSUME NEW k \in 1 .. n PROVE v[k] = Set(v[k - 1], s[k])
  <2>0. k \in Nat /\ 1 <= k /\ k <= n /\ k - 1 \in 0 .. n /\ k \in 0 .. n
    OBVIOUS
  <2> HIDE DEF v, Iter, Step, Part, T
  <2>1. 1 .. k \in SUBSET (DOMAIN s) /\ 1 .. k # {} /\ (1 .. k) \ {k} = 1 .. (k - 1) /\ k \in 1 .. k
    <3>1. k \in 1 .. k
      BY <2>0
    <3>2. (1 .. k) \ {k} = 1 .. (k - 1)
      BY <2>0
    <3>3. \A x \in 1 .. k : x \in 1 .. n
      BY <2>0
    <3> QED
      BY <3>1, <3>2, <3>3
  <2>2. Max(1 .. k) = k
    <3>1. 1 .. k \subseteq 0 .. k /\ 1 .. k # {} /\ k \in 1 .. k
      BY <2>0, <2>1
    <3>2. Max(1 .. k) \in 1 .. k /\ k <= Max(1 .. k)
      BY <2>0, <3>1, MaxIs
    <3> QED
      BY <2>0, <3>2
  <2>3. iter[1 .. k] = Set(iter[(1 .. k) \ {Max(1 .. k)}], s[Max(1 .. k)])
    BY <1>7, <2>1 DEF Step
  <2>4. v[k] = iter[1 .. k] /\ v[k - 1] = iter[1 .. (k - 1)]
    BY <2>0 DEF v
  <2> QED
    BY <2>1, <2>2, <2>3, <2>4
<1>10. Folded(c, s) = v[n]
  <2>1. n \in 0 .. n
    OBVIOUS
  <2> QED
    BY <1>1, <2>1
<1> HIDE DEF v
<1> QED
  BY <1>8, <1>9, <1>10 DEF Through

LEMMA SetTypes == ASSUME NEW c \in Configs, NEW s \in Settings PROVE Set(c, s) \in Configs
  BY DEF Set, Configs, Settings

LEMMA DefaultTypes == DefaultConfig \in Configs
  BY DEF DefaultConfig, Configs, Sizes, MAX_THUMB_RES, MAX_SMALL_RES

\* do_create_cmd() gives do_create() resolutions it allows, whatever is typed.
LEMMA ConfigTypes == ASSUME NEW args \in Seq(STRING) PROVE Config(args) \in Configs
<1> DEFINE s == Options(args).settings
           n == Len(s)
<1>1. s \in Seq(Settings) /\ n \in Nat /\ DOMAIN s = 1 .. n
  BY OptionsTypes DEF Ends
<1> HIDE DEF s, n
<1>2. PICK v : Through(v, DefaultConfig, s, n)
  BY <1>1, FoldIs
<1> USE DEF Through
<1> DEFINE T == {k \in Nat : k <= n => v[k] \in Configs}
<1>3. 0 \in T
  BY <1>2, DefaultTypes
<1>4. ASSUME NEW k \in T PROVE k + 1 \in T
  <2> SUFFICES ASSUME k + 1 <= n PROVE v[k + 1] \in Configs
    OBVIOUS
  <2>1. k + 1 \in 1 .. n /\ k + 1 - 1 = k /\ v[k] \in Configs
    BY <1>1
  <2>2. s[k + 1] \in Settings
    BY <1>1, <2>1
  <2> QED
    BY <1>2, <2>1, <2>2, SetTypes
<1>5. n \in T
  <2> HIDE DEF T
  <2>1. T \subseteq Nat
    BY DEF T
  <2> QED
    BY <1>1, <1>3, <1>4, <2>1, Inductive
<1> QED
  BY <1>1, <1>2, <1>5 DEF Config, Folded, s
-----------------------------------------------------------------------------
(***************************************************************************)
(* The invariant.                                                          *)
(***************************************************************************)
Blobs == [img : Images \cup {NoImage}, res : Resolutions \cup {"orig"}]
Files == [kind : {"absent", "empty", "broken", "blob", "store"}, blob : Blobs,
          db : SUBSET (ImgIds \X Images), config : Configs]
CmdTypes ==
    /\ files \in [Names -> Files] /\ before \in [Names -> Files]
    /\ argv \in CommandLines \cup {<<>>}
    /\ pc \in {"idle", "main", "create", "open", "load", "call", "extract", "exited"}
    /\ lost \in BOOLEAN
    /\ db \subseteq ImgIds \X Images /\ durable \subseteq ImgIds \X Images

\* What a process that works on the store was asked to do.
Accepted ==
    /\ argv \in CommandLines /\ ArgsError = "ERR_NONE" /\ Command # "help"
    /\ Command = "create" <=> pc = "create"
    /\ pc = "load" => Command = "insert"
    /\ pc = "extract" => Command = "read" /\ call.ret = "ERR_NONE"

Opened == files[Filename].kind = "store"
Same == db = files[Filename].db /\ durable = db

\* The call is the one the command line asks for.
Asked ==
    \/ Command = "list" /\ call.op = "STDOUT"
    \/ Command = "delete" /\ call.op = "delete" /\ call.id = Args[2]
    \/ Command = "read" /\ call.op = "read" /\ call.id = Args[2] /\ call.res = ReadRes
    \/ Command = "insert" /\ call.op = "insert" /\ call.id = Args[2] /\ Loads(call.img)

\* What the store in memory and the one on disk are when it was answered.
Served ==
    \/ Command = "list" /\ Same
    \/ /\ Command = "read" /\ Same
       /\ call.data \in Blobs /\ call.data.res = ReadRes /\ ReadRes \in Resolutions
       /\ <<Args[2], call.data.img>> \in db
    \/ /\ Command = "insert" /\ durable = files[Filename].db
       /\ db = durable \cup {<<Args[2], files[Args[3]].blob.img>>}
       /\ Args[2] \notin Store!Ids(durable)
    \/ /\ Command = "delete" /\ durable = files[Filename].db
       /\ db = {p \in durable : p[1] # Args[2]}
       /\ Args[2] \in Store!Ids(durable)

\* ExitTellsTruth, with the configuration create computes from its arguments.
Done ==
    CASE Command = "create" ->
            /\ argv \in CommandLines /\ ArgsError = "ERR_NONE"
            /\ files[Filename] = StoreFile({}, Config(Args))
      [] Command = "insert" ->
            /\ <<Args[2], before[Args[3]].blob.img>> \in files[Filename].db
            /\ Args[2] \notin Store!Ids(before[Filename].db)
      [] Command = "delete" ->
            /\ Args[2] \in Store!Ids(before[Filename].db)
            /\ Args[2] \notin Store!Ids(files[Filename].db)
      [] Command = "read" ->
            LET b == files[OutName(Args[2], ReadRes)].blob
            IN  <<Args[2], b.img>> \in before[Filename].db /\ b.res = ReadRes
      [] OTHER -> files = before

CmdInv ==
    /\ CmdTypes
    /\ pc # "exited" => files = before /\ ~lost
    /\ pc \in {"create", "open", "load", "call", "extract"} => Accepted
    /\ pc = "load" => Opened /\ Same
    /\ pc = "call" /\ call.ret = "pending" => Opened /\ Same /\ Asked
    /\ pc = "call" /\ call.ret \notin {"pending", "ERR_NONE"} => Opened /\ Same
    /\ pc = "call" /\ call.ret = "ERR_NONE" => Opened /\ Served
    /\ pc = "extract" => Served
    /\ FailureKeepsFiles
    /\ Exited /\ ret = "ERR_NONE" /\ ~lost => Done

-----------------------------------------------------------------------------
(***************************************************************************)
(* What the arguments that are accepted are.                               *)
(***************************************************************************)
LEMMA AcceptedIs ==
    ASSUME argv \in CommandLines \cup {<<>>}, ArgsError = "ERR_NONE"
    PROVE  /\ argv \in CommandLines /\ Command \in Commands
           /\ Command # "help" => Len(argv) >= 2 /\ Filename \in Names
           /\ Command = "read" => Args[2] = argv[3] /\ Len(argv) >= 3 /\ ReadRes \in Range(ResolutionOf)
<1>1. argv # <<>>
  BY DEF ArgsError
<1>2. argv \in Seq(STRING) /\ argv \in CommandLines
  BY <1>1, CommandLinesAssumption
<1>3. Command \in Commands
  BY <1>1 DEF ArgsError, Commands
<1>4. Len(argv) >= 1 /\ Args \in Seq(STRING) /\ Len(Args) = Len(argv) - 1
  BY <1>1, <1>2 DEF Args
<1>5. ASSUME Command # "help" PROVE Len(argv) >= 2
  BY <1>1, <1>3, <1>4, <1>5 DEF ArgsError, Commands
<1>6. ASSUME Command # "help" PROVE Filename \in Names
  BY <1>2, <1>5, <1>6, CommandLinesAssumption DEF Filename
<1>7. ASSUME Command = "read"
      PROVE  Len(Args) \in {2, 3} /\ (Len(Args) = 3 => Args[3] \in DOMAIN ResolutionOf)
  BY <1>1, <1>4, <1>7 DEF ArgsError, Commands
<1>8. ASSUME Command = "read" PROVE Args[2] = argv[3] /\ Len(argv) >= 3
  BY <1>2, <1>4, <1>7, <1>8 DEF Args
<1>9. ASSUME Command = "read" PROVE ReadRes \in Range(ResolutionOf)
  BY <1>7, <1>9 DEF ReadRes, ResolutionOf, Range
<1> QED
  BY <1>2, <1>3, <1>5, <1>6, <1>8, <1>9

LEMMA SameArguments ==
    ASSUME argv' = argv
    PROVE  /\ Command' = Command /\ Args' = Args /\ Filename' = Filename
           /\ ReadRes' = ReadRes /\ ArgsError' = ArgsError
<1>1. Command' = Command /\ Args' = Args /\ Filename' = Filename
  BY DEF Command, Args, Filename
<1> QED
  BY <1>1 DEF ReadRes, ArgsError

LEMMA OtherFiles ==
    ASSUME NEW kind \in {"absent", "empty", "broken"}
    PROVE  Other(kind) \in Files /\ Other(kind).kind = kind
  BY DefaultTypes DEF Other, File, Files, NoBlob, Blobs

LEMMA BlobFiles ==
    ASSUME NEW b \in Blobs
    PROVE  Blob(b) \in Files /\ Blob(b).kind = "blob" /\ Blob(b).blob = b
  BY DefaultTypes DEF Blob, File, Files

\* do_close() of a store in which nothing changed.
LEMMA ClosedAsItWas ==
    ASSUME files \in [Names -> Files], NEW f \in Names
    PROVE  [files EXCEPT ![f].db = files[f].db] = files
<1> DEFINE g == [files EXCEPT ![f].db = files[f].db]
<1>1. ASSUME NEW n \in Names PROVE g[n] = files[n]
  BY DEF Files
<1>2. g \in [Names -> Files]
  BY DEF Files
<1> QED
  BY <1>1, <1>2
-----------------------------------------------------------------------------
\* One lemma per action.
LEMMA InitInv == Init => CmdInv
<1> SUFFICES ASSUME Init PROVE CmdInv
  OBVIOUS
<1>1. Absent \in Files
  BY OtherFiles DEF Absent
<1>2. files \in [Names -> Files]
  BY <1>1 DEF Init
<1> QED
  BY <1>2 DEF Init, CmdInv, CmdTypes, Store!Init, FailureKeepsFiles, Exited

LEMMA CopyInv == ASSUME CmdInv, NEW f \in Copies, NEW img \in Images, Copy(f, img) PROVE CmdInv'
<1>1. [img |-> img, res |-> "orig"] \in Blobs
  BY DEF Blobs
<1>2. files' \in [Names -> Files]
  BY <1>1, BlobFiles DEF Copy, CmdInv, CmdTypes
<1> QED
  BY <1>2 DEF Copy, CmdInv, CmdTypes, FailureKeepsFiles, Exited, store

LEMMA TypeInv == ASSUME CmdInv, NEW args \in CommandLines, Type(args) PROVE CmdInv'
  BY DEF Type, CmdInv, CmdTypes, FailureKeepsFiles, Exited, store

LEMMA PromptInv == ASSUME CmdInv, Prompt PROVE CmdInv'
  BY DEF Prompt, CmdInv, CmdTypes, FailureKeepsFiles, Exited

\* A command that exits with nothing done.
LEMMA ExitInv ==
    ASSUME CmdInv, pc # "exited", UNCHANGED <<files, argv, lost, before, db, durable>>,
           NEW err, Exit(err), err = "ERR_NONE" => Command \notin {"create", "insert", "delete", "read"}
    PROVE  CmdInv'
<1>1. CmdTypes'
  BY DEF CmdInv, CmdTypes, Exit
<1>2. files' = before' /\ pc' = "exited"
  BY DEF CmdInv, Exit
<1>3. FailureKeepsFiles'
  BY <1>2 DEF FailureKeepsFiles
<1>4. ASSUME ret' = "ERR_NONE" PROVE Done'
  BY <1>2, <1>4, SameArguments DEF Done, Exit
<1> QED
  BY <1>1, <1>2, <1>3, <1>4 DEF CmdInv, Exited

LEMMA MainInv == ASSUME CmdInv, Main PROVE CmdInv'
<1>1. CASE ArgsError # "ERR_NONE" /\ ExitClosing(ArgsError, ClosesNothing)
  BY <1>1, ExitInv DEF Main, ExitClosing, store
<1>2. CASE ArgsError = "ERR_NONE" /\ Command = "help" /\ Exit("ERR_NONE")
  BY <1>2, ExitInv DEF Main, store
<1>3. CASE /\ ArgsError = "ERR_NONE" /\ Command # "help"
           /\ pc' = IF Command = "create" THEN "create" ELSE "open"
           /\ UNCHANGED ret
  <2>1. argv \in CommandLines
    BY <1>3, AcceptedIs DEF CmdInv, CmdTypes
  <2>2. Accepted'
    BY <1>3, <2>1, SameArguments DEF Accepted, Main
  <2>3. CmdTypes' /\ pc' \in {"create", "open"} /\ files' = before' /\ ~lost'
    BY <1>3 DEF Main, CmdInv, CmdTypes, store
  <2> QED
    BY <2>2, <2>3 DEF CmdInv, FailureKeepsFiles, Exited
<1> QED
  BY <1>1, <1>2, <1>3 DEF Main

\* One file is written anew.
LEMMA OneFile ==
    ASSUME files \in [Names -> Files], NEW f \in Names, NEW new \in Files,
           files' = [files EXCEPT ![f] = new]
    PROVE  /\ files' \in [Names -> Files] /\ files'[f] = new
           /\ \A g \in Names \ {f} : files'[g] = files[g]
  OBVIOUS

LEMMA CreateInv == ASSUME CmdInv, Create PROVE CmdInv'
<1>1. /\ CmdTypes /\ Accepted /\ files = before /\ ~lost
      /\ argv \in CommandLines /\ Command = "create" /\ Filename \in Names
  BY AcceptedIs DEF Create, CmdInv, Accepted, CmdTypes
<1>2. CASE ExitClosing("ERR_INVALID_FILENAME", TRUE) /\ UNCHANGED <<files, lost>>
  BY <1>2, ExitInv DEF Create, ExitClosing, store
<1>3. ASSUME NEW err \in {"ERR_OUT_OF_MEMORY", "ERR_IO"}, NEW kind \in {"empty", "broken"}, Exit(err),
             files' = [files EXCEPT ![Filename] = Other(kind)], UNCHANGED lost
      PROVE  CmdInv'
  <2>1. /\ files' \in [Names -> Files] /\ files'[Filename].kind = kind
        /\ \A g \in Names \ {Filename} : files'[g] = files[g]
    BY <1>1, <1>3, OneFile, OtherFiles DEF CmdTypes
  <2>2. CmdTypes' /\ pc' = "exited" /\ ret' = err
    BY <1>1, <1>3, <2>1 DEF CmdTypes, Create, Exit, store
  <2>3. FailureKeepsFiles'
    BY <1>1, <1>3, <2>1, <2>2, SameArguments DEF FailureKeepsFiles, Create
  <2> QED
    BY <1>3, <2>2, <2>3 DEF CmdInv, Exited
<1>4. ASSUME Exit("ERR_NONE"), files' = [files EXCEPT ![Filename] = StoreFile({}, Config(Args))],
             UNCHANGED lost
      PROVE  CmdInv'
  <2>1. Args \in Seq(STRING)
    <3>1. argv \in Seq(STRING) /\ argv # <<>>
      BY <1>1, CommandLinesAssumption DEF Accepted, ArgsError
    <3> QED
      BY <3>1 DEF Args
  <2>2. StoreFile({}, Config(Args)) \in Files
    BY <2>1, ConfigTypes DEF StoreFile, File, NoBlob, Files, Blobs
  <2>3. files' \in [Names -> Files] /\ files'[Filename] = StoreFile({}, Config(Args))
    BY <1>1, <1>4, <2>2, OneFile DEF CmdTypes
  <2>4. CmdTypes' /\ pc' = "exited" /\ ret' = "ERR_NONE"
    BY <1>1, <1>4, <2>3 DEF CmdTypes, Create, Exit, store
  <2>5. Done'
    BY <1>1, <2>3, SameArguments DEF Done, Create, Accepted
  <2> QED
    BY <2>4, <2>5 DEF CmdInv, FailureKeepsFiles, Exited
<1>5. ASSUME NEW kind \in {"empty", "broken"}, Exit("ERR_NONE"),
             files' = [files EXCEPT ![Filename] = Other(kind)], lost' = TRUE
      PROVE  CmdInv'
  <2>1. files' \in [Names -> Files]
    BY <1>1, <1>5, OneFile, OtherFiles DEF CmdTypes
  <2>2. CmdTypes' /\ pc' = "exited" /\ ret' = "ERR_NONE"
    BY <1>1, <1>5, <2>1 DEF CmdTypes, Create, Exit, store
  <2> QED
    BY <1>5, <2>2 DEF CmdInv, FailureKeepsFiles, Exited
<1> QED
  BY <1>2, <1>3, <1>4, <1>5 DEF Create

LEMMA OpenStoreInv == ASSUME CmdInv, OpenStore PROVE CmdInv'
<1>1. CmdTypes /\ Accepted /\ Filename \in Names /\ Command \in Commands \ {"help", "create"}
  BY AcceptedIs DEF OpenStore, CmdInv, Accepted, CmdTypes
<1>2. ASSUME NEW err \in {"ERR_IO", "ERR_OUT_OF_MEMORY"},
             ExitClosing(err, Command = "delete" /\ err = "ERR_IO"),
             files' = files, UNCHANGED store
      PROVE  CmdInv'
  BY <1>2, ExitInv DEF OpenStore, ExitClosing, store
<1>3. ASSUME files[Filename].kind = "store",
             db' = files[Filename].db, durable' = db', call' = CallOf,
             pc' = (IF Command = "insert" THEN "load" ELSE "call"),
             UNCHANGED <<files, ret>>
      PROVE  CmdInv'
  <2>1. CmdTypes' /\ files' = before' /\ ~lost'
    BY <1>1, <1>3 DEF CmdTypes, Files, CmdInv, OpenStore
  <2>2. Accepted'
    BY <1>1, <1>3, SameArguments DEF Accepted, OpenStore
  <2>3. Opened' /\ Same'
    BY <1>3, SameArguments DEF Opened, Same, OpenStore
  <2>4. ASSUME Command # "insert" PROVE call'.ret = "pending" /\ Asked'
    BY <1>1, <1>3, <2>4, SameArguments DEF Asked, CallOf, Store!NoCall, OpenStore, Commands
  <2> QED
    BY <1>3, <2>1, <2>2, <2>3, <2>4, SameArguments DEF CmdInv, FailureKeepsFiles, Exited, OpenStore
<1> QED
  BY <1>2, <1>3 DEF OpenStore, OpenedAsItIs

LEMMA LoadImageInv == ASSUME CmdInv, LoadImage PROVE CmdInv'
<1>1. CmdTypes /\ Accepted /\ Command = "insert" /\ Opened /\ Same /\ files = before /\ ~lost
  BY DEF LoadImage, CmdInv, Accepted
<1>2. CASE Exit("ERR_IO") /\ UNCHANGED call
  BY <1>2, ExitInv DEF LoadImage
<1>3. ASSUME NEW img \in Images \cup NonImages,
             Loads(img), call' = [CallOf EXCEPT !.op = "insert", !.id = Args[2], !.img = img],
             pc' = "call", UNCHANGED ret
      PROVE  CmdInv'
  <2>1. call'.ret = "pending" /\ call'.op = "insert" /\ call'.id = Args[2] /\ call'.img = img
    BY <1>1, <1>3 DEF CallOf, Store!NoCall
  <2>2. Accepted' /\ Opened' /\ Same' /\ Asked'
    BY <1>1, <1>3, <2>1, SameArguments DEF Accepted, Opened, Same, Asked, Loads, LoadImage
  <2>3. CmdTypes' /\ files' = before' /\ ~lost'
    BY <1>1, <1>3 DEF CmdTypes, LoadImage
  <2> QED
    BY <1>3, <2>1, <2>2, <2>3 DEF CmdInv, FailureKeepsFiles, Exited
<1> QED
  BY <1>2, <1>3 DEF LoadImage

LEMMA CallStoreInv == ASSUME CmdInv, CallStore PROVE CmdInv'
<1>1. /\ CmdTypes /\ Accepted /\ Opened /\ Same /\ Asked /\ files = before /\ ~lost
      /\ pc = "call" /\ call.ret = "pending"
      /\ Filename \in Names /\ files[Filename] \in Files
  BY AcceptedIs DEF CallStore, CmdInv, Accepted, CmdTypes
<1>2. /\ Accepted' /\ Opened' /\ files' = before' /\ ~lost' /\ pc' = "call"
      /\ (Same' <=> db' = files[Filename].db /\ durable' = db')
  <2>1. Accepted'
    BY <1>1, SameArguments DEF Accepted, CallStore
  <2> QED
    BY <1>1, <2>1, SameArguments DEF Opened, Same, CallStore
\* No request at all is not one of those a command makes.
<1>3. call # Store!NoCall
  BY <1>1 DEF Asked, Store!NoCall
<1>4. SUFFICES /\ CmdTypes' /\ call'.ret # "pending"
               /\ call'.ret # "ERR_NONE" => Same'
               /\ call'.ret = "ERR_NONE" => Served'
  BY <1>2 DEF CmdInv, FailureKeepsFiles, Exited
<1>5. CASE Store!Insert
  <2>1. /\ call.op = "insert" /\ call.id \in ImgIds /\ call.img \in Images /\ call'.ret = "ERR_NONE"
        /\ call.id \notin Store!Ids(db)
        /\ db' = db \cup {<<call.id, call.img>>} /\ durable' = db
    BY <1>5 DEF Store!Insert, Store!Inserts, Store!Call, Store!Answer
  <2>2. Command = "insert" /\ call.id = Args[2] /\ call.img = files[Args[3]].blob.img
    BY <1>1, <2>1, ImagesAssumption DEF Asked, Loads
  <2>3. Served'
    BY <1>1, <2>1, <2>2, SameArguments DEF Served, Same, CallStore
  <2>4. CmdTypes'
    BY <1>1, <2>1 DEF CmdTypes, CallStore
  <2> QED
    BY <2>1, <2>3, <2>4
<1>6. CASE Store!Delete
  <2>1. /\ call.op = "delete" /\ call'.ret = "ERR_NONE"
        /\ call.id \in Store!Ids(db)
        /\ db' = {p \in db : p[1] # call.id} /\ durable' = db
    BY <1>6 DEF Store!Delete, Store!Deletes, Store!Call, Store!Answer
  <2>2. Command = "delete" /\ call.id = Args[2]
    BY <1>1, <2>1 DEF Asked
  <2>3. Served'
    BY <1>1, <2>1, <2>2, SameArguments DEF Served, Same, CallStore
  <2>4. CmdTypes'
    BY <1>1, <2>1 DEF CmdTypes, CallStore
  <2> QED
    BY <2>1, <2>3, <2>4
<1>7. CASE Store!Read
  <2>1. PICK c \in Store!Reads : \E p \in db :
            /\ Store!Serving(c) /\ p[1] = c.id
            /\ call' = [c EXCEPT !.ret = "ERR_NONE", !.data = [img |-> p[2], res |-> c.res]]
            /\ Store!MaySync /\ UNCHANGED db
    BY <1>7 DEF Store!Read
  <2>2. PICK p \in db :
            /\ Store!Serving(c) /\ p[1] = c.id
            /\ call' = [c EXCEPT !.ret = "ERR_NONE", !.data = [img |-> p[2], res |-> c.res]]
            /\ Store!MaySync /\ UNCHANGED db
    BY <2>1
  <2>3. c = call /\ db' = db /\ durable' = db
    BY <1>1, <1>3, <2>2 DEF Store!Serving, Store!MaySync, Same
  <2>4. call.op = "read" /\ call.res \in Resolutions /\ call'.ret = "ERR_NONE"
        /\ call'.data = [img |-> p[2], res |-> call.res]
    BY <2>2, <2>3 DEF Store!Reads, Store!Call
  <2>5. Command = "read" /\ call.id = Args[2] /\ call.res = ReadRes
    BY <1>1, <2>4 DEF Asked
  <2>6. p \in ImgIds \X Images /\ p = <<call.id, p[2]>>
    BY <1>1, <2>2, <2>3 DEF CmdTypes
  <2>7. call'.data \in Blobs /\ call'.data.res = ReadRes /\ <<Args[2], call'.data.img>> \in db
    BY <2>4, <2>5, <2>6 DEF Blobs
  <2>8. Same'
    BY <1>1, <1>2, <2>3 DEF Same
  <2>9. Served'
    BY <2>3, <2>4, <2>5, <2>7, <2>8, SameArguments DEF Served, CallStore
  <2>10. CmdTypes'
    BY <1>1, <2>3 DEF CmdTypes, CallStore
  <2> QED
    BY <2>4, <2>9, <2>10
<1>8. CASE Store!List
  <2>1. PICK c \in Store!Lists("JSON") \cup Store!Lists("STDOUT") : \E ids :
            /\ Store!Serving(c) /\ call' = [c EXCEPT !.ret = "ERR_NONE", !.ids = ids]
            /\ Store!MaySync /\ UNCHANGED db
    BY <1>8 DEF Store!List
  <2>2. c = call /\ db' = db /\ durable' = db
    BY <1>1, <1>3, <2>1 DEF Store!Serving, Store!MaySync, Same
  <2>3. call.op \in {"JSON", "STDOUT"} /\ call'.ret = "ERR_NONE"
    BY <2>1, <2>2 DEF Store!Lists, Store!Call
  <2>4. Command = "list"
    BY <1>1, <2>3 DEF Asked
  <2>5. Same'
    BY <1>1, <1>2, <2>2 DEF Same
  <2>6. Served'
    BY <2>4, <2>5, SameArguments DEF Served, CallStore
  <2>7. CmdTypes'
    BY <1>1, <2>2 DEF CmdTypes, CallStore
  <2> QED
    BY <2>3, <2>6, <2>7
<1>9. CASE Store!Refuse
  <2>1. db' = db /\ durable' = db
    BY <1>1, <1>9 DEF Store!Refuse, Store!MaySync, Same
  <2>2. call'.ret \notin {"pending", "ERR_NONE"}
    <3>1. PICK c \in Store!Inserts \cup Store!Deletes \cup Store!Reads :
            \E r \in {"ERR_IO", "ERR_IMGFS_FULL", "ERR_IMGLIB", "ERR_DUPLICATE_ID",
                      "ERR_IMAGE_NOT_FOUND", "ERR_INVALID_IMGID"} : call' = [c EXCEPT !.ret = r]
      BY <1>9 DEF Store!Refuse, Store!Answer
    <3> QED
      BY <3>1 DEF Store!Inserts, Store!Deletes, Store!Reads, Store!Call
  <2>3. CmdTypes'
    BY <1>1, <2>1 DEF CmdTypes, CallStore
  <2> QED
    BY <1>1, <1>2, <2>1, <2>2, <2>3 DEF Same
<1> QED
  BY <1>5, <1>6, <1>7, <1>8, <1>9 DEF CallStore

LEMMA CloseInv == ASSUME CmdInv, Close PROVE CmdInv'
<1>1. /\ CmdTypes /\ Accepted /\ Opened /\ files = before /\ ~lost /\ pc = "call" /\ call.ret # "pending"
      /\ Filename \in Names /\ files[Filename] \in Files /\ Command \in Commands \ {"help", "create"}
      /\ call.ret # "ERR_NONE" => Same
      /\ call.ret = "ERR_NONE" => Served
  BY AcceptedIs DEF Close, CmdInv, Accepted, CmdTypes
<1>2. PICK kept \in {db, durable} :
        files' = [files EXCEPT ![Filename].db = kept] /\ lost' = (kept # db)
  BY DEF Close
<1>3. /\ files' \in [Names -> Files] /\ files'[Filename].db = kept
      /\ \A g \in Names \ {Filename} : files'[g] = files[g]
  BY <1>1, <1>2 DEF CmdTypes, Files
<1>4. CmdTypes'
  <2>1. pc' \in {"extract", "exited"}
    BY DEF Close, Exit, ExitClosing
  <2> QED
    BY <1>1, <1>2, <1>3, <2>1 DEF CmdTypes, Close, store
<1>5. ASSUME Same PROVE files' = before' /\ ~lost'
  <2>1. kept = files[Filename].db /\ kept = db
    BY <1>5 DEF Same
  <2> QED
    BY <1>1, <1>2, <2>1, ClosedAsItWas DEF CmdTypes, Close
<1>6. CASE Command = "read" /\ call.ret = "ERR_NONE"
  <2>1. Same /\ pc' = "extract"
    BY <1>1, <1>6 DEF Served, Close
  <2>2. files' = files
    BY <1>1, <1>5, <2>1 DEF Close
  <2>3. Accepted'
    BY <1>1, <1>6, <2>1, SameArguments DEF Accepted, Close, store
  <2>4. Served'
    BY <1>1, <1>6, <2>1, <2>2, SameArguments DEF Served, Same, Close, store
  <2> QED
    BY <1>4, <1>5, <2>1, <2>3, <2>4 DEF CmdInv, FailureKeepsFiles, Exited
<1>7. CASE ~(Command = "read" /\ call.ret = "ERR_NONE")
  <2>1. pc' = "exited" /\ (ret' = call.ret \/ (ret' = "aborted" /\ call.ret = "ERR_IO"))
    BY <1>7 DEF Close, Exit, ExitClosing
  <2>2. ASSUME call.ret # "ERR_NONE" PROVE FailureKeepsFiles'
    BY <1>1, <1>5, <2>2 DEF FailureKeepsFiles
  <2>3. ASSUME call.ret = "ERR_NONE", ~lost' PROVE Done'
    <3>1. Served /\ kept = db /\ files'[Filename].db = db
      BY <1>1, <1>2, <1>3, <2>3
    <3>2. CASE Command = "list"
      BY <1>5, <3>1, <3>2, SameArguments DEF Served, Done, Close
    <3>3. CASE Command = "insert"
      BY <1>1, <3>1, <3>3, SameArguments DEF Served, Done, Close
    <3>4. CASE Command = "delete"
      BY <1>1, <3>1, <3>4, SameArguments DEF Served, Done, Close, Store!Ids
    <3> QED
      BY <1>1, <1>7, <2>3, <3>2, <3>3, <3>4 DEF Commands
  <2> QED
    BY <1>4, <2>1, <2>2, <2>3 DEF CmdInv, FailureKeepsFiles, Exited
<1> QED
  BY <1>6, <1>7

LEMMA ExtractInv == ASSUME CmdInv, Extract PROVE CmdInv'
<1> DEFINE f == OutName(Args[2], ReadRes)
<1>1. /\ CmdTypes /\ Accepted /\ Served /\ files = before /\ ~lost
      /\ Command = "read" /\ argv \in CommandLines
      /\ Args[2] = argv[3] /\ Len(argv) >= 3
  BY AcceptedIs DEF Extract, CmdInv, Accepted, CmdTypes
<1>2. /\ call.data \in Blobs /\ call.data.res = ReadRes /\ ReadRes \in Resolutions
      /\ <<Args[2], call.data.img>> \in files[Filename].db
  BY <1>1 DEF Served, Same
<1>3. f \in Names
  BY <1>1, <1>2, CommandLinesAssumption DEF Command
<1>4. f' = f
  BY SameArguments DEF Extract
<1>5. \/ Exit("ERR_IO") /\ files' \in {files, [files EXCEPT ![f] = Other("empty")]} /\ UNCHANGED lost
      \/ Exit("ERR_NONE") /\ files' = [files EXCEPT ![f] = Blob(call.data)] /\ UNCHANGED lost
      \/ Exit("ERR_NONE") /\ files' = [files EXCEPT ![f] = Other("empty")] /\ lost' = TRUE
  BY DEF Extract
<1> HIDE DEF f
<1>6. CASE files' = files /\ Exit("ERR_IO") /\ UNCHANGED lost
  BY <1>1, <1>6, ExitInv DEF Extract, store
<1>7. ASSUME files' = [files EXCEPT ![f] = Other("empty")], NEW err \in {"ERR_IO", "ERR_NONE"},
             Exit(err), lost' \in BOOLEAN, err = "ERR_NONE" => lost'
      PROVE  CmdInv'
  <2>1. /\ files' \in [Names -> Files] /\ files'[f].kind = "empty"
        /\ \A g \in Names \ {f} : files'[g] = files[g]
    BY <1>1, <1>3, <1>7, OneFile, OtherFiles DEF CmdTypes
  <2>2. CmdTypes' /\ pc' = "exited" /\ ret' \in {"ERR_IO", "ERR_NONE"} /\ before' = files
    BY <1>1, <1>7, <2>1 DEF CmdTypes, Extract, Exit, store
  <2>3. Command' = "read" /\ f' = OutName(Args'[2], ReadRes')
    BY <1>1, SameArguments DEF Extract, f
  <2>4. FailureKeepsFiles'
    BY <1>4, <2>1, <2>2, <2>3 DEF FailureKeepsFiles
  <2>5. ~(ret' = "ERR_NONE" /\ ~lost')
    BY <1>7 DEF Exit
  <2> QED
    BY <2>2, <2>4, <2>5 DEF CmdInv, Exited
<1>8. ASSUME files' = [files EXCEPT ![f] = Blob(call.data)], Exit("ERR_NONE"), UNCHANGED lost
      PROVE  CmdInv'
  <2>1. files' \in [Names -> Files] /\ files'[f].blob = call.data
    BY <1>1, <1>2, <1>3, <1>8, OneFile, BlobFiles DEF CmdTypes
  <2>2. CmdTypes' /\ pc' = "exited" /\ ret' = "ERR_NONE" /\ before' = files
    BY <1>1, <1>8, <2>1 DEF CmdTypes, Extract, Exit, store
  <2>3. Done'
    BY <1>1, <1>2, <2>1, <2>2, SameArguments DEF Done, Extract, f
  <2> QED
    BY <2>2, <2>3 DEF CmdInv, FailureKeepsFiles, Exited
<1>9. CASE Exit("ERR_IO") /\ files' \in {files, [files EXCEPT ![f] = Other("empty")]} /\ UNCHANGED lost
  <2>1. CASE files' = files
    BY <1>6, <1>9, <2>1
  <2>2. CASE files' = [files EXCEPT ![f] = Other("empty")]
    BY <1>1, <1>7, <1>9, <2>2 DEF CmdTypes
  <2> QED
    BY <1>9, <2>1, <2>2
<1>10. CASE Exit("ERR_NONE") /\ files' = [files EXCEPT ![f] = Blob(call.data)] /\ UNCHANGED lost
  BY <1>8, <1>10
<1>11. CASE Exit("ERR_NONE") /\ files' = [files EXCEPT ![f] = Other("empty")] /\ lost' = TRUE
  BY <1>7, <1>11
<1> QED
  BY <1>5, <1>9, <1>10, <1>11

\* At every step of a command: the types, what was asked for, and what the store
\* in memory and the directory are by then.
THEOREM Inv == Spec => []CmdInv
<1>1. ASSUME CmdInv, [Next]_vars PROVE CmdInv'
  <2>1. CASE UNCHANGED vars
    <3>1. Served' <=> Served
      BY <2>1, SameArguments DEF vars, store, Served, Same
    <3>2. (Accepted' <=> Accepted) /\ (Opened' <=> Opened) /\ (Same' <=> Same) /\ (Asked' <=> Asked)
      BY <2>1, SameArguments DEF vars, store, Accepted, Opened, Same, Asked, Loads
    <3>3. (Done' <=> Done) /\ (FailureKeepsFiles' <=> FailureKeepsFiles) /\ (CmdTypes' <=> CmdTypes)
      BY <2>1, SameArguments DEF vars, store, Done, FailureKeepsFiles, CmdTypes, Exited
    <3> QED
      BY <1>1, <2>1, <3>1, <3>2, <3>3 DEF vars, store, CmdInv, Exited
  <2> QED
    BY <1>1, <2>1, CopyInv, TypeInv, MainInv, CreateInv, OpenStoreInv, LoadImageInv,
       CallStoreInv, CloseInv, ExtractInv, PromptInv DEF Next
<1> QED
  BY <1>1, InitInv, PTL DEF Spec

\* Every store that is ever created has the resolutions do_create_cmd() allows,
\* whatever is typed, and whatever part of a file fclose() did not write.
THEOREM ConfigInBoundsCorrect == Spec => []ConfigInBounds
<1>1. ASSUME NEW max, NEW s \in Sizes(max) PROVE \A i \in 1 .. 2 : s[i] \in 1 .. max
  BY DEF Sizes
<1>2. ASSUME CmdInv, NEW f \in Names
      PROVE  /\ files[f].config.thumb_res \in Sizes(MAX_THUMB_RES)
             /\ files[f].config.small_res \in Sizes(MAX_SMALL_RES)
  BY <1>2 DEF CmdInv, CmdTypes, Files, Configs
<1>3. CmdInv => ConfigInBounds
  BY <1>1, <1>2 DEF ConfigInBounds
<1> QED
  BY <1>3, Inv, PTL

\* A command that fails, or is killed in do_close(), leaves every file as it
\* was, but for the file do_create() has emptied and the one write_disk_image()
\* has opened.
THEOREM FailureKeepsFilesCorrect == Spec => []FailureKeepsFiles
<1>1. CmdInv => FailureKeepsFiles
  BY DEF CmdInv
<1> QED
  BY <1>1, Inv, PTL

\* An image leaves a store only when it is deleted, and a store the directory
\* only when it is created anew, when the image of that file's name is read, or
\* when somebody puts an image in its place: no call of the library, and no
\* flush do_close() does not make, removes anything else.
THEOREM OnlyAskedForIsRemovedCorrect == Spec => OnlyAskedForIsRemoved
<1> DEFINE Asking(f, p) ==
        \/ pc = "idle"
        \/ Command = "delete" /\ f = Filename /\ Args[2] = p[1]
        \/ Command = "create" /\ f = Filename
        \/ Command = "read" /\ f = OutName(Args[2], ReadRes)
      Removing == \A f \in Names : \A p \in files[f].db \ files'[f].db : Asking(f, p)
<1>1. ASSUME CmdInv, [Next]_vars PROVE Removing
  <2> SUFFICES ASSUME NEW f \in Names, NEW p \in files[f].db \ files'[f].db PROVE Asking(f, p)
    OBVIOUS
  <2>1. files' # files
    OBVIOUS
  <2>2. files \in [Names -> Files]
    BY <1>1 DEF CmdInv, CmdTypes
  <2>3. CASE \E g \in Copies, img \in Images : Copy(g, img)
    BY <2>3 DEF Copy
  <2>4. CASE Create
    <3>1. Command = "create" /\ Filename \in Names
      BY <1>1, <2>4, AcceptedIs DEF Create, CmdInv, Accepted, CmdTypes
    <3>2. \E new : files' = [files EXCEPT ![Filename] = new]
      BY <2>1, <2>4 DEF Create
    <3>3. f = Filename
      BY <2>1, <2>2, <3>2
    <3> QED
      BY <3>1, <3>3
  <2>5. CASE Close
    <3>1. /\ Accepted /\ Command \in Commands \ {"help"}
          /\ call.ret # "ERR_NONE" => Same
          /\ call.ret = "ERR_NONE" => Served
      BY <1>1, <2>5, AcceptedIs DEF Close, CmdInv, Accepted, CmdTypes
    <3>2. PICK kept \in {db, durable} : files' = [files EXCEPT ![Filename].db = kept]
      BY <2>5 DEF Close
    <3>3. f = Filename /\ p \in files[Filename].db /\ p \notin kept
      BY <2>1, <2>2, <3>2 DEF Files
    <3>4. Command = "delete" /\ p[1] = Args[2]
      BY <3>1, <3>2, <3>3 DEF Served, Same
    <3> QED
      BY <3>3, <3>4
  <2>6. CASE Extract
    <3> DEFINE out == OutName(Args[2], ReadRes)
    <3>1. Command = "read"
      BY <1>1, <2>6 DEF Extract, CmdInv, Accepted
    <3>2. \E new : files' = [files EXCEPT ![out] = new]
      BY <2>1, <2>6 DEF Extract
    <3> HIDE DEF out
    <3>3. f = out
      BY <2>1, <2>2, <3>2
    <3> QED
      BY <3>1, <3>3 DEF out
  <2> QED
    BY <1>1, <2>1, <2>3, <2>4, <2>5, <2>6
       DEF Next, vars, Type, Main, OpenStore, OpenedAsItIs, LoadImage, CallStore, Prompt
<1>2. Removing <=> (\A f \in Names : \A p \in files[f].db \ files'[f].db :
        \/ pc = "idle"
        \/ Command = "delete" /\ f = Filename /\ Args[2] = p[1]
        \/ Command = "create" /\ f = Filename
        \/ Command = "read" /\ f = OutName(Args[2], ReadRes))
  OBVIOUS
<1> HIDE DEF Removing
<1> QED
  BY <1>1, <1>2, Inv, PTL DEF Spec, OnlyAskedForIsRemoved
-----------------------------------------------------------------------------
(***************************************************************************)
(* What create was asked for: the last mention of an option counts.        *)
(***************************************************************************)
LEMMA FoldNothing == ASSUME NEW c PROVE Folded(c, <<>>) = c
<1>1. PICK v : Through(v, c, <<>>, 0)
  BY FoldIs
<1> QED
  BY <1>1 DEF Through

LEMMA FoldFirst ==
    ASSUME NEW c, NEW x \in Settings, NEW s \in Seq(Settings)
    PROVE  Folded(c, <<x>> \o s) = Folded(Set(c, x), s)
<1> DEFINE n == Len(s)
           t == <<x>> \o s
<1>1. n \in Nat /\ DOMAIN s = 1 .. n /\ DOMAIN t = 1 .. (n + 1) /\ n + 1 \in Nat
  OBVIOUS
<1>2. t[1] = x /\ \A k \in 1 .. n : t[k + 1] = s[k]
  OBVIOUS
<1> HIDE DEF n, t
<1>3. PICK v : Through(v, c, t, n + 1)
  BY <1>1, FoldIs
<1>4. PICK w : Through(w, Set(c, x), s, n)
  BY <1>1, FoldIs
<1> USE DEF Through
<1> DEFINE T == {k \in Nat : k <= n => v[k + 1] = w[k]}
<1>5. 0 \in T
  <2>1. 1 \in 1 .. (n + 1) /\ 1 - 1 = 0
    BY <1>1
  <2>2. v[1] = Set(v[0], t[1])
    BY <1>3, <2>1
  <2> QED
    BY <1>2, <1>3, <1>4, <2>2
<1>6. ASSUME NEW k \in T PROVE k + 1 \in T
  <2> SUFFICES ASSUME k + 1 <= n PROVE v[k + 2] = w[k + 1]
    OBVIOUS
  <2>1. k + 1 \in 1 .. n /\ k + 2 \in 1 .. (n + 1) /\ k + 2 - 1 = k + 1 /\ k + 1 - 1 = k
    BY <1>1
  <2>2. v[k + 2] = Set(v[k + 1], t[k + 2]) /\ w[k + 1] = Set(w[k], s[k + 1])
    BY <1>3, <1>4, <2>1
  <2>3. k <= n
    BY <1>1, <2>1
  <2>4. v[k + 1] = w[k]
    BY <2>3
  <2>5. k + 1 + 1 = k + 2
    BY <1>1
  <2>6. t[k + 2] = s[k + 1]
    BY <1>2, <2>1, <2>5
  <2> QED
    BY <2>2, <2>4, <2>6
<1>7. n \in T
  <2> HIDE DEF T
  <2>1. T \subseteq Nat
    BY DEF T
  <2> QED
    BY <1>1, <1>5, <1>6, <2>1, Inductive
<1>8. v[n + 1] = w[n]
  BY <1>1, <1>7
<1> QED
  BY <1>3, <1>4, <1>8 DEF t

\* Where an option is mentioned, from argument i on, and the configuration asked
\* for there when c is the one without.
Mentions(args, option, i) == {j \in i .. Len(args) : args[j] = option}
Number(args, i) == Atouint(args[i + 1], UINT32_MAX)
SizeAt(args, i) == <<Numbers[args[i + 1]], Numbers[args[i + 2]]>>
LastMention(args, option, i) == Max(Mentions(args, option, i))
AskedFrom(args, c, i) ==
    [max_files |-> IF Mentions(args, "-max_files", i) = {} THEN c.max_files
                   ELSE Number(args, LastMention(args, "-max_files", i)),
     thumb_res |-> IF Mentions(args, "-thumb_res", i) = {} THEN c.thumb_res
                   ELSE SizeAt(args, LastMention(args, "-thumb_res", i)),
     small_res |-> IF Mentions(args, "-small_res", i) = {} THEN c.small_res
                   ELSE SizeAt(args, LastMention(args, "-small_res", i))]

LEMMA MaxOf ==
    ASSUME NEW n \in Nat, NEW S, S \subseteq 0 .. n, NEW x \in S, \A y \in S : y <= x
    PROVE  Max(S) = x
<1>1. Max(S) \in S /\ x <= Max(S)
  BY MaxIs
<1>2. Max(S) <= x
  BY <1>1
<1>3. Max(S) \in 0 .. n /\ x \in 0 .. n
  BY <1>1
<1> QED
  BY <1>1, <1>2, <1>3

\* k arguments on, an option and its values behind.
LEMMA MentionsFrom ==
    ASSUME NEW args \in Seq(STRING), NEW i \in 2 .. Len(args), NEW k \in {2, 3}, i + k <= Len(args) + 1,
           \A j \in (i + 1) .. (i + k - 1) : args[j] \notin OptionNames,
           NEW option \in OptionNames
    PROVE  /\ Mentions(args, option, i) =
                Mentions(args, option, i + k) \cup (IF args[i] = option THEN {i} ELSE {})
           /\ Mentions(args, option, i + k) # {} =>
                LastMention(args, option, i) = LastMention(args, option, i + k)
           /\ Mentions(args, option, i + k) = {} /\ args[i] = option =>
                LastMention(args, option, i) = i
<1> DEFINE L == Len(args)
           M == Mentions(args, option, i)
           N == Mentions(args, option, i + k)
<1>1. L \in Nat /\ i \in Nat
  OBVIOUS
<1>2. i .. L = {i} \cup ((i + 1) .. (i + k - 1)) \cup ((i + k) .. L)
  BY <1>1
<1>3. M = N \cup (IF args[i] = option THEN {i} ELSE {})
  <2> HIDE DEF L
  <2>1. M = {j \in i .. L : args[j] = option} /\ N = {j \in (i + k) .. L : args[j] = option}
    BY DEF Mentions, L
  <2> HIDE DEF M, N
  <2> QED
    BY <1>2, <2>1
<1>4. M \subseteq 0 .. L /\ N \subseteq 0 .. L /\ \A j \in N : i <= j
  BY <1>1 DEF Mentions
<1> HIDE DEF L, M, N
<1>5. ASSUME N # {} PROVE Max(M) = Max(N)
  <2>1. Max(N) \in N /\ \A y \in N : y <= Max(N)
    BY <1>1, <1>4, <1>5, MaxIs
  <2>2. Max(N) \in M /\ \A y \in M : y <= Max(N)
    BY <1>3, <1>4, <2>1
  <2> QED
    BY <1>1, <1>4, <2>2, MaxOf
<1>6. ASSUME N = {}, args[i] = option PROVE Max(M) = i
  <2>1. i \in M /\ \A y \in M : y <= i
    BY <1>1, <1>3, <1>6
  <2> QED
    BY <1>1, <1>4, <2>1, MaxOf
<1> QED
  BY <1>3, <1>5, <1>6 DEF M, N, LastMention

\* One setting more.
LEMMA AskedNumber ==
    ASSUME NEW args \in Seq(STRING), NEW i \in 2 .. Len(args), i + 1 <= Len(args),
           args[i] = "-max_files", args[i + 1] \notin OptionNames, NEW c \in Configs
    PROVE  AskedFrom(args, Set(c, [key |-> "max_files", value |-> Number(args, i)]), i + 2)
             = AskedFrom(args, c, i)
<1> DEFINE d == Set(c, [key |-> "max_files", value |-> Number(args, i)])
<1>1. d.max_files = Number(args, i) /\ d.thumb_res = c.thumb_res /\ d.small_res = c.small_res
  BY DEF Set, Configs
<1>2. \A j \in (i + 1) .. (i + 2 - 1) : args[j] \notin OptionNames
  OBVIOUS
<1> HIDE DEF d
<1>3. ASSUME NEW option \in OptionNames
      PROVE  /\ Mentions(args, option, i) =
                    Mentions(args, option, i + 2) \cup (IF args[i] = option THEN {i} ELSE {})
             /\ Mentions(args, option, i + 2) # {} =>
                    LastMention(args, option, i) = LastMention(args, option, i + 2)
             /\ Mentions(args, option, i + 2) = {} /\ args[i] = option =>
                    LastMention(args, option, i) = i
  BY <1>2, MentionsFrom
<1> QED
  BY <1>1, <1>3 DEF AskedFrom, d, OptionNames

LEMMA AskedSize ==
    ASSUME NEW args \in Seq(STRING), NEW i \in 2 .. Len(args), i + 2 <= Len(args),
           args[i + 1] \notin OptionNames, args[i + 2] \notin OptionNames, NEW c \in Configs,
           NEW option \in {"-thumb_res", "-small_res"}, args[i] = option,
           NEW key, key = IF option = "-thumb_res" THEN "thumb_res" ELSE "small_res"
    PROVE  AskedFrom(args, Set(c, [key |-> key, value |-> SizeAt(args, i)]), i + 3)
             = AskedFrom(args, c, i)
<1> DEFINE d == Set(c, [key |-> key, value |-> SizeAt(args, i)])
<1>1. /\ d.max_files = c.max_files
      /\ option = "-thumb_res" => d.thumb_res = SizeAt(args, i) /\ d.small_res = c.small_res
      /\ option = "-small_res" => d.small_res = SizeAt(args, i) /\ d.thumb_res = c.thumb_res
  BY DEF Set, Configs
<1>2. \A j \in (i + 1) .. (i + 3 - 1) : args[j] \notin OptionNames
  OBVIOUS
<1> HIDE DEF d
<1>3. ASSUME NEW o \in OptionNames
      PROVE  /\ Mentions(args, o, i) =
                    Mentions(args, o, i + 3) \cup (IF args[i] = o THEN {i} ELSE {})
             /\ Mentions(args, o, i + 3) # {} =>
                    LastMention(args, o, i) = LastMention(args, o, i + 3)
             /\ Mentions(args, o, i + 3) = {} /\ args[i] = o =>
                    LastMention(args, o, i) = i
  BY <1>2, MentionsFrom
<1> QED
  BY <1>1, <1>3 DEF AskedFrom, d, OptionNames

\* A text atouint16() makes more than 0 of is the number it makes of it.
LEMMA PositiveNumber ==
    ASSUME NEW s, Atouint(s, UINT16_MAX) >= 1
    PROVE  s \notin OptionNames /\ Atouint(s, UINT16_MAX) = Numbers[s]
<1>1. s \in DOMAIN Numbers /\ Atouint(s, UINT16_MAX) = Numbers[s]
  BY DEF Atouint
<1> QED
  BY <1>1, NumbersAssumption

\* No option is taken for the value of -max_files.
NoOptionIsAValue(args) ==
    \A i \in 1 .. Len(args) - 1 : args[i] = "-max_files" => args[i + 1] \notin OptionNames

LEMMA LoopAsked ==
    ASSUME NEW args \in Seq(STRING), NoOptionIsAValue(args)
    PROVE  \A i \in 2 .. Len(args) + 3 : \A c \in Configs :
             Loop(args)[i].ret = "ERR_NONE" =>
               Folded(c, Loop(args)[i].settings) = AskedFrom(args, c, i)
<1> DEFINE F == Loop(args)
           L == Len(args)
           Right(i) == \A c \in Configs :
               F[i].ret = "ERR_NONE" => Folded(c, F[i].settings) = AskedFrom(args, c, i)
           Bad == {i \in 2 .. L + 3 : ~Right(i)}
<1>1. L \in Nat
  OBVIOUS
<1> SUFFICES ASSUME Bad # {} PROVE FALSE
  OBVIOUS
<1>2. PICK i \in Bad : \A j \in Bad : j <= i
  <2>1. Bad \subseteq 0 .. L + 3 /\ L + 3 \in Nat
    BY <1>1
  <2> HIDE DEF Bad
  <2> QED
    BY <2>1, Greatest
<1>3. F[i] = Turn(args, F, i) /\ i \in Nat /\ 2 <= i
  BY <1>1, LoopIs
<1>4. i <= L => Right(i + 2) /\ Right(i + 3)
  <2> HIDE DEF Right
  <2> QED
    BY <1>1, <1>2
<1>5. i <= L => F[i + 2] \in Ends /\ F[i + 3] \in Ends
  BY <1>1, LoopTypes
<1>6. ~Right(i)
  OBVIOUS
<1>7. PICK c \in Configs : F[i].ret = "ERR_NONE" /\ Folded(c, F[i].settings) # AskedFrom(args, c, i)
  BY <1>6
<1> HIDE DEF F
<1>8. CASE i > L
  <2>1. F[i].settings = <<>>
    BY <1>3, <1>8 DEF Turn, Stop
  <2>2. \A option : Mentions(args, option, i) = {}
    BY <1>1, <1>3, <1>8 DEF Mentions
  <2>3. AskedFrom(args, c, i) = c
    BY <2>2 DEF AskedFrom, Configs
  <2> QED
    BY <1>7, <2>1, <2>3, FoldNothing
<1>9. CASE i <= L /\ args[i] = "-max_files"
  <2> DEFINE x == [key |-> "max_files", value |-> Number(args, i)]
  <2>1. i + 1 <= L
    BY <1>1, <1>3, <1>7, <1>9 DEF Turn, Stop
  <2>2. F[i] = Then("max_files", Number(args, i), F[i + 2])
    <3>1. ~(i > Len(args)) /\ ~(i + 1 > Len(args))
      BY <1>1, <1>3, <1>9, <2>1
    <3> QED
      BY <1>3, <1>9, <3>1 DEF Turn, Number
  <2>3. x \in Settings
    BY AtouintTypes, WidthsAssumption DEF Settings, Number
  <2>4. F[i].settings = <<x>> \o F[i + 2].settings /\ F[i].ret = F[i + 2].ret
        /\ F[i + 2].settings \in Seq(Settings)
    <3>1. F[i + 2] \in Ends
      BY <1>5, <1>9
    <3>2. \A r \in Ends :
            /\ Then("max_files", Number(args, i), r).settings = <<x>> \o r.settings
            /\ Then("max_files", Number(args, i), r).ret = r.ret
            /\ r.settings \in Seq(Settings)
      BY <2>3, ThenTypes
    <3> QED
      BY <2>2, <3>1, <3>2
  <2>5. Set(c, x) \in Configs
    BY <2>3, SetTypes
  <2>6. args[i + 1] \notin OptionNames
    BY <1>1, <1>3, <1>9, <2>1 DEF NoOptionIsAValue
  <2> HIDE DEF x
  <2>7. Folded(c, F[i].settings) = Folded(Set(c, x), F[i + 2].settings)
    BY <2>3, <2>4, FoldFirst
  <2>8. Folded(Set(c, x), F[i + 2].settings) = AskedFrom(args, Set(c, x), i + 2)
    BY <1>4, <1>7, <1>9, <2>4, <2>5
  <2>9. i \in 2 .. Len(args)
    BY <1>1, <1>3, <1>9
  <2>10. AskedFrom(args, Set(c, x), i + 2) = AskedFrom(args, c, i)
    BY <1>9, <2>1, <2>6, <2>9, AskedNumber DEF x
  <2> QED
    BY <1>7, <2>7, <2>8, <2>10
<1>10. CASE i <= L /\ args[i] \in {"-thumb_res", "-small_res"}
  <2> DEFINE key == IF args[i] = "-thumb_res" THEN "thumb_res" ELSE "small_res"
             max == IF args[i] = "-thumb_res" THEN MAX_THUMB_RES ELSE MAX_SMALL_RES
             w == Atouint(args[i + 1], UINT16_MAX)
             h == Atouint(args[i + 2], UINT16_MAX)
             x == [key |-> key, value |-> SizeAt(args, i)]
  <2>1. /\ i + 2 <= L /\ InBounds(w, h, max)
        /\ F[i] = Then(key, Size(args, i), F[i + 3])
    BY <1>1, <1>3, <1>7, <1>10 DEF Turn, Stop, Size
  <2>2. max \in Nat
    BY DEF MAX_THUMB_RES, MAX_SMALL_RES
  <2>3. w \in 1 .. max /\ h \in 1 .. max
    BY <2>1 DEF InBounds
  <2>4. /\ w = Numbers[args[i + 1]] /\ h = Numbers[args[i + 2]]
        /\ args[i + 1] \notin OptionNames /\ args[i + 2] \notin OptionNames
    <3> HIDE DEF max
    <3>1. w >= 1 /\ h >= 1
      BY <2>2, <2>3
    <3> QED
      BY <3>1, PositiveNumber
  <2>5. SizeAt(args, i) = <<w, h>> /\ Size(args, i) = SizeAt(args, i)
    BY <2>4 DEF SizeAt, Size
  <2>6. x \in Settings
    BY <1>10, <2>3, <2>5 DEF Settings, Sizes
  <2>7. F[i].settings = <<x>> \o F[i + 3].settings /\ F[i].ret = F[i + 3].ret
        /\ F[i + 3].settings \in Seq(Settings)
    <3>1. F[i] = Then(key, SizeAt(args, i), F[i + 3])
      BY <2>1, <2>5
    <3>2. F[i + 3] \in Ends
      BY <1>5, <1>10
    <3> HIDE DEF key
    <3>3. \A r \in Ends :
            /\ Then(key, SizeAt(args, i), r).settings = <<x>> \o r.settings
            /\ Then(key, SizeAt(args, i), r).ret = r.ret
            /\ r.settings \in Seq(Settings)
      BY <2>6, ThenTypes
    <3> QED
      BY <3>1, <3>2, <3>3
  <2>8. Set(c, x) \in Configs
    BY <2>6, SetTypes
  <2> HIDE DEF x
  <2>9. Folded(c, F[i].settings) = Folded(Set(c, x), F[i + 3].settings)
    BY <2>6, <2>7, FoldFirst
  <2>10. Folded(Set(c, x), F[i + 3].settings) = AskedFrom(args, Set(c, x), i + 3)
    BY <1>4, <1>7, <1>10, <2>7, <2>8
  <2>11. i \in 2 .. Len(args)
    BY <1>1, <1>3, <1>10
  <2>12. AskedFrom(args, Set(c, x), i + 3) = AskedFrom(args, c, i)
    BY <1>10, <2>1, <2>4, <2>11, AskedSize DEF x
  <2> QED
    BY <1>7, <2>9, <2>10, <2>12
<1>11. CASE i <= L /\ args[i] \notin OptionNames
  <2>1. F[i].ret = "ERR_INVALID_ARGUMENT"
    BY <1>1, <1>3, <1>11 DEF Turn, Stop, OptionNames
  <2> QED
    BY <1>7, <2>1
<1>12. i > L \/ i <= L
  BY <1>1, <1>3
<1> QED
  BY <1>8, <1>9, <1>10, <1>11, <1>12 DEF OptionNames

\* The last mention of an option among the arguments of the command.
LEMMA LastIs ==
    ASSUME Args \in Seq(STRING), NEW option
    PROVE  LET M == Mentions(Args, option, 2)
           IN  /\ M = {} => LastOf(option) = 0
               /\ M # {} => LastOf(option) = LastMention(Args, option, 2) /\ LastOf(option) # 0
<1> DEFINE L == Len(Args)
           M == Mentions(Args, option, 2)
           N == {i \in DOMAIN Args : i > 1 /\ Args[i] = option} \cup {0}
<1>1. L \in Nat /\ DOMAIN Args = 1 .. L
  OBVIOUS
<1>2. N = M \cup {0}
  BY <1>1 DEF Mentions
<1>3. M \subseteq 0 .. L /\ 0 \notin M
  BY <1>1 DEF Mentions
<1>4. LastOf(option) = Max(N)
  BY DEF LastOf
<1> HIDE DEF L, M, N
<1>5. ASSUME M = {} PROVE Max(N) = 0
  <2>1. 0 \in N /\ N \subseteq 0 .. 0 /\ \A y \in N : y <= 0
    BY <1>2, <1>5
  <2> QED
    BY <2>1, MaxOf
<1>6. ASSUME M # {} PROVE Max(N) = Max(M) /\ Max(M) # 0
  <2>1. Max(M) \in M /\ \A y \in M : y <= Max(M)
    BY <1>1, <1>3, <1>6, MaxIs
  <2>2. Max(M) \in N /\ N \subseteq 0 .. L
    BY <1>1, <1>2, <1>3, <2>1
  <2>3. ASSUME NEW y \in N PROVE y <= Max(M)
    <3>1. CASE y \in M
      BY <2>1, <3>1
    <3>2. CASE y = 0
      <4>1. Max(M) \in 0 .. L
        BY <1>3, <2>1
      <4> QED
        BY <1>1, <3>2, <4>1
    <3> QED
      BY <1>2, <3>1, <3>2
  <2> QED
    BY <1>1, <1>3, <2>1, <2>2, <2>3, MaxOf
<1> QED
  BY <1>4, <1>5, <1>6 DEF M, LastMention

\* The number of slots create makes: what is typed, or none when it is forbidden.
LEMMA MaxFilesIs ==
    ASSUME NEW text
    PROVE  Atouint(text, UINT32_MAX) = IF MaxFilesAllowed(text) THEN Numbers[text] ELSE 0
<1>1. text \in DOMAIN Numbers => Numbers[text] \in Nat
  BY NumbersAssumption
<1> QED
  BY <1>1, WidthsAssumption DEF Atouint, MaxFilesAllowed

LEMMA ConfigIsAsked ==
    ASSUME Args \in Seq(STRING), NoOptionIsAValue(Args), Options(Args).ret = "ERR_NONE"
    PROVE  Config(Args) = AskedConfig
<1>1. Config(Args) = Folded(DefaultConfig, Loop(Args)[2].settings) /\ Loop(Args)[2].ret = "ERR_NONE"
  BY OptionsIs DEF Config, Folded
<1>2. 2 \in 2 .. Len(Args) + 3
  OBVIOUS
<1>3. Config(Args) = AskedFrom(Args, DefaultConfig, 2)
  BY <1>1, <1>2, LoopAsked, DefaultTypes
<1>4. ASSUME NEW option
      PROVE  /\ Mentions(Args, option, 2) = {} => LastOf(option) = 0
             /\ Mentions(Args, option, 2) # {} =>
                    LastOf(option) = LastMention(Args, option, 2) /\ LastOf(option) # 0
  BY LastIs
<1>5. AskedConfig =
        [max_files |-> IF LastOf("-max_files") = 0 THEN DefaultConfig.max_files
                       ELSE Number(Args, LastOf("-max_files")),
         thumb_res |-> IF LastOf("-thumb_res") = 0 THEN DefaultConfig.thumb_res
                       ELSE SizeAt(Args, LastOf("-thumb_res")),
         small_res |-> IF LastOf("-small_res") = 0 THEN DefaultConfig.small_res
                       ELSE SizeAt(Args, LastOf("-small_res"))]
  <2>1. \A i : Number(Args, i) =
            IF MaxFilesAllowed(Args[i + 1]) THEN Numbers[Args[i + 1]] ELSE 0
    BY MaxFilesIs DEF Number
  <2> QED
    BY <2>1 DEF AskedConfig, AskedFor, SizeAt
<1> QED
  BY <1>3, <1>4, <1>5 DEF AskedFrom

\* A command that exits with 0 has done what the command line asks for, unless a
\* write was lost unseen; but a create whose last -max_files is zero, too large or
\* no number, which the handout forbids, exits with 0 and makes a store without
\* slots.  Of create that is proved of the command lines on which no option is in
\* the place of the value of -max_files: there do_create_cmd() takes it for a
\* number that is none, and AskedConfig does not tell it from the option.
THEOREM ExitTellsTruthCorrect ==
    ASSUME \A args \in CommandLines : args # <<>> /\ args[1] = "create" => NoOptionIsAValue(Tail(args))
    PROVE  Spec => []ExitTellsTruth
<1>1. ASSUME CmdInv PROVE ExitTellsTruth
  <2> SUFFICES ASSUME Exited, ret = "ERR_NONE", ~lost, Done PROVE ExitTellsTruth
    BY <1>1 DEF ExitTellsTruth, CmdInv
  <2>1. CASE Command # "create"
    BY <2>1 DEF ExitTellsTruth, Done
  <2>2. CASE Command = "create"
    <3>1. argv \in CommandLines /\ ArgsError = "ERR_NONE" /\ files[Filename] = StoreFile({}, Config(Args))
      BY <2>2 DEF Done
    <3>2. argv # <<>> /\ argv \in Seq(STRING)
      BY <3>1, CommandLinesAssumption DEF ArgsError
    <3>3. Args \in Seq(STRING) /\ NoOptionIsAValue(Args)
      BY <2>2, <3>1, <3>2 DEF Args, Command
    <3>4. Options(Args).ret = "ERR_NONE"
      <4>1. Len(Args) \in Nat
        BY <3>3
      <4> QED
        BY <2>2, <3>1, <3>2, <4>1 DEF ArgsError, Commands
    <3> QED
      BY <2>2, <3>1, <3>3, <3>4, ConfigIsAsked DEF ExitTellsTruth
  <2> QED
    BY <2>1, <2>2
<1> QED
  BY <1>1, Inv, PTL
=============================================================================
