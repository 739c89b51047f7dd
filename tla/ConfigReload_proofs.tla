------------------------ MODULE ConfigReload_proofs ------------------------
(***************************************************************************)
(* Theorems about ConfigRules and ConfigReload, for every set of texts,    *)
(* environments, patterns and requests.                                    *)
(***************************************************************************)
EXTENDS ConfigReload, SequenceTheorems, WellFoundedInduction, TLAPS

-----------------------------------------------------------------------------
(* Numbers.                                                                *)

\* A set of natural numbers that is not empty has a smallest element.
LEMMA Smallest ==
    ASSUME NEW S, S \subseteq Nat, S # {}
    PROVE  \E m \in S : \A k \in S : m <= k
<1>1. PICK m \in S : \A k \in S : ~(<<k, m>> \in OpToRel(<, Nat))
  <2> HIDE DEF OpToRel
  <2>1. QED
    BY NatLessThanWellFounded, WFMin, Zenon
<1>2. ASSUME NEW k \in S
      PROVE  m <= k
  <2>1. k \in Nat /\ m \in Nat /\ <<k, m>> \in Nat \X Nat
    OBVIOUS
  <2>2. ~(k < m)
    BY <1>1, <2>1 DEF OpToRel
  <2>3. QED
    BY <2>1, <2>2
<1>3. QED
  BY <1>2

\* A set of positions of a sequence that is not empty has a last one.
LEMMA Last ==
    ASSUME NEW n \in Nat, NEW S, S \subseteq 1 .. n, S # {}
    PROVE  \E m \in S : \A k \in S : k <= m
<1> DEFINE D == {n - i : i \in S}
<1>1. D \subseteq Nat /\ D # {}
  OBVIOUS
<1>2. PICK d \in D : \A k \in D : d <= k
  BY <1>1, Smallest
<1>3. PICK m \in S : d = n - m
  OBVIOUS
<1>4. ASSUME NEW k \in S
      PROVE  k <= m
  <2>1. n - k \in D
    OBVIOUS
  <2>2. n - m <= n - k
    BY <1>2, <1>3, <2>1
  <2>3. k \in Nat /\ m \in Nat
    OBVIOUS
  <2>4. QED
    BY <2>2, <2>3
<1>5. QED
  BY <1>4

-----------------------------------------------------------------------------
(* What LoadAndValidate returns.                                           *)

\* A text in which the alias that is not checked brings in no bad pattern.
AliasesCompile(lines) ==
    \A i \in 1 .. Len(lines) :
        lines[i][1] = "USER_WHITELIST" => Pieces(lines[i][2]) \subseteq Compiles

\* The two places where a list is not checked, the alias and the environment,
\* bring in no bad pattern.
UncheckedListsCompile ==
    /\ \A lines \in Texts \cup {Start} : AliasesCompile(lines)
    /\ \A e \in Environs, key \in RegexKeys :
          key \in DOMAIN e => Pieces(e[key]) \subseteq Compiles

ListsIn(cfg, S) ==
    /\ cfg["USER_INCLUDE_LIST"] \subseteq S
    /\ cfg["USER_EXCLUDE_LIST"] \subseteq S

Sound(cfg) ==
    /\ DOMAIN cfg = DOMAIN DefaultConfig
    /\ SoundNumbers(cfg)
    /\ ListsIn(cfg, Patterns)
    /\ UncheckedListsCompile => ListsIn(cfg, Compiles)

\* The pieces of a value are patterns.
LEMMA PiecesArePatterns ==
    ASSUME NEW raw \in RawValue
    PROVE  Pieces(raw) \subseteq Patterns
BY DEF RawValue, Pieces

\* The defaults are sound.
LEMMA DefaultIsSound == Sound(DefaultConfig)
<1>1. SoundNumbers(DefaultConfig)
  BY DEF SoundNumbers, DefaultConfig
<1>2. /\ DefaultConfig["USER_INCLUDE_LIST"] = {}
      /\ DefaultConfig["USER_EXCLUDE_LIST"] = {}
  BY DEF DefaultConfig
<1>3. QED
  BY <1>1, <1>2 DEF Sound, ListsIn

\* validateConfig accepts only sound numbers.
LEMMA ValidatedIsSound ==
    ASSUME NEW cfg, validateConfig(cfg)
    PROVE  SoundNumbers(cfg)
<1>1. /\ cfg.CPU_THRESHOLD > cfg.CPU_RELEASE_THRESHOLD
      /\ cfg.PSI_BOOST_WEIGHT \in 0 .. MaxWeight
      /\ cfg.PSI_EVENT_DRIVEN => cfg.PSI_BOOST_WEIGHT # 0
  BY Zenon DEF validateConfig
<1>2. \A w \in 0 .. MaxWeight : w # 0 => w \in 1 .. MaxWeight
  BY DEF MaxWeight
<1>3. QED
  BY <1>1, <1>2, Zenon DEF SoundNumbers

\* The lines of a file that assign a field, and the one that counts.
SettersOf(lines, field) ==
    {i \in 1 .. Len(lines) : /\ field \in Fields(lines[i][1])
                             /\ ~Ignores(lines[i][1], lines[i][2])}
LastIn(I) == CHOOSE i \in I : \A j \in I : j <= i

\* What a field holds after loadFromFile.
LEMMA FieldLoaded ==
    ASSUME NEW lines, NEW field \in DOMAIN DefaultConfig
    PROVE  loadFromFile(lines, DefaultConfig).cfg[field] =
             IF SettersOf(lines, field) = {} THEN DefaultConfig[field]
             ELSE Value(field, lines[LastIn(SettersOf(lines, field))][2])
<1> DEFINE F(f) == IF SettersOf(lines, f) = {} THEN DefaultConfig[f]
                   ELSE Value(f, lines[LastIn(SettersOf(lines, f))][2])
<1>1. loadFromFile(lines, DefaultConfig).cfg = [f \in DOMAIN DefaultConfig |-> F(f)]
  BY DEF loadFromFile, SettersOf, LastIn
<1> HIDE DEF F
<1>2. loadFromFile(lines, DefaultConfig).cfg[field] = F(field)
  BY <1>1
<1>3. QED
  BY <1>2 DEF F

\* The line that counts is one of those that assign the field, and none of them
\* comes after it.
LEMMA LastSetter ==
    ASSUME NEW lines \in Seq(Line), NEW field, SettersOf(lines, field) # {}
    PROVE  /\ LastIn(SettersOf(lines, field)) \in SettersOf(lines, field)
           /\ \A j \in SettersOf(lines, field) : j <= LastIn(SettersOf(lines, field))
<1> DEFINE S == SettersOf(lines, field)
<1>1. S \subseteq 1 .. Len(lines) /\ Len(lines) \in Nat /\ S # {}
  BY DEF SettersOf
<1> HIDE DEF S
<1>2. \E m \in S : \A k \in S : k <= m
  BY <1>1, Last
<1>3. LastIn(S) \in S /\ \A j \in S : j <= LastIn(S)
  BY <1>2 DEF LastIn
<1>4. QED
  BY <1>3 DEF S

\* The fields of a list line, of one with a blank before its "=" and of the alias.
LEMMA FieldsOfLists ==
    ASSUME NEW key, NEW field \in Fields(key)
    PROVE  /\ key \in RegexKeys => field = key
           /\ field \in RegexKeys =>
                key = field \/ key \in BlankKeys \/ key = "USER_WHITELIST"
BY DEF Fields, RegexKeys, BlankKeys

\* A list field holds its default or the pieces of a line that assigns it: of one
\* that has its own key, with or without a blank, or of the alias.
LEMMA FileListComesFromALine ==
    ASSUME NEW lines \in Seq(Line), NEW key \in RegexKeys
    PROVE  LET new == loadFromFile(lines, DefaultConfig).cfg[key]
           IN  \/ new = {}
               \/ \E i \in 1 .. Len(lines) :
                     /\ new = Pieces(lines[i][2])
                     /\ lines[i][1] \in {key, "USER_WHITELIST"} \cup BlankKeys
<1> DEFINE S == SettersOf(lines, key)
           i == LastIn(S)
           new == loadFromFile(lines, DefaultConfig).cfg[key]
<1>1. key \in DOMAIN DefaultConfig /\ DefaultConfig[key] = {}
  <2>1. key = "USER_INCLUDE_LIST" \/ key = "USER_EXCLUDE_LIST"
    BY DEF RegexKeys
  <2>2. CASE key = "USER_INCLUDE_LIST"
    BY <2>2 DEF DefaultConfig
  <2>3. CASE key = "USER_EXCLUDE_LIST"
    BY <2>3 DEF DefaultConfig
  <2>4. QED
    BY <2>1, <2>2, <2>3
<1>2. new = IF S = {} THEN {} ELSE Value(key, lines[i][2])
  BY <1>1, FieldLoaded
<1>3. CASE S = {}
  BY <1>2, <1>3
<1>4. CASE S # {}
  <2>1. i \in S
    BY <1>4, LastSetter
  <2>2. new = Value(key, lines[i][2])
    BY <1>2, <1>4
  <2> HIDE DEF i
  <2>3. i \in 1 .. Len(lines) /\ key \in Fields(lines[i][1])
    BY <2>1 DEF SettersOf
  <2>4. Value(key, lines[i][2]) = Pieces(lines[i][2])
    BY DEF Value, RegexKeys, NumberKeys, IntKeys, PositiveKeys, PortKeys, BoolKeys
  <2>5. lines[i][1] \in {key, "USER_WHITELIST"} \cup BlankKeys
    BY <2>3, FieldsOfLists
  <2>6. QED
    BY <2>2, <2>3, <2>4, <2>5
<1>5. QED
  BY <1>3, <1>4

\* What LoadAndValidate accepts is sound, whatever the file says and whatever the
\* environment adds.
LEMMA LoadedIsSound ==
    ASSUME NEW lines \in Seq(Line), NEW e \in Environs,
           UncheckedListsCompile => AliasesCompile(lines),
           LoadAndValidate(lines, e).ok
    PROVE  Sound(LoadAndValidate(lines, e).cfg)
<1> DEFINE fromFile == loadFromFile(lines, DefaultConfig)
           cfg == LoadAndValidate(lines, e).cfg
<1>1. fromFile.ok /\ validateConfig(cfg) /\ cfg = loadFromEnvironment(fromFile.cfg, e)
  BY DEF LoadAndValidate
<1>2. DOMAIN fromFile.cfg = DOMAIN DefaultConfig
  BY DEF loadFromFile
<1>3. \A i \in 1 .. Len(lines) : ~Refuses(lines[i][1], lines[i][2])
  BY <1>1 DEF loadFromFile
<1>4. DOMAIN cfg = DOMAIN DefaultConfig
  <2> HIDE DEF fromFile, cfg
  <2>1. QED
    BY <1>1, <1>2 DEF loadFromEnvironment
<1>5. SoundNumbers(cfg)
  <2> HIDE DEF fromFile, cfg
  <2>1. QED
    BY <1>1, ValidatedIsSound
<1>6. ASSUME NEW key \in RegexKeys
      PROVE  /\ cfg[key] \subseteq Patterns
             /\ UncheckedListsCompile => cfg[key] \subseteq Compiles
  <2>1. key \in DOMAIN DefaultConfig /\ key \notin NumberKeys /\ key \notin BoolKeys
    BY DEF RegexKeys, DefaultConfig, NumberKeys, IntKeys, PositiveKeys, PortKeys,
           BoolKeys
  <2>2. cfg[key] = IF key \notin DOMAIN e THEN fromFile.cfg[key] ELSE Pieces(e[key])
    <3> HIDE DEF fromFile, cfg
    <3>1. QED
      BY <1>1, <1>2, <2>1 DEF loadFromEnvironment, Value
  <2>3. CASE key \in DOMAIN e
    <3>1. e[key] \in RawValue
      BY <2>3, ReloadAssumption
    <3>2. QED
      BY <2>2, <2>3, <3>1, PiecesArePatterns DEF UncheckedListsCompile
  <2>4. CASE key \notin DOMAIN e
    <3>1. CASE fromFile.cfg[key] = {}
      BY <2>2, <2>4, <3>1
    <3>2. CASE fromFile.cfg[key] # {}
      <4>1. PICK i \in 1 .. Len(lines) :
                     /\ fromFile.cfg[key] = Pieces(lines[i][2])
                     /\ lines[i][1] \in {key, "USER_WHITELIST"} \cup BlankKeys
        BY <3>2, FileListComesFromALine
      <4>2. lines[i] \in Line
        OBVIOUS
      <4>3. lines[i][2] \in RawValue
        BY <4>2 DEF Line
      <4>4. lines[i][1] \in {key} \cup BlankKeys => Pieces(lines[i][2]) \subseteq Compiles
        BY <1>3 DEF Refuses, parseRegexListRefuses
      <4>5. UncheckedListsCompile => Pieces(lines[i][2]) \subseteq Compiles
        BY <4>1, <4>4 DEF AliasesCompile
      <4>6. QED
        BY <2>2, <2>4, <4>1, <4>3, <4>5, PiecesArePatterns
    <3>3. QED
      BY <3>1, <3>2
  <2>5. QED
    BY <2>3, <2>4
<1>7. Sound(cfg)
  <2> HIDE DEF cfg
  <2>1. ListsIn(cfg, Patterns)
    BY <1>6 DEF ListsIn, RegexKeys
  <2>2. UncheckedListsCompile => ListsIn(cfg, Compiles)
    BY <1>6 DEF ListsIn, RegexKeys
  <2>3. QED
    BY <1>4, <1>5, <2>1, <2>2 DEF Sound
<1>8. QED
  BY <1>7

-----------------------------------------------------------------------------
(* What SaveToFile writes.                                                 *)

\* A list line, made from a list of patterns, is a line.
LEMMA ListLineIsALine ==
    ASSUME NEW cfg, NEW key \in RegexKeys, cfg[key] \subseteq Patterns
    PROVE  ListLine(cfg, key) \in Line /\ ListLine(cfg, key)[1] = key
<1>1. ReadAs[cfg[key]] \in SUBSET Patterns
  BY PatternsAssumption
<1>2. List(ReadAs[cfg[key]]) \in RawValue
  BY <1>1 DEF List, RawValue
<1>3. key \in LineKeys
  BY DEF LineKeys
<1>4. QED
  BY <1>2, <1>3 DEF ListLine, Line

\* The positions of three sequences in their concatenation.
LEMMA Concatenated ==
    ASSUME NEW S, NEW a \in Seq(S), NEW b \in Seq(S), NEW c \in Seq(S)
    PROVE  /\ a \o b \o c \in Seq(S)
           /\ Len(a \o b \o c) = Len(a) + Len(b) + Len(c)
           /\ \A i \in 1 .. Len(a) : (a \o b \o c)[i] = a[i]
           /\ \A i \in 1 .. Len(b) : (a \o b \o c)[Len(a) + i] = b[i]
           /\ \A i \in 1 .. Len(c) : (a \o b \o c)[Len(a) + Len(b) + i] = c[i]
<1>1. /\ a \o b \in Seq(S) /\ Len(a \o b) = Len(a) + Len(b)
      /\ \A i \in 1 .. Len(a) : (a \o b)[i] = a[i]
      /\ \A i \in 1 .. Len(b) : (a \o b)[Len(a) + i] = b[i]
  BY ConcatProperties
<1> DEFINE d == a \o b
<1> HIDE DEF d
<1>2. /\ d \o c \in Seq(S) /\ Len(d \o c) = Len(d) + Len(c)
      /\ \A i \in 1 .. Len(d) : (d \o c)[i] = d[i]
      /\ \A i \in 1 .. Len(c) : (d \o c)[Len(d) + i] = c[i]
  BY <1>1, ConcatProperties DEF d
<1>3. QED
  BY <1>1, <1>2 DEF d

\* The lines of a file that has been saved: a list line is written from memory,
\* every other line is one of the file before, at the same place, and both lists
\* have a line.
LEMMA SavedLines ==
    ASSUME NEW lines \in Seq(Line), NEW cfg,
           \A key \in RegexKeys : cfg[key] \subseteq Patterns
    PROVE  LET new == updateConfigLines(lines, cfg)
           IN  /\ new \in Seq(Line) /\ Len(lines) <= Len(new)
               /\ \A i \in 1 .. Len(new) :
                     IF new[i][1] \in RegexKeys THEN new[i] = ListLine(cfg, new[i][1])
                     ELSE i \in 1 .. Len(lines) /\ new[i] = lines[i]
               /\ \A i \in 1 .. Len(lines) : new[i][1] = lines[i][1]
               /\ \A key \in RegexKeys : \E i \in 1 .. Len(new) : new[i][1] = key
<1> DEFINE n == Len(lines)
           Updated == [i \in 1..Len(lines) |->
                          IF lines[i][1] \in RegexKeys
                          THEN ListLine(cfg, lines[i][1]) ELSE lines[i]]
           present == {lines[i][1] : i \in 1..Len(lines)}
           Missing(key) == IF key \in present THEN <<>> ELSE <<ListLine(cfg, key)>>
           A == Missing("USER_INCLUDE_LIST")
           B == Missing("USER_EXCLUDE_LIST")
           new == Updated \o A \o B
<1>1. updateConfigLines(lines, cfg) = new
  BY DEF updateConfigLines
<1>2. ASSUME NEW i \in 1 .. n
      PROVE  /\ Updated[i] \in Line /\ Updated[i][1] = lines[i][1]
             /\ IF Updated[i][1] \in RegexKeys THEN Updated[i] = ListLine(cfg, Updated[i][1])
                ELSE Updated[i] = lines[i]
  <2>1. CASE lines[i][1] \in RegexKeys
    BY <2>1, ListLineIsALine
  <2>2. CASE lines[i][1] \notin RegexKeys
    BY <2>2
  <2>3. QED
    BY <2>1, <2>2
<1>3. Updated \in Seq(Line) /\ Len(Updated) = n /\ n \in Nat
  BY <1>2
<1>4. ASSUME NEW key \in RegexKeys
      PROVE  /\ Missing(key) \in Seq(Line)
             /\ \A i \in 1 .. Len(Missing(key)) :
                   Missing(key)[i][1] = key /\ Missing(key)[i] = ListLine(cfg, key)
             /\ key \in present \/ Len(Missing(key)) = 1
  BY ListLineIsALine
<1>5. /\ A \in Seq(Line) /\ B \in Seq(Line)
      /\ \A i \in 1 .. Len(A) : /\ A[i][1] = "USER_INCLUDE_LIST"
                               /\ A[i] = ListLine(cfg, "USER_INCLUDE_LIST")
      /\ \A i \in 1 .. Len(B) : /\ B[i][1] = "USER_EXCLUDE_LIST"
                               /\ B[i] = ListLine(cfg, "USER_EXCLUDE_LIST")
      /\ "USER_INCLUDE_LIST" \in present \/ Len(A) = 1
      /\ "USER_EXCLUDE_LIST" \in present \/ Len(B) = 1
      /\ Len(A) \in Nat /\ Len(B) \in Nat
  <2> HIDE DEF Missing, present
  <2>1. "USER_INCLUDE_LIST" \in RegexKeys /\ "USER_EXCLUDE_LIST" \in RegexKeys
    BY DEF RegexKeys
  <2>2. QED
    BY <1>4, <2>1
<1> HIDE DEF Updated, A, B
<1>6. /\ new \in Seq(Line) /\ Len(new) = n + Len(A) + Len(B)
      /\ \A i \in 1 .. n : new[i] = Updated[i]
      /\ \A i \in 1 .. Len(A) : new[n + i] = A[i]
      /\ \A i \in 1 .. Len(B) : new[n + Len(A) + i] = B[i]
  <2>1. Updated \in Seq(Line) /\ A \in Seq(Line) /\ B \in Seq(Line)
    BY <1>3, <1>5
  <2>2. /\ new \in Seq(Line) /\ Len(new) = Len(Updated) + Len(A) + Len(B)
        /\ \A i \in 1 .. Len(Updated) : new[i] = Updated[i]
        /\ \A i \in 1 .. Len(A) : new[Len(Updated) + i] = A[i]
        /\ \A i \in 1 .. Len(B) : new[Len(Updated) + Len(A) + i] = B[i]
    <3> HIDE DEF Missing, present, n
    <3>1. QED
      BY <2>1, Concatenated, SMTT(20)
  <2>3. Len(Updated) = n
    BY <1>3
  <2>4. QED
    BY <2>2, <2>3, Zenon
<1>7. ASSUME NEW i \in 1 .. Len(new)
      PROVE  \/ i \in 1 .. n /\ new[i] = Updated[i]
             \/ \E j \in 1 .. Len(A) : new[i] = A[j]
             \/ \E j \in 1 .. Len(B) : new[i] = B[j]
  <2>1. CASE i <= n
    BY <1>3, <1>6, <2>1
  <2>2. CASE i > n /\ i <= n + Len(A)
    <3>1. i - n \in 1 .. Len(A) /\ n + (i - n) = i
      BY <1>3, <1>5, <2>2
    <3>2. QED
      BY <1>6, <3>1
  <2>3. CASE i > n + Len(A)
    <3>1. i - (n + Len(A)) \in 1 .. Len(B) /\ n + Len(A) + (i - (n + Len(A))) = i
      BY <1>3, <1>5, <1>6, <2>3
    <3>2. QED
      BY <1>6, <3>1
  <2>4. QED
    BY <1>3, <1>5, <2>1, <2>2, <2>3
<1>8. "USER_INCLUDE_LIST" \in RegexKeys /\ "USER_EXCLUDE_LIST" \in RegexKeys
  BY DEF RegexKeys
<1> HIDE DEF new
<1>9. ASSUME NEW i \in 1 .. Len(new)
       PROVE  IF new[i][1] \in RegexKeys THEN new[i] = ListLine(cfg, new[i][1])
              ELSE i \in 1 .. n /\ new[i] = lines[i]
  <2>1. CASE i \in 1 .. n /\ new[i] = Updated[i]
    BY <1>2, <2>1
  <2>2. CASE \E j \in 1 .. Len(A) : new[i] = A[j]
    BY <1>5, <1>8, <2>2
  <2>3. CASE \E j \in 1 .. Len(B) : new[i] = B[j]
    BY <1>5, <1>8, <2>3
  <2>4. QED
    BY <1>7, <2>1, <2>2, <2>3
<1>10. \A i \in 1 .. n : new[i][1] = lines[i][1]
  BY <1>2, <1>6
<1>11. n <= Len(new)
  BY <1>3, <1>5, <1>6
<1>12. ASSUME NEW key \in RegexKeys
       PROVE  \E i \in 1 .. Len(new) : new[i][1] = key
  <2>1. CASE key \in present
    <3>1. PICK i \in 1 .. n : lines[i][1] = key
      BY <2>1
    <3>2. i \in 1 .. Len(new)
      BY <1>3, <1>5, <1>6
    <3>3. QED
      BY <1>10, <3>1, <3>2
  <2>2. CASE key \notin present /\ key = "USER_INCLUDE_LIST"
    <3>1. Len(A) = 1
      BY <1>5, <2>2
    <3>2. n + 1 \in 1 .. Len(new) /\ new[n + 1] = A[1] /\ A[1][1] = key
      BY <1>3, <1>5, <1>6, <2>2, <3>1
    <3>3. QED
      BY <3>2
  <2>3. CASE key \notin present /\ key = "USER_EXCLUDE_LIST"
    <3>1. Len(B) = 1
      BY <1>5, <2>3
    <3>2. /\ n + Len(A) + 1 \in 1 .. Len(new)
          /\ new[n + Len(A) + 1] = B[1] /\ B[1][1] = key
      BY <1>3, <1>5, <1>6, <2>3, <3>1
    <3>3. QED
      BY <3>2
  <2>4. QED
    BY <2>1, <2>2, <2>3 DEF RegexKeys
<1>13. QED
  BY <1>1, <1>6, <1>9, <1>10, <1>11, <1>12

\* Saving keeps a file a file, and adds no line with the alias.
LEMMA SavedIsAFile ==
    ASSUME NEW lines \in Seq(Line), NEW cfg,
           \A key \in RegexKeys : cfg[key] \subseteq Patterns
    PROVE  /\ updateConfigLines(lines, cfg) \in Seq(Line)
           /\ AliasesCompile(lines) => AliasesCompile(updateConfigLines(lines, cfg))
<1> DEFINE new == updateConfigLines(lines, cfg)
<1>1. /\ new \in Seq(Line)
      /\ \A i \in 1 .. Len(new) : new[i][1] \notin RegexKeys =>
             i \in 1 .. Len(lines) /\ new[i] = lines[i]
  BY SavedLines
<1>2. "USER_WHITELIST" \notin RegexKeys
  BY DEF RegexKeys
<1> HIDE DEF new
<1>3. AliasesCompile(lines) => AliasesCompile(new)
  BY <1>1, <1>2 DEF AliasesCompile
<1>4. QED
  BY <1>1, <1>3 DEF new

-----------------------------------------------------------------------------
(* What a saved file is read as.                                           *)

\* Saving keeps the lines that it rewrites behind those that it does not.
LEMMA SavedRewrittenLast ==
    ASSUME NEW lines \in Seq(Line), NEW cfg, RewrittenLast(lines),
           \A key \in RegexKeys : cfg[key] \subseteq Patterns
    PROVE  RewrittenLast(updateConfigLines(lines, cfg))
<1> DEFINE new == updateConfigLines(lines, cfg)
           n == Len(lines)
<1>1. /\ n \in Nat /\ Len(new) \in Nat /\ n <= Len(new)
      /\ \A i \in 1 .. Len(new) : new[i][1] \notin RegexKeys =>
             i \in 1 .. n /\ new[i] = lines[i]
      /\ \A i \in 1 .. n : new[i][1] = lines[i][1]
  BY SavedLines
<1> HIDE DEF new
<1> SUFFICES ASSUME NEW i \in 1 .. Len(new), NEW j \in 1 .. Len(new),
                    new[i][1] \in RegexKeys, new[j][1] \notin RegexKeys,
                    new[i][1] \in Fields(new[j][1])
             PROVE  j < i
  BY DEF RewrittenLast, new
<1>2. j \in 1 .. n /\ new[j] = lines[j]
  BY <1>1
<1>3. CASE i \in 1 .. n
  BY <1>1, <1>2, <1>3 DEF RewrittenLast
<1>4. CASE i \notin 1 .. n
  BY <1>1, <1>2, <1>4
<1>5. QED
  BY <1>3, <1>4

\* A line with a list that is read as it was written.
LEMMA ListLineIsRead ==
    ASSUME NEW cfg, NEW key \in RegexKeys, ReadAs[cfg[key]] = cfg[key]
    PROVE  Pieces(ListLine(cfg, key)[2]) = cfg[key]
BY DEF ListLine, List, Pieces

\* A list line assigns its field.
LEMMA ListLineSets ==
    ASSUME NEW key \in RegexKeys, NEW raw
    PROVE  key \in Fields(key) /\ ~Ignores(key, raw)
BY DEF Fields, RegexKeys, Ignores, NumberKeys, IntKeys, PositiveKeys, PortKeys

\* A field that is not a list is read from the saved file as from the file before.
LEMMA OtherFieldKept ==
    ASSUME NEW lines \in Seq(Line), NEW cfg,
           \A key \in RegexKeys : cfg[key] \subseteq Patterns,
           NEW field \in DOMAIN DefaultConfig \ RegexKeys
    PROVE  loadFromFile(updateConfigLines(lines, cfg), DefaultConfig).cfg[field]
             = loadFromFile(lines, DefaultConfig).cfg[field]
<1> DEFINE new == updateConfigLines(lines, cfg)
           n == Len(lines)
           S == SettersOf(lines, field)
           T == SettersOf(new, field)
<1>1. /\ n \in Nat /\ Len(new) \in Nat /\ n <= Len(new) /\ new \in Seq(Line)
      /\ \A i \in 1 .. Len(new) : new[i][1] \notin RegexKeys =>
             i \in 1 .. n /\ new[i] = lines[i]
      /\ \A i \in 1 .. n : new[i][1] = lines[i][1]
  BY SavedLines
<1> HIDE DEF new
<1>2. T = S
  <2>1. ASSUME NEW i \in T
        PROVE  i \in S
    <3>1. i \in 1 .. Len(new) /\ field \in Fields(new[i][1])
      BY DEF SettersOf
    <3>2. new[i][1] \notin RegexKeys
      BY <3>1, FieldsOfLists
    <3>3. i \in 1 .. n /\ new[i] = lines[i]
      BY <1>1, <3>1, <3>2
    <3>4. QED
      BY <3>3 DEF SettersOf
  <2>2. ASSUME NEW i \in S
        PROVE  i \in T
    <3>1. i \in 1 .. n /\ field \in Fields(lines[i][1])
      BY DEF SettersOf
    <3>2. lines[i][1] \notin RegexKeys
      BY <3>1, FieldsOfLists
    <3>3. i \in 1 .. Len(new)
      BY <1>1, <3>1
    <3>4. new[i] = lines[i]
      BY <1>1, <3>1, <3>2, <3>3
    <3>5. QED
      BY <3>3, <3>4 DEF SettersOf
  <2>3. QED
    BY <2>1, <2>2
<1>3. CASE S = {}
  BY <1>2, <1>3, FieldLoaded DEF new
<1>4. CASE S # {}
  <2> DEFINE m == LastIn(S)
  <2>1. m \in T
    BY <1>2, <1>4, LastSetter
  <2>2. m \in 1 .. Len(new) /\ field \in Fields(new[m][1])
    BY <2>1 DEF SettersOf
  <2>3. new[m] = lines[m]
    BY <1>1, <2>2, FieldsOfLists
  <2>4. /\ loadFromFile(new, DefaultConfig).cfg[field] = Value(field, new[m][2])
        /\ loadFromFile(lines, DefaultConfig).cfg[field] = Value(field, lines[m][2])
    BY <1>2, <1>4, FieldLoaded
  <2>5. QED
    BY <2>3, <2>4 DEF new
<1>5. QED
  BY <1>3, <1>4

\* A list is read from the saved file as it is in memory: the line that counts is
\* one that was rewritten, since the others come before.
LEMMA ListFieldSaved ==
    ASSUME NEW lines \in Seq(Line), NEW cfg, RewrittenLast(lines),
           \A key \in RegexKeys : cfg[key] \subseteq Patterns,
           NEW field \in RegexKeys, ReadAs[cfg[field]] = cfg[field]
    PROVE  loadFromFile(updateConfigLines(lines, cfg), DefaultConfig).cfg[field] = cfg[field]
<1> DEFINE new == updateConfigLines(lines, cfg)
           T == SettersOf(new, field)
           m == LastIn(T)
<1>1. /\ new \in Seq(Line)
      /\ \A i \in 1 .. Len(new) : new[i][1] \in RegexKeys => new[i] = ListLine(cfg, new[i][1])
      /\ \E i \in 1 .. Len(new) : new[i][1] = field
  BY SavedLines
<1>2. RewrittenLast(new)
  BY SavedRewrittenLast
<1> HIDE DEF new
<1>3. PICK i \in 1 .. Len(new) : new[i][1] = field
  BY <1>1
<1>4. i \in T
  BY <1>3, ListLineSets DEF SettersOf
<1>5. m \in T /\ i <= m
  BY <1>1, <1>4, LastSetter
<1> HIDE DEF m
<1>6. m \in 1 .. Len(new) /\ field \in Fields(new[m][1])
  BY <1>5 DEF SettersOf
<1>7. new[m][1] = field
  <2>1. new[m][1] \notin RegexKeys => m < i
    BY <1>2, <1>3, <1>6 DEF RewrittenLast
  <2>2. ~(m < i)
    BY <1>5, <1>6
  <2>3. QED
    BY <1>6, <2>1, <2>2, FieldsOfLists
<1>8. new[m] = ListLine(cfg, field)
  BY <1>1, <1>6, <1>7
<1>9. Value(field, new[m][2]) = Pieces(new[m][2])
  BY DEF Value, RegexKeys, NumberKeys, IntKeys, PositiveKeys, PortKeys, BoolKeys
<1>10. field \in DOMAIN DefaultConfig
  BY DEF RegexKeys, DefaultConfig
<1>11. loadFromFile(new, DefaultConfig).cfg[field] = Value(field, new[m][2])
  BY <1>4, <1>10, FieldLoaded DEF m
<1>12. QED
  BY <1>8, <1>9, <1>11, ListLineIsRead DEF new

\* validateConfig looks at no user list.
LEMMA ValidationOfOthers ==
    ASSUME NEW c, NEW d, validateConfig(c),
           \A field \in DOMAIN DefaultConfig \ RegexKeys : d[field] = c[field]
    PROVE  validateConfig(d)
<1>1. {"CPU_THRESHOLD", "CPU_RELEASE_THRESHOLD", "PSI_BOOST_WEIGHT", "PSI_EVENT_DRIVEN",
       "RAM_LIMIT_ENABLED", "RAM_QUOTA_LIMITED", "LOG_LEVEL"}
        \subseteq DOMAIN DefaultConfig \ RegexKeys
  BY DEF DefaultConfig, RegexKeys
<1>2. /\ d.CPU_THRESHOLD = c.CPU_THRESHOLD
      /\ d.CPU_RELEASE_THRESHOLD = c.CPU_RELEASE_THRESHOLD
      /\ d.PSI_BOOST_WEIGHT = c.PSI_BOOST_WEIGHT
      /\ d.PSI_EVENT_DRIVEN = c.PSI_EVENT_DRIVEN
      /\ d.RAM_LIMIT_ENABLED = c.RAM_LIMIT_ENABLED
      /\ d.RAM_QUOTA_LIMITED = c.RAM_QUOTA_LIMITED
      /\ d.LOG_LEVEL = c.LOG_LEVEL
  BY <1>1
<1>3. QED
  BY <1>2, Zenon DEF validateConfig

\* A file that could be loaded before a save can be loaded after it, with the lists
\* that are in memory.
LEMMA SavedFileLoads ==
    ASSUME NEW lines \in Seq(Line), NEW e, NEW cfg, RewrittenLast(lines),
           RegexKeys \cap DOMAIN e = {},
           \A key \in RegexKeys : cfg[key] \subseteq Compiles /\ ReadAs[cfg[key]] = cfg[key],
           LoadAndValidate(lines, e).ok
    PROVE  LET saved == LoadAndValidate(updateConfigLines(lines, cfg), e)
           IN  saved.ok /\ \A key \in RegexKeys : saved.cfg[key] = cfg[key]
<1> DEFINE new  == updateConfigLines(lines, cfg)
           from == loadFromFile(lines, DefaultConfig)
           into == loadFromFile(new, DefaultConfig)
           c    == loadFromEnvironment(from.cfg, e)
           d    == loadFromEnvironment(into.cfg, e)
<1>1. \A key \in RegexKeys : cfg[key] \subseteq Patterns
  BY PatternsAssumption
<1>2. /\ from.ok /\ validateConfig(c)
      /\ into.ok /\ validateConfig(d) => LoadAndValidate(new, e).ok
      /\ LoadAndValidate(new, e).cfg = d
  BY DEF LoadAndValidate
<1>3. /\ new \in Seq(Line)
      /\ \A i \in 1 .. Len(new) :
             IF new[i][1] \in RegexKeys THEN new[i] = ListLine(cfg, new[i][1])
             ELSE i \in 1 .. Len(lines) /\ new[i] = lines[i]
  BY <1>1, SavedLines
<1>4. ASSUME NEW field \in DOMAIN DefaultConfig \ RegexKeys
      PROVE  into.cfg[field] = from.cfg[field]
  BY <1>1, OtherFieldKept
<1>5. ASSUME NEW key \in RegexKeys
      PROVE  into.cfg[key] = cfg[key]
  BY <1>1, ListFieldSaved
<1>6. DOMAIN from.cfg = DOMAIN DefaultConfig /\ DOMAIN into.cfg = DOMAIN DefaultConfig
  BY DEF loadFromFile
<1> HIDE DEF new
<1>7. into.ok
  <2>1. \A i \in 1 .. Len(lines) : ~Refuses(lines[i][1], lines[i][2])
    BY <1>2 DEF loadFromFile
  <2>2. ASSUME NEW i \in 1 .. Len(new)
        PROVE  ~Refuses(new[i][1], new[i][2])
    <3>1. CASE new[i][1] \in RegexKeys
      <4>1. Pieces(new[i][2]) \subseteq Compiles
        BY <1>1, <1>3, <3>1, ListLineIsRead
      <4>2. QED
        BY <3>1, <4>1 DEF Refuses, RegexKeys, PortKeys, parseRegexListRefuses
    <3>2. CASE new[i][1] \notin RegexKeys
      BY <1>3, <2>1, <3>2
    <3>3. QED
      BY <3>1, <3>2
  <2>3. QED
    BY <2>2 DEF loadFromFile
<1> HIDE DEF from, into
<1>8. ASSUME NEW field \in DOMAIN DefaultConfig \ RegexKeys
      PROVE  d[field] = c[field]
  BY <1>4, <1>6 DEF loadFromEnvironment
<1>9. ASSUME NEW key \in RegexKeys
      PROVE  d[key] = cfg[key]
  <2>1. key \in DOMAIN DefaultConfig /\ key \notin DOMAIN e
    BY DEF RegexKeys, DefaultConfig
  <2>2. d[key] = into.cfg[key]
    BY <1>6, <2>1 DEF loadFromEnvironment
  <2>3. QED
    BY <1>5, <2>2
<1> HIDE DEF c, d
<1>10. validateConfig(d)
  BY <1>2, <1>8, ValidationOfOthers
<1>11. LoadAndValidate(new, e).ok
  BY <1>2, <1>7, <1>10
<1>12. /\ LoadAndValidate(new, e).ok
       /\ \A key \in RegexKeys : LoadAndValidate(new, e).cfg[key] = cfg[key]
  BY <1>2, <1>9, <1>11
<1>13. QED
  BY <1>12 DEF new

-----------------------------------------------------------------------------
(* The inductive invariants.                                               *)

\* The loaders and the parts.
Labels == {"idle", "load", "exporter", "manager", "collector", "end"}
LoaderTypes ==
    /\ env \in Environs
    /\ watched \in BOOLEAN /\ event \in BOOLEAN
    /\ pendingReload \in BOOLEAN /\ running \in BOOLEAN
    /\ last \in 0 .. MaxWrites
    /\ pc \in [Loaders -> Labels]
    /\ stat \in [Loaders -> 0 .. MaxWrites]
    /\ obj \in [Loaders -> Objects \cup {NoObject}]
    /\ failed \in [Loaders -> BOOLEAN]
    /\ smCfg \in Objects /\ colCfg \in Objects
    /\ exporter \in {"running", "told", "stopped"}

\* The forms of the file, of the heap and of the handler.
Files    == [there : BOOLEAN, stamp : 0 .. MaxWrites, lines : Seq(Line)]
Handlers == [at : {"idle", "set", "rename"}, calls : Nat,
             obj : Objects \cup {NoObject}, key : RegexKeys \cup {""},
             list : SUBSET Compiles, previous : SUBSET Patterns,
             read : Seq(Line), lines : Seq(Line)]
Forms == file \in Files /\ DOMAIN heap = Objects /\ mcp \in Handlers

\* A loader has an object from its load to its end; so has the handler.
References ==
    /\ \A t \in Loaders : pc[t] \in {"idle", "load"} <=> obj[t] = NoObject
    /\ mcp.at # "idle" => mcp.obj \in Objects /\ mcp.key \in RegexKeys

\* Nothing that a later step brings into force holds an unchecked pattern: not
\* the file, what will replace it, or the list that a failed save puts back.
Pending ==
    UncheckedListsCompile =>
        /\ AliasesCompile(file.lines)
        /\ AliasesCompile(mcp.lines)
        /\ mcp.previous \subseteq Compiles

\* Every object in memory is sound.
HeapSound == \A o \in Objects : Sound(heap[o])

ReloadInv == LoaderTypes /\ Forms /\ References /\ Pending /\ HeapSound

\* One loader at a time: the parts hold different objects only between its
\* update of the state manager and its update of the collector.
SerialInv ==
    /\ pc \in [Loaders -> Labels]
    /\ \A t, u \in Loaders : pc[t] # "idle" /\ pc[u] # "idle" => t = u
    /\ \A t \in Loaders : pc[t] = "collector" => smCfg = obj[t]
    /\ smCfg # colCfg => \E t \in Loaders : pc[t] = "collector"

\* The collector of garbage leaves sound objects.
LEMMA CollectedIsSound ==
    ASSUME NEW h, NEW live, \A o \in Objects : Sound(h[o])
    PROVE  /\ DOMAIN Collected(h, live) = Objects
           /\ \A o \in Objects : Sound(Collected(h, live)[o])
<1>1. DOMAIN Collected(h, live) = Objects
  BY DEF Collected
<1>2. ASSUME NEW o \in Objects
      PROVE  Sound(Collected(h, live)[o])
  <2>1. Collected(h, live)[o] = IF o \in live THEN h[o] ELSE DefaultConfig
    BY DEF Collected
  <2>2. QED
    BY <2>1, DefaultIsSound
<1>3. QED
  BY <1>1, <1>2

\* A list of patterns in a list field keeps a configuration sound.
LEMMA ListKeepsSound ==
    ASSUME NEW cfg, Sound(cfg), NEW key \in RegexKeys, NEW list \in SUBSET Patterns,
           UncheckedListsCompile => list \subseteq Compiles
    PROVE  Sound([cfg EXCEPT ![key] = list])
<1> DEFINE new == [cfg EXCEPT ![key] = list]
<1>1. DOMAIN new = DOMAIN DefaultConfig /\ DOMAIN cfg = DOMAIN DefaultConfig
  BY DEF Sound
<1>2. key = "USER_INCLUDE_LIST" \/ key = "USER_EXCLUDE_LIST"
  BY DEF RegexKeys
<1>3. {"CPU_THRESHOLD", "CPU_RELEASE_THRESHOLD", "PSI_EVENT_DRIVEN", "PSI_BOOST_WEIGHT",
       "USER_INCLUDE_LIST", "USER_EXCLUDE_LIST"} \subseteq DOMAIN DefaultConfig
  BY DEF DefaultConfig
<1>4. /\ new.CPU_THRESHOLD = cfg.CPU_THRESHOLD
      /\ new.CPU_RELEASE_THRESHOLD = cfg.CPU_RELEASE_THRESHOLD
      /\ new.PSI_EVENT_DRIVEN = cfg.PSI_EVENT_DRIVEN
      /\ new.PSI_BOOST_WEIGHT = cfg.PSI_BOOST_WEIGHT
  BY <1>1, <1>2, <1>3
<1>5. /\ new["USER_INCLUDE_LIST"] \in {cfg["USER_INCLUDE_LIST"], list}
      /\ new["USER_EXCLUDE_LIST"] \in {cfg["USER_EXCLUDE_LIST"], list}
  BY <1>1, <1>2, <1>3
<1> HIDE DEF new
<1>6. SoundNumbers(new)
  <2>1. SoundNumbers(cfg)
    BY DEF Sound
  <2>2. QED
    BY <1>4, <2>1, Zenon DEF SoundNumbers
<1>7. ListsIn(new, Patterns)
  BY <1>5 DEF Sound, ListsIn
<1>8. UncheckedListsCompile => ListsIn(new, Compiles)
  BY <1>5 DEF Sound, ListsIn
<1>9. Sound(new)
  BY <1>1, <1>6, <1>7, <1>8 DEF Sound
<1>10. QED
  BY <1>9 DEF new

\* The invariant says more than TypeOK.
LEMMA ReloadInvTypes == ReloadInv => TypeOK
<1> SUFFICES ASSUME ReloadInv PROVE TypeOK
  OBVIOUS
<1>1. \A o \in Objects : DOMAIN heap[o] = DOMAIN DefaultConfig
  BY DEF ReloadInv, HeapSound, Sound
<1>2. /\ file.there \in BOOLEAN /\ file.stamp \in 0 .. MaxWrites
      /\ mcp.at \in {"idle", "set", "rename"} /\ mcp.obj \in Objects \cup {NoObject}
  BY DEF ReloadInv, Forms, Files, Handlers
<1>3. {watched, event, pendingReload, running} \subseteq BOOLEAN
  BY Zenon DEF ReloadInv, LoaderTypes
<1>4. QED
  BY <1>1, <1>2, <1>3 DEF ReloadInv, LoaderTypes, Labels, TypeOK

\* There is an object for a loader that has none.
LEMMA ObjectIsFree ==
    ASSUME ReloadInv, NEW t \in Loaders, obj[t] = NoObject
    PROVE  LET free == Objects \ Live(smCfg, colCfg, obj, mcp)
           IN  (CHOOSE x \in free : \A y \in free : x <= y) \in free
<1> DEFINE live == Live(smCfg, colCfg, obj, mcp)
           free == Objects \ live
<1>1. PICK u \in Loaders : Loaders = {t, u}
  BY DEF Loaders
<1>2. live = {smCfg, colCfg, mcp.obj, 0, obj[u]}
  BY <1>1 DEF Live, NoObject
<1>3. free # {} /\ free \subseteq Nat
  <2>1. Objects = {1, 2, 3, 4, 5}
    BY DEF Objects
  <2>2. QED
    BY <1>2, <2>1
<1> HIDE DEF live, free
<1>4. \E x \in free : \A y \in free : x <= y
  BY <1>3, Smallest
<1>5. (CHOOSE x \in free : \A y \in free : x <= y) \in free
  BY <1>4
<1>6. QED
  BY <1>5 DEF free, live

\* A handler that is done.
LEMMA IdleIsAHandler ==
    ASSUME NEW n \in Nat
    PROVE  /\ Idle(n) \in Handlers
           /\ Idle(n).at = "idle" /\ Idle(n).lines = <<>> /\ Idle(n).previous = {}
<1>1. <<>> \in Seq(Line)
  OBVIOUS
<1>2. QED
  BY <1>1 DEF Idle, Handlers

\* The first configuration is sound: Bootstrap has loaded it.
LEMMA ReloadInit == Init => ReloadInv
<1> SUFFICES ASSUME Init PROVE ReloadInv
  OBVIOUS
<1>1. Start \in Seq(Line) /\ LoadAndValidate(Start, env).ok /\ MaxWrites \in Nat
  BY ReloadAssumption DEF Init
<1>2. UncheckedListsCompile => AliasesCompile(Start)
  BY DEF UncheckedListsCompile
<1>3. Sound(LoadAndValidate(Start, env).cfg)
  BY <1>1, <1>2, LoadedIsSound DEF Init
<1>4. HeapSound /\ DOMAIN heap = Objects
  <2>1. \A o \in Objects : heap[o] = IF o = 1 THEN LoadAndValidate(Start, env).cfg
                                       ELSE DefaultConfig
    BY DEF Init
  <2>2. DOMAIN heap = Objects
    BY DEF Init
  <2>3. QED
    BY <1>3, <2>1, <2>2, DefaultIsSound DEF HeapSound
<1>5. /\ mcp = Idle(0) /\ mcp.at = "idle" /\ mcp.lines = <<>> /\ mcp.previous = {}
      /\ file.lines = Start
  BY IdleIsAHandler DEF Init
<1>6. Forms
  <2>1. file \in Files
    BY <1>1 DEF Init, Files
  <2>2. QED
    BY <1>4, <1>5, <2>1, IdleIsAHandler DEF Forms
<1>7. LoaderTypes
  <2>1. 1 \in Objects
    BY DEF Objects
  <2>2. /\ watched \in BOOLEAN /\ event \in BOOLEAN
        /\ pendingReload \in BOOLEAN /\ running \in BOOLEAN
        /\ failed \in [Loaders -> BOOLEAN]
    BY Zenon DEF Init
  <2>3. /\ pc \in [Loaders -> Labels]
        /\ stat \in [Loaders -> 0 .. MaxWrites]
        /\ obj \in [Loaders -> Objects \cup {NoObject}]
    BY <1>1 DEF Init, Labels
  <2>4. QED
    BY <1>1, <2>1, <2>2, <2>3 DEF LoaderTypes, Init
<1>8. References
  BY <1>5 DEF References, Init
<1>9. Pending
  BY <1>2, <1>5 DEF Pending, AliasesCompile
<1>10. QED
  BY <1>4, <1>6, <1>7, <1>8, <1>9 DEF ReloadInv

-----------------------------------------------------------------------------
(* The steps.                                                              *)

\* A change of the file, whoever makes it.
LEMMA FileChanges ==
    ASSUME ReloadInv, NEW lines \in Seq(Line), NEW there \in BOOLEAN,
           NEW inPlace \in BOOLEAN,
           Changed([there |-> there, stamp |-> file.stamp + 1, lines |-> lines], inPlace)
    PROVE  /\ file' \in Files /\ file'.lines = lines
           /\ watched' \in BOOLEAN /\ event' \in BOOLEAN
<1>1. file.stamp \in 0 .. MaxWrites /\ MaxWrites \in Nat /\ file.stamp < MaxWrites
  BY ReloadAssumption DEF ReloadInv, Forms, Files, Changed
<1>2. file.stamp + 1 \in 0 .. MaxWrites
  BY <1>1
<1>3. file' \in Files /\ file'.lines = lines
  BY <1>2 DEF Changed, Files
<1>4. watched' \in BOOLEAN /\ event' \in BOOLEAN
  BY Zenon DEF Changed
<1>5. QED
  BY <1>3, <1>4

\* An edit of the administrator.
LEMMA AdminPreserves ==
    ASSUME ReloadInv, Admin
    PROVE  ReloadInv'
<1>1. ASSUME NEW lines \in Seq(Line), NEW there \in BOOLEAN, NEW inPlace \in BOOLEAN,
             Changed([there |-> there, stamp |-> file.stamp + 1, lines |-> lines], inPlace),
             UncheckedListsCompile => AliasesCompile(lines),
             UNCHANGED <<env, loaderVars, heap, parts, exporter, mcp>>
      PROVE  ReloadInv'
  <2>1. /\ file' \in Files /\ file'.lines = lines
        /\ watched' \in BOOLEAN /\ event' \in BOOLEAN
    BY <1>1, FileChanges
  <2>2. LoaderTypes'
    BY <1>1, <2>1, Zenon DEF ReloadInv, LoaderTypes, loaderVars, parts
  <2>3. Forms' /\ HeapSound'
    BY <1>1, <2>1 DEF ReloadInv, Forms, HeapSound
  <2>4. References'
    BY <1>1 DEF ReloadInv, References, loaderVars
  <2>5. Pending'
    BY <1>1, <2>1 DEF ReloadInv, Pending
  <2>6. QED
    BY <2>2, <2>3, <2>4, <2>5 DEF ReloadInv
<1>2. <<>> \in Seq(Line) /\ AliasesCompile(<<>>)
  BY DEF AliasesCompile
<1>3. CASE AdminTruncates
  BY <1>1, <1>2, <1>3 DEF AdminTruncates, Written
<1>4. CASE AdminRemoves
  BY <1>1, <1>2, <1>4 DEF AdminRemoves
<1>5. ASSUME NEW lines \in Texts, NEW inPlace \in BOOLEAN, AdminWrites(lines, inPlace)
      PROVE  ReloadInv'
  <2>1. lines \in Seq(Line)
    BY ReloadAssumption
  <2>2. UncheckedListsCompile => AliasesCompile(lines)
    BY DEF UncheckedListsCompile
  <2>3. QED
    BY <1>1, <1>5, <2>1, <2>2 DEF AdminWrites, Written
<1>6. QED
  BY <1>3, <1>4, <1>5 DEF Admin

\* The steps of watchLoop and of the exporter: no object, file or list changes, and
\* a loader that begins has no object yet.
LEMMA WatchPreserves ==
    ASSUME ReloadInv,
           \/ ReceiveEvent \/ DebounceFires \/ PeriodicCheck \/ SignalHup
           \/ StopWatcher \/ ExporterStops
           \/ \E t \in Loaders : handlePrometheusConfigChange(t)
    PROVE  ReloadInv'
<1>1. ASSUME LoaderTypes', References', UNCHANGED <<file, heap, mcp>>
      PROVE  ReloadInv'
  BY <1>1 DEF ReloadInv, Forms, Pending, HeapSound
<1>2. ASSUME NEW t \in Loaders, MayBegin(t), Stat(t)
      PROVE  /\ pc' \in [Loaders -> Labels]
             /\ stat' \in [Loaders -> 0 .. MaxWrites]
             /\ \A u \in Loaders : pc'[u] # pc[u] => pc[u] = "idle" /\ pc'[u] = "load"
  BY <1>2 DEF ReloadInv, LoaderTypes, Forms, Files, Stat, MayBegin, Goto, Labels
<1>3. CASE ReceiveEvent
  <2>1. LoaderTypes'
    BY <1>3, Zenon DEF ReceiveEvent, ReloadInv, LoaderTypes, parts
  <2>2. References'
    BY <1>3 DEF ReceiveEvent, ReloadInv, References
  <2>3. QED
    BY <1>1, <1>3, <2>1, <2>2 DEF ReceiveEvent
<1>4. CASE DebounceFires
  <2>1. LoaderTypes'
    BY <1>2, <1>4, Zenon DEF DebounceFires, ReloadInv, LoaderTypes, parts, fileVars, Loaders
  <2>2. References'
    BY <1>2, <1>4 DEF DebounceFires, ReloadInv, References, Loaders
  <2>3. QED
    BY <1>1, <1>4, <2>1, <2>2 DEF DebounceFires, fileVars
<1>5. CASE PeriodicCheck
  <2>1. LoaderTypes'
    BY <1>2, <1>5, Zenon DEF PeriodicCheck, ReloadInv, LoaderTypes, parts, fileVars, Loaders
  <2>2. References'
    BY <1>2, <1>5 DEF PeriodicCheck, ReloadInv, References, Loaders
  <2>3. QED
    BY <1>1, <1>5, <2>1, <2>2 DEF PeriodicCheck, fileVars
<1>6. CASE SignalHup
  <2>1. LoaderTypes'
    BY <1>2, <1>6, Zenon DEF SignalHup, ReloadInv, LoaderTypes, parts, fileVars, Loaders
  <2>2. References'
    BY <1>2, <1>6 DEF SignalHup, ReloadInv, References, Loaders
  <2>3. QED
    BY <1>1, <1>6, <2>1, <2>2 DEF SignalHup, fileVars
<1>7. CASE StopWatcher
  <2>1. LoaderTypes'
    BY <1>7, Zenon DEF StopWatcher, ReloadInv, LoaderTypes, parts, fileVars
  <2>2. References'
    BY <1>7 DEF StopWatcher, ReloadInv, References
  <2>3. QED
    BY <1>1, <1>7, <2>1, <2>2 DEF StopWatcher, fileVars
<1>8. CASE ExporterStops
  <2>1. LoaderTypes'
    BY <1>8, Zenon DEF ExporterStops, ReloadInv, LoaderTypes, parts, fileVars, loaderVars
  <2>2. References'
    BY <1>8 DEF ExporterStops, ReloadInv, References, loaderVars
  <2>3. QED
    BY <1>1, <1>8, <2>1, <2>2 DEF ExporterStops, fileVars
<1>9. ASSUME NEW t \in Loaders, handlePrometheusConfigChange(t)
      PROVE  ReloadInv'
  <2>1. pc' \in [Loaders -> Labels]
    BY <1>9 DEF handlePrometheusConfigChange, ReloadInv, LoaderTypes, Goto, Labels
  <2>2. failed' \in [Loaders -> BOOLEAN]
    BY <1>9, Zenon DEF handlePrometheusConfigChange, ReloadInv, LoaderTypes
  <2>3. exporter' \in {"running", "told", "stopped"}
    BY <1>9 DEF handlePrometheusConfigChange, ReloadInv, LoaderTypes
  <2>4. LoaderTypes'
    BY <1>9, <2>1, <2>2, <2>3, Zenon
    DEF handlePrometheusConfigChange, ReloadInv, LoaderTypes, parts, fileVars
  <2>5. References'
    BY <1>9 DEF handlePrometheusConfigChange, ReloadInv, References, LoaderTypes, Goto
  <2>6. QED
    BY <1>1, <1>9, <2>4, <2>5 DEF handlePrometheusConfigChange, fileVars
<1>10. QED
  BY <1>3, <1>4, <1>5, <1>6, <1>7, <1>8, <1>9

\* A load of what is in the file by now: the new object is one nobody refers to,
\* and it is sound.
LEMMA LoadPreserves ==
    ASSUME ReloadInv, NEW t \in Loaders, Load(t)
    PROVE  ReloadInv'
<1> DEFINE free == Objects \ Live(smCfg, colCfg, obj, mcp)
           o    == CHOOSE x \in free : \A y \in free : x <= y
<1>1. pc[t] = "load" /\ obj[t] = NoObject
  BY DEF Load, ReloadInv, References
<1>2. o \in Objects
  <2>1. o \in free
    BY <1>1, ObjectIsFree
  <2>2. QED
    BY <2>1
<1> HIDE DEF o
<1>3. \/ /\ Loaded.ok
         /\ obj' = [obj EXCEPT ![t] = o]
         /\ heap' = [heap EXCEPT ![o] = Loaded.cfg]
         /\ Goto(t, "exporter")
      \/ Goto(t, "idle") /\ UNCHANGED <<obj, heap>>
  BY DEF Load, o
<1>4. UNCHANGED <<env, file, watched, event, pendingReload, running, last, failed,
                  smCfg, colCfg, exporter, mcp>>
  BY DEF Load, fileVars, parts
<1>5. pc' \in [Loaders -> Labels] /\ obj' \in [Loaders -> Objects \cup {NoObject}]
  BY <1>2, <1>3 DEF ReloadInv, LoaderTypes, Goto, Labels
<1>6. stat' \in [Loaders -> 0 .. MaxWrites]
  <2>1. stat' = [stat EXCEPT ![t] = 0] \/ stat' = stat
    BY DEF Load
  <2>2. 0 \in 0 .. MaxWrites
    BY ReloadAssumption
  <2>3. QED
    BY <2>1, <2>2 DEF ReloadInv, LoaderTypes
<1>7. LoaderTypes'
  BY <1>4, <1>5, <1>6, Zenon DEF ReloadInv, LoaderTypes
<1>8. References'
  <2>1. 0 \notin Objects
    BY DEF Objects
  <2>2. QED
    BY <1>1, <1>2, <1>3, <1>4, <2>1
    DEF ReloadInv, References, LoaderTypes, Goto, NoObject
<1>9. HeapSound' /\ DOMAIN heap' = Objects
  <2>1. CASE Loaded.ok /\ heap' = [heap EXCEPT ![o] = Loaded.cfg]
    <3>1. Sound(Loaded.cfg)
      <4>1. file.lines \in Seq(Line)
        BY DEF ReloadInv, Forms, Files
      <4>2. UncheckedListsCompile => AliasesCompile(file.lines)
        BY DEF ReloadInv, Pending
      <4>3. env \in Environs
        BY DEF ReloadInv, LoaderTypes
      <4>4. QED
        BY <2>1, <4>1, <4>2, <4>3, LoadedIsSound DEF Loaded
    <3>2. QED
      BY <1>2, <2>1, <3>1 DEF ReloadInv, HeapSound, Forms
  <2>2. CASE heap' = heap
    BY <2>2 DEF ReloadInv, HeapSound, Forms
  <2>3. QED
    BY <1>3, <2>1, <2>2
<1>10. Forms' /\ Pending'
  BY <1>4, <1>9 DEF ReloadInv, Forms, Pending
<1>11. QED
  BY <1>7, <1>8, <1>9, <1>10 DEF ReloadInv

\* The steps that hand an object over, and the end of a reload.
LEMMA UpdatePreserves ==
    ASSUME ReloadInv, NEW t \in Loaders,
           UpdateManager(t) \/ UpdateCollector(t) \/ EndReload(t)
    PROVE  ReloadInv'
<1>1. PICK live : heap' = Collected(heap, live)
  BY DEF UpdateManager, UpdateCollector, EndReload
<1>2. HeapSound' /\ DOMAIN heap' = Objects
  BY <1>1, CollectedIsSound DEF ReloadInv, HeapSound
<1>3. UNCHANGED <<env, file, watched, event, pendingReload, running, exporter, mcp>>
  BY DEF UpdateManager, UpdateCollector, EndReload, fileVars
<1>4. Forms' /\ Pending'
  BY <1>2, <1>3 DEF ReloadInv, Forms, Pending
<1>5. /\ pc[t] \in {"manager", "collector"} => obj[t] \in Objects
      /\ pc \in [Loaders -> Labels] /\ obj \in [Loaders -> Objects \cup {NoObject}]
  BY DEF ReloadInv, References, LoaderTypes
<1>6. CASE UpdateManager(t)
  <2>1. smCfg' \in Objects /\ pc' \in [Loaders -> Labels]
    BY <1>5, <1>6 DEF UpdateManager, Goto, Labels
  <2>2. LoaderTypes'
    BY <1>3, <1>6, <2>1, Zenon DEF UpdateManager, ReloadInv, LoaderTypes
  <2>3. References'
    BY <1>3, <1>5, <1>6 DEF UpdateManager, Goto, ReloadInv, References
  <2>4. QED
    BY <1>2, <1>4, <2>2, <2>3 DEF ReloadInv
<1>7. CASE UpdateCollector(t)
  <2>1. colCfg' \in Objects /\ pc' \in [Loaders -> Labels]
    BY <1>5, <1>7 DEF UpdateCollector, Goto, Labels
  <2>2. LoaderTypes'
    BY <1>3, <1>7, <2>1, Zenon DEF UpdateCollector, ReloadInv, LoaderTypes
  <2>3. References'
    BY <1>3, <1>5, <1>7 DEF UpdateCollector, Goto, ReloadInv, References
  <2>4. QED
    BY <1>2, <1>4, <2>2, <2>3 DEF ReloadInv
<1>8. CASE EndReload(t)
  <2>1. 0 \in 0 .. MaxWrites
    BY ReloadAssumption
  <2>2. /\ pc' \in [Loaders -> Labels]
        /\ obj' \in [Loaders -> Objects \cup {NoObject}]
        /\ stat' \in [Loaders -> 0 .. MaxWrites]
        /\ last' \in 0 .. MaxWrites
    BY <1>8, <2>1 DEF EndReload, Goto, Labels, ReloadInv, LoaderTypes
  <2>3. failed' \in [Loaders -> BOOLEAN]
    BY <1>8, Zenon DEF EndReload, ReloadInv, LoaderTypes
  <2>4. smCfg' \in Objects /\ colCfg' \in Objects
    BY <1>8 DEF EndReload, parts, ReloadInv, LoaderTypes
  <2>5. LoaderTypes'
    BY <1>3, <2>2, <2>3, <2>4, Zenon DEF ReloadInv, LoaderTypes
  <2>6. References'
    BY <1>3, <1>5, <1>8 DEF EndReload, Goto, ReloadInv, References
  <2>7. QED
    BY <1>2, <1>4, <2>5, <2>6 DEF ReloadInv
<1>9. QED
  BY <1>6, <1>7, <1>8

\* The file a tool saves over, the watched one or another, is one the administrator
\* wrote, or was saved before.
LEMMA SavedOverAFile ==
    ASSUME ReloadInv, NEW lines \in SavedOver
    PROVE  lines \in Seq(Line) /\ (UncheckedListsCompile => AliasesCompile(lines))
<1>1. CASE lines = file.lines
  BY <1>1 DEF ReloadInv, Forms, Files, Pending
<1>2. CASE lines \in Texts
  BY <1>2, ReloadAssumption DEF UncheckedListsCompile
<1>3. CASE lines = <<>>
  BY <1>3 DEF AliasesCompile
<1>4. QED
  BY <1>1, <1>2, <1>3 DEF SavedOver

\* The steps of the MCP tools, a save that fails and one that replaces an edit made
\* meanwhile included.
LEMMA ToolPreserves ==
    ASSUME ReloadInv, Tool
    PROVE  ReloadInv'
<1>1. mcp \in Handlers /\ file \in Files /\ DOMAIN heap = Objects
  BY DEF ReloadInv, Forms
<1>2. ASSUME NEW key \in RegexKeys, NEW list \in Requests[key], ToolCalled(key, list)
      PROVE  ReloadInv'
  <2>1. mcp.calls + 1 \in Nat /\ list \in SUBSET Compiles
    <3>1. mcp.calls \in Nat
      BY <1>1 DEF Handlers
    <3>2. list \subseteq Compiles
      BY <1>2 DEF ToolCalled
    <3>3. QED
      BY <3>1, <3>2
  <2>2. Idle(mcp.calls + 1) \in Handlers
    BY <2>1, IdleIsAHandler
  <2>3. /\ mcp' \in Handlers /\ mcp'.at = "set" /\ mcp'.obj = smCfg /\ mcp'.key = key
        /\ mcp'.lines = Idle(mcp.calls + 1).lines
        /\ mcp'.previous = Idle(mcp.calls + 1).previous
    BY <1>2, <2>1, <2>2 DEF ToolCalled, Handlers, ReloadInv, LoaderTypes
  <2>4. LoaderTypes'
    BY <1>2, Zenon DEF ToolCalled, ReloadInv, LoaderTypes, fileVars, loaderVars, parts
  <2>5. Forms' /\ HeapSound'
    BY <1>1, <1>2, <2>3 DEF ToolCalled, ReloadInv, Forms, HeapSound, fileVars
  <2>6. References'
    BY <1>2, <2>3 DEF ToolCalled, ReloadInv, References, LoaderTypes, loaderVars
  <2>7. Pending'
    <3>1. mcp'.lines = <<>> /\ mcp'.previous = {} /\ file' = file
      BY <1>2, <2>1, <2>3, IdleIsAHandler DEF ToolCalled, fileVars
    <3>2. QED
      BY <3>1 DEF ReloadInv, Pending, AliasesCompile
  <2>8. QED
    BY <2>4, <2>5, <2>6, <2>7 DEF ReloadInv
<1>3. CASE SetUserList
  <2> DEFINE new == [heap[mcp.obj] EXCEPT ![mcp.key] = mcp.list]
  <2>1. mcp.obj \in Objects /\ mcp.key \in RegexKeys
    BY <1>3 DEF SetUserList, ReloadInv, References
  <2>2. mcp.list \in SUBSET Patterns /\ mcp.list \subseteq Compiles
    BY <1>1, PatternsAssumption DEF Handlers
  <2>3. Sound(heap[mcp.obj])
    BY <2>1 DEF ReloadInv, HeapSound
  <2>4. Sound(new)
    BY <2>1, <2>2, <2>3, ListKeepsSound
  <2>5. heap' = [heap EXCEPT ![mcp.obj] = new]
    BY <1>3 DEF SetUserList
  <2> HIDE DEF new
  <2>6. HeapSound' /\ DOMAIN heap' = Objects /\ heap'[mcp.obj] = new
    BY <1>1, <2>1, <2>4, <2>5 DEF ReloadInv, HeapSound
  <2>7. \A key \in RegexKeys : new[key] \subseteq Patterns
    BY <2>4 DEF Sound, ListsIn, RegexKeys
  <2>8. PICK lines \in SavedOver :
           mcp' = [mcp EXCEPT !.at = "rename",
                              !.previous = heap[mcp.obj][mcp.key],
                              !.read = lines,
                              !.lines = updateConfigLines(lines, new)]
    BY <1>3, <2>6 DEF SetUserList
  <2>9. lines \in Seq(Line) /\ (UncheckedListsCompile => AliasesCompile(lines))
    BY SavedOverAFile
  <2>10. /\ updateConfigLines(lines, new) \in Seq(Line)
         /\ AliasesCompile(lines) => AliasesCompile(updateConfigLines(lines, new))
    BY <2>7, <2>9, SavedIsAFile
  <2>11. /\ heap[mcp.obj][mcp.key] \subseteq Patterns
         /\ UncheckedListsCompile => heap[mcp.obj][mcp.key] \subseteq Compiles
    BY <2>1, <2>3 DEF Sound, ListsIn, RegexKeys
  <2>12. /\ mcp' \in Handlers /\ mcp'.obj = mcp.obj /\ mcp'.key = mcp.key
         /\ mcp'.previous = heap[mcp.obj][mcp.key]
         /\ mcp'.lines = updateConfigLines(lines, new)
    BY <1>1, <2>8, <2>9, <2>10, <2>11 DEF Handlers
  <2>13. LoaderTypes' /\ file' = file /\ UNCHANGED <<pc, obj>>
    BY <1>3, Zenon DEF SetUserList, ReloadInv, LoaderTypes, fileVars, loaderVars, parts
  <2>14. Forms'
    BY <1>1, <2>6, <2>12, <2>13 DEF Forms
  <2>15. References'
    BY <2>1, <2>12, <2>13 DEF ReloadInv, References
  <2>16. Pending'
    BY <2>9, <2>10, <2>11, <2>12, <2>13 DEF ReloadInv, Pending
  <2>17. QED
    BY <2>6, <2>13, <2>14, <2>15, <2>16 DEF ReloadInv
<1>4. CASE RenameSaved
  <2>1. mcp.lines \in Seq(Line) /\ mcp.calls \in Nat
    BY <1>1 DEF Handlers
  <2>2. \/ Changed([there |-> TRUE, stamp |-> file.stamp + 1, lines |-> mcp.lines], FALSE)
        \/ UNCHANGED <<file, watched, event>>
    BY <1>4 DEF RenameSaved, Written
  <2>3. /\ file' \in Files /\ file'.lines \in {mcp.lines, file.lines}
        /\ watched' \in BOOLEAN /\ event' \in BOOLEAN
    <3>1. CASE Changed([there |-> TRUE, stamp |-> file.stamp + 1, lines |-> mcp.lines], FALSE)
      BY <2>1, <3>1, FileChanges
    <3>2. CASE UNCHANGED <<file, watched, event>>
      BY <1>1, <3>2, Zenon DEF ReloadInv, LoaderTypes
    <3>3. QED
      BY <2>2, <3>1, <3>2
  <2>4. /\ mcp' \in Handlers /\ mcp'.at = "idle" /\ mcp'.lines = <<>>
        /\ mcp'.previous = {}
    BY <1>4, <2>1, IdleIsAHandler DEF RenameSaved
  <2>5. HeapSound' /\ DOMAIN heap' = Objects
    BY <1>4, CollectedIsSound DEF RenameSaved, ReloadInv, HeapSound
  <2>6. LoaderTypes'
    BY <1>4, <2>3, Zenon DEF RenameSaved, ReloadInv, LoaderTypes, loaderVars, parts
  <2>7. References'
    BY <1>4, <2>4 DEF RenameSaved, ReloadInv, References, loaderVars
  <2>8. Forms' /\ Pending'
    BY <2>3, <2>4, <2>5 DEF ReloadInv, Forms, Pending, AliasesCompile
  <2>9. QED
    BY <2>5, <2>6, <2>7, <2>8 DEF ReloadInv
<1>5. CASE SaveFails
  <2> DEFINE old == [heap[mcp.obj] EXCEPT ![mcp.key] = mcp.previous]
             restored == [heap EXCEPT ![mcp.obj] = old]
  <2>1. mcp.obj \in Objects /\ mcp.key \in RegexKeys
    BY <1>5 DEF SaveFails, ReloadInv, References
  <2>2. /\ mcp.previous \in SUBSET Patterns /\ mcp.calls \in Nat
        /\ UncheckedListsCompile => mcp.previous \subseteq Compiles
    BY <1>1 DEF Handlers, ReloadInv, Pending
  <2>3. Sound(heap[mcp.obj])
    BY <2>1 DEF ReloadInv, HeapSound
  <2>4. Sound(old)
    BY <2>1, <2>2, <2>3, ListKeepsSound
  <2>5. \A o \in Objects : Sound(restored[o])
    <3> HIDE DEF old
    <3>1. QED
      BY <1>1, <2>1, <2>4 DEF ReloadInv, HeapSound
  <2>6. PICK live : heap' = Collected(restored, live)
    BY <1>5 DEF SaveFails
  <2> HIDE DEF restored
  <2>7. HeapSound' /\ DOMAIN heap' = Objects
    BY <2>5, <2>6, CollectedIsSound DEF HeapSound
  <2>8. /\ mcp' \in Handlers /\ mcp'.at = "idle" /\ mcp'.lines = <<>>
        /\ mcp'.previous = {}
    BY <1>5, <2>2, IdleIsAHandler DEF SaveFails
  <2>9. LoaderTypes' /\ file' = file
    BY <1>5, Zenon DEF SaveFails, ReloadInv, LoaderTypes, fileVars, loaderVars, parts
  <2>10. References'
    BY <1>5, <2>8 DEF SaveFails, ReloadInv, References, loaderVars
  <2>11. Forms' /\ Pending'
    BY <1>1, <2>7, <2>8, <2>9 DEF ReloadInv, Forms, Pending, AliasesCompile
  <2>12. QED
    BY <2>7, <2>9, <2>10, <2>11 DEF ReloadInv
<1>6. QED
  BY <1>2, <1>3, <1>4, <1>5 DEF Tool

\* Every step keeps the invariant.
LEMMA ReloadStep == ReloadInv /\ [Next]_vars => ReloadInv'
<1> SUFFICES ASSUME ReloadInv, [Next]_vars PROVE ReloadInv'
  OBVIOUS
<1>1. CASE Next
  <2>1. ASSUME NEW t \in Loaders, LoaderStep(t)
        PROVE  ReloadInv'
    <3>1. \/ Load(t) \/ handlePrometheusConfigChange(t)
          \/ UpdateManager(t) \/ UpdateCollector(t) \/ EndReload(t)
      BY <2>1 DEF LoaderStep
    <3>2. QED
      BY <3>1, LoadPreserves, WatchPreserves, UpdatePreserves
  <2>2. QED
    BY <1>1, <2>1, AdminPreserves, WatchPreserves, ToolPreserves DEF Next
<1>2. CASE UNCHANGED vars
  <2>1. LoaderTypes'
    BY <1>2, Zenon DEF vars, ReloadInv, LoaderTypes
  <2>2. Forms' /\ References' /\ Pending' /\ HeapSound'
    BY <1>2 DEF vars, ReloadInv, Forms, References, Pending, HeapSound
  <2>3. QED
    BY <2>1, <2>2 DEF ReloadInv
<1>3. QED
  BY <1>1, <1>2

\* With one loader at a time, the parts have the same object between reloads.
LEMMA SerialStep ==
    ASSUME ~Overlap, SerialInv, [Next]_vars
    PROVE  SerialInv'
<1>1. ASSUME UNCHANGED <<pc, obj, smCfg, colCfg>>
      PROVE  SerialInv'
  BY <1>1 DEF SerialInv
<1>2. ASSUME NEW t \in Loaders, MayBegin(t), Stat(t), UNCHANGED <<obj, smCfg, colCfg>>
      PROVE  SerialInv'
  <2>1. \A u \in Loaders : pc[u] = "idle"
    BY <1>2 DEF MayBegin
  <2>2. pc' = pc \/ pc' = [pc EXCEPT ![t] = "load"]
    BY <1>2 DEF Stat, Goto
  <2>3. QED
    BY <1>2, <2>1, <2>2 DEF SerialInv, Labels
<1>3. CASE Admin
  BY <1>1, <1>3 DEF Admin, AdminTruncates, AdminWrites, AdminRemoves, loaderVars, parts
<1>4. CASE ReceiveEvent \/ StopWatcher \/ ExporterStops
  BY <1>1, <1>4 DEF ReceiveEvent, StopWatcher, ExporterStops, loaderVars, parts
<1>5. CASE DebounceFires \/ PeriodicCheck \/ SignalHup
  BY <1>2, <1>5 DEF DebounceFires, PeriodicCheck, SignalHup, parts, Loaders
<1>6. CASE Tool
  BY <1>1, <1>6 DEF Tool, ToolCalled, SetUserList, RenameSaved, SaveFails, loaderVars,
                    parts
<1>7. ASSUME NEW t \in Loaders, LoaderStep(t)
      PROVE  SerialInv'
  <2>1. pc[t] # "idle" /\ \A u \in Loaders : u # t => pc[u] = "idle"
    BY <1>7 DEF SerialInv, LoaderStep, Load, handlePrometheusConfigChange, UpdateManager,
                UpdateCollector, EndReload
  <2>2. CASE Load(t)
    <3>1. UNCHANGED <<smCfg, colCfg>> /\ smCfg = colCfg
      BY <2>1, <2>2 DEF Load, parts, SerialInv
    <3>2. Goto(t, "exporter") \/ Goto(t, "idle")
      BY <2>2 DEF Load
    <3>3. QED
      BY <2>1, <3>1, <3>2 DEF SerialInv, Goto, Labels
  <2>3. CASE handlePrometheusConfigChange(t)
    BY <2>1, <2>3 DEF handlePrometheusConfigChange, SerialInv, Goto, Labels, parts
  <2>4. CASE UpdateManager(t)
    BY <2>1, <2>4 DEF UpdateManager, SerialInv, Goto, Labels
  <2>5. CASE UpdateCollector(t)
    BY <2>1, <2>5 DEF UpdateCollector, SerialInv, Goto, Labels
  <2>6. CASE EndReload(t)
    BY <2>1, <2>6 DEF EndReload, SerialInv, Goto, Labels, parts
  <2>7. QED
    BY <1>7, <2>2, <2>3, <2>4, <2>5, <2>6 DEF LoaderStep
<1>8. CASE UNCHANGED vars
  BY <1>1, <1>8 DEF vars
<1>9. QED
  BY <1>3, <1>4, <1>5, <1>6, <1>7, <1>8 DEF Next

-----------------------------------------------------------------------------
(* The theorems.                                                           *)

\* TypeOK, and that the configurations in memory always have all their fields,
\* through reloads, edits and saves in any order, Overlap included.
THEOREM ReloadTypeCorrect == Spec => []TypeOK
<1>1. QED
  BY ReloadInit, ReloadStep, ReloadInvTypes, PTL DEF Spec

\* No matter what the file says when it is read, which edits, saves and signals
\* fall between the steps of a reload and whether reloads overlap, the thresholds
\* and the PSI weight in force are sound: for every text and environment.
THEOREM NumbersInForceAreSound ==
    Spec => [](SoundNumbers(heap[smCfg]) /\ SoundNumbers(heap[colCfg]))
<1>1. ReloadInv => SoundNumbers(heap[smCfg]) /\ SoundNumbers(heap[colCfg])
  BY DEF ReloadInv, LoaderTypes, HeapSound, Sound
<1>2. QED
  BY <1>1, ReloadInit, ReloadStep, PTL DEF Spec

\* The whole of OnlySoundConfigs: the alias USER_WHITELIST and the environment are
\* the only ways in for a pattern that does not compile.  The save of an MCP tool,
\* the restored list of one that failed, and a file half written are not.
THEOREM ConfigsInForceAreSound ==
    ASSUME UncheckedListsCompile
    PROVE  Spec => []OnlySoundConfigs
<1>1. ReloadInv => OnlySoundConfigs
  <2> SUFFICES ASSUME ReloadInv PROVE OnlySoundConfigs
    OBVIOUS
  <2>1. ASSUME NEW o \in {smCfg, colCfg}
        PROVE  /\ SoundNumbers(heap[o])
               /\ heap[o].USER_INCLUDE_LIST \cup heap[o].USER_EXCLUDE_LIST \subseteq Compiles
    <3>1. Sound(heap[o])
      BY DEF ReloadInv, LoaderTypes, HeapSound
    <3>2. SoundNumbers(heap[o]) /\ ListsIn(heap[o], Compiles)
      BY <3>1, UncheckedListsCompile DEF Sound
    <3>3. /\ heap[o]["USER_INCLUDE_LIST"] = heap[o].USER_INCLUDE_LIST
          /\ heap[o]["USER_EXCLUDE_LIST"] = heap[o].USER_EXCLUDE_LIST
      OBVIOUS
    <3>4. QED
      BY <3>2, <3>3 DEF ListsIn
  <2>2. QED
    BY <2>1 DEF OnlySoundConfigs
<1>2. QED
  BY <1>1, ReloadInit, ReloadStep, PTL DEF Spec

\* As long as a SIGHUP does not fall into a reload, the state manager and the
\* collector agree on who may be limited whenever no reload is under way, also
\* after one that the exporter refused and while the tools change lists in place.
THEOREM PartsAgreeBetweenReloads ==
    ASSUME ~Overlap
    PROVE  Spec => []PartsAgree
<1>1. Init => SerialInv
  BY DEF Init, SerialInv, Labels
<1>2. SerialInv /\ [Next]_vars => SerialInv'
  BY SerialStep
<1>3. SerialInv => PartsAgree
  <2> SUFFICES ASSUME SerialInv, \A t \in Loaders : pc[t] = "idle"
               PROVE  Eligible(heap[smCfg]) = Eligible(heap[colCfg])
    BY DEF PartsAgree
  <2>1. smCfg = colCfg
    BY DEF SerialInv
  <2>2. QED
    BY <2>1
<1>4. QED
  BY <1>1, <1>2, <1>3, PTL DEF Spec

-----------------------------------------------------------------------------
(* SavedListsReload.                                                       *)

\* The text that waits for its rename is the one read, with the lists of the object
\* as they still are: nothing but the handler changes an object in place.
SavedInv ==
    mcp.at = "rename" => mcp.lines = updateConfigLines(mcp.read, heap[mcp.obj])

\* The steps of the loaders, the watch loop and the exporter change neither the
\* file nor the handler of the tools.
LEMMA FileAndHandlerKept ==
    ASSUME [Next]_vars, ~Admin, ~Tool
    PROVE  UNCHANGED <<env, file, mcp>>
<1>1. CASE ReceiveEvent \/ DebounceFires \/ PeriodicCheck \/ SignalHup \/ StopWatcher
           \/ ExporterStops
  BY <1>1 DEF ReceiveEvent, DebounceFires, PeriodicCheck, SignalHup, StopWatcher,
              ExporterStops, fileVars
<1>2. ASSUME NEW t \in Loaders, LoaderStep(t)
      PROVE  UNCHANGED <<env, file, mcp>>
  BY <1>2 DEF LoaderStep, Load, handlePrometheusConfigChange, UpdateManager,
              UpdateCollector, EndReload, fileVars
<1>3. CASE UNCHANGED vars
  BY <1>3 DEF vars
<1>4. QED
  BY <1>1, <1>2, <1>3 DEF Next

\* Only the tools change an object in place: every other step leaves an object
\* alone that somebody refers to before and after it.
LEMMA ObjectKept ==
    ASSUME ReloadInv, [Next]_vars, ~SetUserList, ~SaveFails,
           NEW o \in Objects,
           o \in Live(smCfg, colCfg, obj, mcp),
           o \in Live(smCfg', colCfg', obj', mcp')
    PROVE  heap'[o] = heap[o]
<1>1. ASSUME heap' = Collected(heap, Live(smCfg', colCfg', obj', mcp'))
      PROVE  heap'[o] = heap[o]
  BY <1>1 DEF Collected
<1>2. CASE Admin \/ ReceiveEvent \/ DebounceFires \/ PeriodicCheck \/ SignalHup
           \/ StopWatcher \/ ExporterStops \/ UNCHANGED vars
  BY <1>2 DEF Admin, AdminTruncates, AdminWrites, AdminRemoves, ReceiveEvent,
              DebounceFires, PeriodicCheck, SignalHup, StopWatcher, ExporterStops, vars
<1>3. CASE Tool
  <2>1. CASE RenameSaved
    <3>1. UNCHANGED <<smCfg, colCfg, obj>>
      BY <2>1 DEF RenameSaved, loaderVars, parts
    <3>2. QED
      BY <1>1, <2>1, <3>1 DEF RenameSaved
  <2>2. CASE \E key \in RegexKeys : \E list \in Requests[key] : ToolCalled(key, list)
    BY <2>2 DEF ToolCalled
  <2>3. QED
    BY <1>3, <2>1, <2>2 DEF Tool
<1>4. ASSUME NEW t \in Loaders, LoaderStep(t)
      PROVE  heap'[o] = heap[o]
  <2>1. CASE Load(t)
    <3> DEFINE free == Objects \ Live(smCfg, colCfg, obj, mcp)
               n    == CHOOSE x \in free : \A y \in free : x <= y
    <3>1. obj[t] = NoObject
      BY <2>1 DEF Load, ReloadInv, References
    <3>2. n \in free
      BY <3>1, ObjectIsFree
    <3>3. heap' = [heap EXCEPT ![n] = Loaded.cfg] \/ heap' = heap
      BY <2>1 DEF Load
    <3> HIDE DEF n
    <3>4. n # o
      BY <3>2
    <3>5. QED
      BY <3>3, <3>4 DEF ReloadInv, Forms
  <2>2. CASE handlePrometheusConfigChange(t)
    BY <2>2 DEF handlePrometheusConfigChange
  <2>3. CASE UpdateManager(t)
    BY <1>1, <2>3 DEF UpdateManager
  <2>4. CASE UpdateCollector(t)
    BY <1>1, <2>4 DEF UpdateCollector
  <2>5. CASE EndReload(t)
    BY <1>1, <2>5 DEF EndReload, parts
  <2>6. QED
    BY <1>4, <2>1, <2>2, <2>3, <2>4, <2>5 DEF LoaderStep
<1>5. QED
  BY <1>2, <1>3, <1>4 DEF Next

\* Every step keeps SavedInv.
LEMMA SavedStep ==
    ASSUME ReloadInv, SavedInv, [Next]_vars
    PROVE  SavedInv'
<1>1. mcp \in Handlers
  BY DEF ReloadInv, Forms
<1>2. CASE Admin
  BY <1>2 DEF Admin, AdminTruncates, AdminWrites, AdminRemoves, SavedInv
<1>3. CASE SetUserList
  <2>1. PICK lines \in SavedOver :
           /\ mcp'.obj = mcp.obj /\ mcp'.read = lines
           /\ mcp'.lines = updateConfigLines(lines, heap'[mcp.obj])
    BY <1>1, <1>3 DEF SetUserList, Handlers
  <2>2. QED
    BY <2>1 DEF SavedInv
<1>4. CASE SaveFails \/ RenameSaved
  <2>1. mcp' = Idle(mcp.calls)
    BY <1>4, Zenon DEF SaveFails, RenameSaved
  <2>2. QED
    BY <2>1 DEF SavedInv, Idle
<1>5. ASSUME NEW key \in RegexKeys, NEW list \in Requests[key], ToolCalled(key, list)
      PROVE  SavedInv'
  <2>1. mcp'.at = "set"
    BY <1>5 DEF ToolCalled, Idle
  <2>2. QED
    BY <2>1 DEF SavedInv
<1>6. CASE ~Admin /\ ~Tool
  <2>1. UNCHANGED mcp
    BY <1>6, FileAndHandlerKept
  <2>2. mcp.at = "rename" => heap'[mcp.obj] = heap[mcp.obj]
    <3>1. SUFFICES ASSUME mcp.at = "rename" PROVE heap'[mcp.obj] = heap[mcp.obj]
      OBVIOUS
    <3>2. /\ mcp.obj \in Objects
          /\ mcp.obj \in Live(smCfg, colCfg, obj, mcp)
          /\ mcp.obj \in Live(smCfg', colCfg', obj', mcp')
      BY <2>1, <3>1 DEF ReloadInv, References, Live
    <3>3. QED
      BY <1>6, <3>2, ObjectKept DEF Tool
  <2>3. QED
    BY <2>1, <2>2 DEF SavedInv
<1>7. QED
  BY <1>2, <1>3, <1>4, <1>5, <1>6 DEF Tool

\* What a tool saves is what the next load will read, and a file that could be
\* loaded stays one: for every file, every list and every way in which lists are
\* read, whatever is reloaded or edited while the save is under way, and wherever
\* the tools save.  The premises of SavedListsReload, a file whose list lines come
\* last and lists that are read as they are written, are the ways in which the code
\* loses a list; there is no other.
THEOREM SavedListsAreRead == Spec => []SavedListsReload
<1>1. Init => SavedInv
  <2> SUFFICES ASSUME Init PROVE SavedInv
    OBVIOUS
  <2>1. mcp = Idle(0)
    BY DEF Init
  <2>2. mcp.at = "idle"
    BY <2>1, IdleIsAHandler
  <2>3. QED
    BY <2>2 DEF SavedInv
<1>2. ReloadInv /\ SavedInv /\ [Next]_vars => SavedInv'
  BY SavedStep
<1>3. ReloadInv /\ SavedInv => SavedListsReload
  <2> SUFFICES ASSUME ReloadInv, SavedInv, mcp.at = "rename", RewrittenLast(mcp.read),
                      ListsReadable(heap[mcp.obj]), LoadAndValidate(mcp.read, env).ok
               PROVE  LET saved == LoadAndValidate(mcp.lines, env)
                      IN  /\ saved.ok
                          /\ \A key \in RegexKeys : saved.cfg[key] = heap[mcp.obj][key]
    BY DEF SavedListsReload
  <2>1. mcp.read \in Seq(Line)
    BY DEF ReloadInv, Forms, Handlers
  <2>2. mcp.lines = updateConfigLines(mcp.read, heap[mcp.obj])
    BY DEF SavedInv
  <2>3. QED
    BY <2>1, <2>2, SavedFileLoads DEF ListsReadable
<1>4. QED
  BY <1>1, <1>2, <1>3, ReloadInit, ReloadStep, PTL DEF Spec

-----------------------------------------------------------------------------
(* KnownFileInForce.                                                       *)

\* An object as it would be if the save that is under way failed.
Restored(o) ==
    IF mcp.at = "rename" /\ mcp.obj = o
    THEN [heap[o] EXCEPT ![mcp.key] = mcp.previous] ELSE heap[o]

\* The object is what the file holds now.
IsTheFile(o) == Loaded.ok /\ Restored(o) = Loaded.cfg

\* Times only grow: a loader at work has seen a time after the remembered one.
StampInv ==
    /\ last <= file.stamp
    /\ \A t \in Loaders : pc[t] # "idle" => last < stat[t] /\ stat[t] <= file.stamp

\* If the file has not changed since os.Stat, the loader has loaded what is in it,
\* and hands it over; if it is the remembered one, the state manager has it.
ContentInv ==
    /\ \A t \in Loaders :
          pc[t] \in {"exporter", "manager", "collector", "end"} /\ stat[t] = file.stamp
             => IsTheFile(obj[t])
    /\ \A t \in Loaders : pc[t] \in {"collector", "end"} => smCfg = obj[t]
    /\ file.stamp = last => IsTheFile(smCfg)

InForceInv == StampInv /\ ContentInv

\* The numbers StampInv compares.
LEMMA StampTypes ==
    ASSUME ReloadInv
    PROVE  /\ last \in Nat /\ file.stamp \in Nat
           /\ \A t \in Loaders : stat[t] \in Nat
BY ReloadAssumption DEF ReloadInv, LoaderTypes, Forms, Files

\* A change of the file makes it unknown, and known to no loader.
LEMMA InForceChange ==
    ASSUME ReloadInv, InForceInv, file'.stamp = file.stamp + 1,
           UNCHANGED <<pc, stat, obj, last, smCfg>>
    PROVE  InForceInv'
<1>1. /\ last \in Nat /\ file.stamp \in Nat
      /\ \A t \in Loaders : stat[t] \in Nat
  BY StampTypes
<1>2. StampInv'
  BY <1>1 DEF InForceInv, StampInv
<1>3. ContentInv'
  <2>1. last' # file'.stamp
    BY <1>1 DEF InForceInv, StampInv
  <2>2. ASSUME NEW t \in Loaders, pc'[t] \in {"exporter", "manager", "collector", "end"}
        PROVE  stat'[t] # file'.stamp
    BY <1>1, <2>2 DEF InForceInv, StampInv
  <2>3. QED
    BY <2>1, <2>2 DEF InForceInv, ContentInv
<1>4. QED
  BY <1>2, <1>3 DEF InForceInv

\* Objects that the state manager or a loader has.
InUse(o) == o \in Objects /\ (o = smCfg \/ \E t \in Loaders : o = obj[t])

\* A step that leaves the loaders and the file alone keeps the invariant if it
\* leaves the restored form of the objects in use.
LEMMA InForceKept ==
    ASSUME ReloadInv, InForceInv, UNCHANGED <<env, file, pc, stat, obj, last, smCfg>>,
           \A o : InUse(o) /\ IsTheFile(o) => Restored(o)' = Restored(o)
    PROVE  InForceInv'
<1>1. Loaded' = Loaded
  BY DEF Loaded
<1>2. \A o : InUse(o) /\ IsTheFile(o) => IsTheFile(o)'
  BY <1>1 DEF IsTheFile
<1>3. InUse(smCfg)
  BY DEF InUse, ReloadInv, LoaderTypes
<1>4. ASSUME NEW t \in Loaders, pc[t] \in {"exporter", "manager", "collector", "end"}
      PROVE  InUse(obj[t])
  <2>1. obj[t] \in Objects
    BY <1>4 DEF ReloadInv, LoaderTypes, References
  <2>2. QED
    BY <2>1 DEF InUse
<1>5. StampInv'
  BY DEF InForceInv, StampInv
<1>6. ContentInv'
  BY <1>2, <1>3, <1>4 DEF InForceInv, ContentInv
<1>7. QED
  BY <1>5, <1>6 DEF InForceInv

\* What the file holds is a function of the fields, so a list that is changed and
\* set back leaves it as it was.
LEMMA SetBack ==
    ASSUME NEW key, NEW list
    PROVE  [[Loaded.cfg EXCEPT ![key] = list] EXCEPT ![key] = Loaded.cfg[key]] = Loaded.cfg
<1>1. PICK F, D : Loaded.cfg = [field \in D |-> F[field]]
  <2> DEFINE from == loadFromFile(file.lines, DefaultConfig).cfg
             G == [field \in DOMAIN from |->
                     IF field \notin DOMAIN env \/ (field \in NumberKeys /\ env[field].t # "number")
                     THEN from[field] ELSE Value(field, env[field])]
  <2>1. Loaded.cfg = G
    BY DEF Loaded, LoadAndValidate, loadFromEnvironment
  <2>2. G = [field \in DOMAIN from |-> G[field]]
    OBVIOUS
  <2>3. QED
    BY <2>1, <2>2
<1>2. QED
  BY <1>1

\* The tools: a save makes the file unknown, and one that fails sets back what it
\* has changed.
LEMMA InForceTool ==
    ASSUME ~SavedElsewhere, ReloadInv, InForceInv, Tool
    PROVE  InForceInv'
<1>1. mcp \in Handlers /\ DOMAIN heap = Objects
  BY DEF ReloadInv, Forms
<1>2. CASE RenameSaved
  <2>1. file'.stamp = file.stamp + 1
    BY <1>2 DEF RenameSaved, Changed, Written
  <2>2. UNCHANGED <<pc, stat, obj, last, smCfg>>
    BY <1>2 DEF RenameSaved, loaderVars, parts
  <2>3. QED
    BY <2>1, <2>2, InForceChange
<1>3. ASSUME NEW key \in RegexKeys, NEW list \in Requests[key], ToolCalled(key, list)
      PROVE  InForceInv'
  <2>1. UNCHANGED <<env, file, pc, stat, obj, last, smCfg, heap>>
    BY <1>3 DEF ToolCalled, fileVars, loaderVars, parts
  <2>2. mcp.at = "idle" /\ mcp'.at = "set"
    BY <1>3 DEF ToolCalled, Idle
  <2>3. \A o : Restored(o)' = Restored(o)
    BY <2>1, <2>2 DEF Restored
  <2>4. QED
    BY <2>1, <2>3, InForceKept
<1>4. CASE SetUserList
  <2>1. UNCHANGED <<env, file, pc, stat, obj, last, smCfg>>
    BY <1>4 DEF SetUserList, fileVars, loaderVars, parts
  <2>2. mcp.at = "set" /\ mcp.obj \in Objects
    BY <1>4 DEF SetUserList, ReloadInv, References
  <2>3. /\ mcp'.at = "rename" /\ mcp'.obj = mcp.obj /\ mcp'.key = mcp.key
        /\ mcp'.previous = heap[mcp.obj][mcp.key]
    BY <1>1, <1>4 DEF SetUserList, Handlers
  <2>4. heap' = [heap EXCEPT ![mcp.obj] = [heap[mcp.obj] EXCEPT ![mcp.key] = mcp.list]]
    BY <1>4 DEF SetUserList
  <2>5. ASSUME NEW o, InUse(o), IsTheFile(o)
        PROVE  Restored(o)' = Restored(o)
    <3>1. Restored(o) = heap[o] /\ heap[o] = Loaded.cfg
      BY <2>2, <2>5 DEF Restored, IsTheFile
    <3>2. CASE o = mcp.obj
      <4>1. heap'[o] = [Loaded.cfg EXCEPT ![mcp.key] = mcp.list]
        BY <1>1, <2>2, <2>4, <3>1, <3>2
      <4>2. Restored(o)' = [heap'[o] EXCEPT ![mcp.key] = Loaded.cfg[mcp.key]]
        BY <2>3, <3>1, <3>2 DEF Restored
      <4>3. QED
        BY <3>1, <4>1, <4>2, SetBack
    <3>3. CASE o # mcp.obj
      BY <1>1, <2>3, <2>4, <2>5, <3>1, <3>3 DEF Restored, InUse
    <3>4. QED
      BY <3>2, <3>3
  <2>6. QED
    BY <2>1, <2>5, InForceKept
<1>5. CASE SaveFails
  <2>1. UNCHANGED <<env, file, pc, stat, obj, last, smCfg>>
    BY <1>5 DEF SaveFails, fileVars, loaderVars, parts
  <2>2. mcp.at = "rename" /\ mcp.obj \in Objects
    BY <1>5 DEF SaveFails, ReloadInv, References
  <2>3. mcp'.at = "idle"
    BY <1>5 DEF SaveFails, Idle
  <2> DEFINE old == [heap[mcp.obj] EXCEPT ![mcp.key] = mcp.previous]
             back == [heap EXCEPT ![mcp.obj] = old]
  <2>4. heap' = Collected(back, Live(smCfg, colCfg, obj, Idle(0)))
    BY <1>5 DEF SaveFails
  <2>5. ASSUME NEW o, InUse(o)
        PROVE  Restored(o)' = Restored(o)
    <3>1. o \in Live(smCfg, colCfg, obj, Idle(0)) /\ o \in Objects
      BY <2>5 DEF InUse, Live
    <3>2. heap'[o] = back[o]
      BY <2>4, <3>1 DEF Collected
    <3>3. back[o] = IF o = mcp.obj THEN old ELSE heap[o]
      BY <1>1, <2>2, <3>1
    <3>4. QED
      BY <2>2, <2>3, <3>2, <3>3 DEF Restored
  <2>6. QED
    BY <2>1, <2>5, InForceKept
<1>6. QED
  BY <1>2, <1>3, <1>4, <1>5 DEF Tool

\* A loader begins only when the file is not the remembered one.
LEMMA InForceStat ==
    ASSUME ReloadInv, InForceInv, NEW t \in Loaders, pc[t] = "idle", Stat(t),
           UNCHANGED <<env, file, obj, last, smCfg, heap, mcp>>
    PROVE  InForceInv'
<1>1. /\ last \in Nat /\ file.stamp \in Nat
      /\ pc \in [Loaders -> Labels] /\ stat \in [Loaders -> 0 .. MaxWrites]
  BY StampTypes DEF ReloadInv, LoaderTypes
<1>2. \A o : IsTheFile(o)' <=> IsTheFile(o)
  BY DEF IsTheFile, Restored, Loaded
<1>3. CASE UNCHANGED <<stat, pc>>
  <2>1. StampInv'
    BY <1>3 DEF InForceInv, StampInv
  <2>2. ContentInv'
    BY <1>2, <1>3 DEF InForceInv, ContentInv
  <2>3. QED
    BY <2>1, <2>2 DEF InForceInv
<1>4. CASE /\ file.stamp # last
           /\ stat' = [stat EXCEPT ![t] = file.stamp]
           /\ pc' = [pc EXCEPT ![t] = "load"]
  <2>1. \A u \in Loaders : u # t => pc'[u] = pc[u] /\ stat'[u] = stat[u]
    BY <1>1, <1>4
  <2>2. pc'[t] = "load" /\ stat'[t] = file.stamp
    BY <1>1, <1>4
  <2>3. StampInv'
    BY <1>1, <1>4, <2>1, <2>2 DEF InForceInv, StampInv
  <2>4. ContentInv'
    BY <1>2, <2>1, <2>2 DEF InForceInv, ContentInv
  <2>5. QED
    BY <2>3, <2>4 DEF InForceInv
<1>5. QED
  BY <1>3, <1>4 DEF Stat, Goto

\* The steps of a loader, with no other at work.  What it has loaded is the file
\* that os.Stat has seen or one that is newer.
LEMMA InForceLoader ==
    ASSUME ReloadInv, SerialInv, InForceInv, NEW t \in Loaders, LoaderStep(t)
    PROVE  InForceInv'
<1>1. /\ last \in Nat /\ file.stamp \in Nat /\ stat[t] \in Nat
      /\ pc \in [Loaders -> Labels] /\ stat \in [Loaders -> 0 .. MaxWrites]
      /\ obj \in [Loaders -> Objects \cup {NoObject}]
  BY StampTypes DEF ReloadInv, LoaderTypes
<1>2. pc[t] # "idle" /\ \A u \in Loaders : u # t => pc[u] = "idle"
  BY DEF SerialInv, LoaderStep, Load, handlePrometheusConfigChange, UpdateManager,
         UpdateCollector, EndReload
<1>3. last < stat[t] /\ stat[t] <= file.stamp
  BY <1>2 DEF InForceInv, StampInv
<1>4. UNCHANGED <<env, file, mcp>>
  BY DEF LoaderStep, Load, handlePrometheusConfigChange, UpdateManager,
         UpdateCollector, EndReload, fileVars
<1>5. Loaded' = Loaded
  BY <1>4 DEF Loaded
<1>6. ASSUME NEW o, heap'[o] = heap[o]
      PROVE  IsTheFile(o)' <=> IsTheFile(o)
  BY <1>4, <1>5, <1>6 DEF IsTheFile, Restored
<1>7. CASE Load(t)
  <2> DEFINE free == Objects \ Live(smCfg, colCfg, obj, mcp)
             n    == CHOOSE x \in free : \A y \in free : x <= y
  <2>1. obj[t] = NoObject
    BY <1>7 DEF Load, ReloadInv, References
  <2>2. n \in Objects /\ n # mcp.obj
    <3>1. n \in free
      BY <2>1, ObjectIsFree
    <3>2. QED
      BY <3>1 DEF Live
  <2>3. \/ /\ Loaded.ok
           /\ obj' = [obj EXCEPT ![t] = n]
           /\ heap' = [heap EXCEPT ![n] = Loaded.cfg]
           /\ pc' = [pc EXCEPT ![t] = "exporter"]
        \/ pc' = [pc EXCEPT ![t] = "idle"]
    BY <1>7 DEF Load, Goto
  <2> HIDE DEF n
  <2>4. pc'[t] = "exporter" => stat' = stat
    BY <1>7 DEF Load
  <2>5. last' = last
    BY <1>7 DEF Load
  <2>6. \A u \in Loaders : u # t => pc'[u] = "idle"
    BY <1>1, <1>2, <2>3
  <2>7. pc'[t] \in {"exporter", "idle"}
    BY <1>1, <2>3
  <2>8. StampInv'
    BY <1>1, <1>3, <1>4, <2>4, <2>5, <2>6, <2>7 DEF InForceInv, StampInv
  <2>9. pc'[t] = "exporter" => IsTheFile(obj[t])'
    <3>1. SUFFICES ASSUME pc'[t] = "exporter" PROVE IsTheFile(obj[t])'
      OBVIOUS
    <3>2. Loaded.ok /\ obj'[t] = n /\ heap'[n] = Loaded.cfg
      BY <1>1, <2>2, <2>3, <3>1 DEF ReloadInv, Forms
    <3>3. QED
      BY <1>4, <1>5, <2>2, <3>2 DEF IsTheFile, Restored
  <2>10. file'.stamp # last'
    BY <1>1, <1>3, <1>4, <2>5
  <2>11. ContentInv'
    BY <2>6, <2>7, <2>9, <2>10 DEF ContentInv
  <2>12. QED
    BY <2>8, <2>11 DEF InForceInv
<1>8. CASE handlePrometheusConfigChange(t)
  <2>1. /\ pc[t] = "exporter" /\ pc' = [pc EXCEPT ![t] = "manager"]
        /\ UNCHANGED <<stat, obj, last, smCfg, heap>>
    BY <1>8 DEF handlePrometheusConfigChange, Goto, parts
  <2>2. pc'[t] = "manager" /\ \A u \in Loaders : u # t => pc'[u] = "idle"
    BY <1>1, <1>2, <2>1
  <2>3. StampInv'
    BY <1>1, <1>3, <1>4, <2>1, <2>2 DEF InForceInv, StampInv
  <2>4. ContentInv'
    BY <1>1, <1>3, <1>4, <1>6, <2>1, <2>2 DEF InForceInv, ContentInv
  <2>5. QED
    BY <2>3, <2>4 DEF InForceInv
<1>9. ASSUME obj[t] \in Objects, obj' = obj
      PROVE  heap'[obj[t]] = heap[obj[t]]
  <2>1. obj[t] \in Live(smCfg, colCfg, obj, mcp) /\ obj[t] \in Live(smCfg', colCfg', obj', mcp')
    BY <1>9 DEF Live
  <2>2. ~SetUserList /\ ~SaveFails
    <3>1. mcp' = mcp
      BY <1>4
    <3>2. mcp \in Handlers
      BY DEF ReloadInv, Forms
    <3>3. SetUserList => mcp.at = "set" /\ mcp'.at = "rename"
      BY <3>2 DEF SetUserList, Handlers
    <3>4. SaveFails => mcp.at = "rename" /\ mcp'.at = "idle"
      <4>1. SaveFails => mcp.at = "rename" /\ mcp' = Idle(mcp.calls)
        BY Zenon DEF SaveFails
      <4>2. QED
        BY <3>2, <4>1, IdleIsAHandler DEF Handlers
    <3>5. QED
      BY <3>1, <3>3, <3>4
  <2>3. Next
    BY DEF Next
  <2>4. QED
    BY <1>9, <2>1, <2>2, <2>3, ObjectKept
<1>10. CASE UpdateManager(t)
  <2>1. /\ pc[t] = "manager" /\ pc' = [pc EXCEPT ![t] = "collector"]
        /\ UNCHANGED <<stat, obj, last>> /\ smCfg' = obj[t]
    BY <1>10 DEF UpdateManager, Goto
  <2>2. pc'[t] = "collector" /\ \A u \in Loaders : u # t => pc'[u] = "idle"
    BY <1>1, <1>2, <2>1
  <2>3. StampInv'
    BY <1>1, <1>3, <1>4, <2>1, <2>2 DEF InForceInv, StampInv
  <2>4. obj[t] \in Objects
    BY <1>1, <2>1 DEF ReloadInv, References
  <2>5. IsTheFile(obj[t]) => IsTheFile(obj[t])'
    BY <1>4, <1>5, <1>9, <2>1, <2>4 DEF IsTheFile, Restored
  <2>6. ContentInv'
    BY <1>1, <1>3, <1>4, <2>1, <2>2, <2>5 DEF InForceInv, ContentInv
  <2>7. QED
    BY <2>3, <2>6 DEF InForceInv
<1>11. CASE UpdateCollector(t)
  <2>1. /\ pc[t] = "collector" /\ pc' = [pc EXCEPT ![t] = "end"]
        /\ UNCHANGED <<stat, obj, last, smCfg>>
    BY <1>11 DEF UpdateCollector, Goto
  <2>2. pc'[t] = "end" /\ \A u \in Loaders : u # t => pc'[u] = "idle"
    BY <1>1, <1>2, <2>1
  <2>3. StampInv'
    BY <1>1, <1>3, <1>4, <2>1, <2>2 DEF InForceInv, StampInv
  <2>4. obj[t] \in Objects
    BY <1>1, <2>1 DEF ReloadInv, References
  <2>5. IsTheFile(obj[t]) => IsTheFile(obj[t])'
    BY <1>4, <1>5, <1>9, <2>1, <2>4 DEF IsTheFile, Restored
  <2>6. ContentInv'
    BY <1>1, <1>3, <1>4, <2>1, <2>2, <2>5 DEF InForceInv, ContentInv
  <2>7. QED
    BY <2>3, <2>6 DEF InForceInv
<1>12. CASE EndReload(t)
  <2>1. /\ pc[t] = "end" /\ pc' = [pc EXCEPT ![t] = "idle"]
        /\ last' \in {last, stat[t]} /\ UNCHANGED <<smCfg, colCfg>>
        /\ heap' = Collected(heap, Live(smCfg, colCfg, obj', mcp))
    BY <1>12 DEF EndReload, Goto, parts
  <2>2. \A u \in Loaders : pc'[u] = "idle"
    BY <1>1, <1>2, <2>1
  <2>3. StampInv'
    BY <1>1, <1>3, <1>4, <2>1, <2>2 DEF InForceInv, StampInv
  <2>4. smCfg = obj[t] /\ smCfg \in Objects
    BY <2>1 DEF InForceInv, ContentInv, ReloadInv, LoaderTypes
  <2>5. heap'[smCfg] = heap[smCfg]
    BY <2>1, <2>4 DEF Collected, Live
  <2>6. file'.stamp = last' => IsTheFile(smCfg)'
    <3>1. SUFFICES ASSUME file'.stamp = last' PROVE IsTheFile(smCfg)'
      OBVIOUS
    <3>2. stat[t] = file.stamp
      BY <1>1, <1>3, <1>4, <2>1, <3>1
    <3>3. IsTheFile(smCfg)
      BY <2>1, <2>4, <3>2 DEF InForceInv, ContentInv
    <3>4. QED
      BY <1>4, <1>5, <2>1, <2>5, <3>3 DEF IsTheFile, Restored
  <2>7. ContentInv'
    BY <2>2, <2>6 DEF ContentInv
  <2>8. QED
    BY <2>3, <2>7 DEF InForceInv
<1>13. QED
  BY <1>7, <1>8, <1>10, <1>11, <1>12 DEF LoaderStep

\* Every step keeps the invariant.
LEMMA InForceStep ==
    ASSUME ~SavedElsewhere, ReloadInv, SerialInv, InForceInv, [Next]_vars
    PROVE  InForceInv'
<1>1. CASE Admin
  <2>1. file'.stamp = file.stamp + 1
    BY <1>1 DEF Admin, AdminTruncates, AdminWrites, AdminRemoves, Changed, Written
  <2>2. UNCHANGED <<pc, stat, obj, last, smCfg>>
    BY <1>1 DEF Admin, AdminTruncates, AdminWrites, AdminRemoves, loaderVars, parts
  <2>3. QED
    BY <2>1, <2>2, InForceChange
<1>2. CASE ReceiveEvent \/ StopWatcher \/ ExporterStops \/ UNCHANGED vars
  <2>1. UNCHANGED <<env, file, pc, stat, obj, last, smCfg, heap, mcp>>
    BY <1>2 DEF ReceiveEvent, StopWatcher, ExporterStops, vars, fileVars, loaderVars,
                parts
  <2>2. \A o : Restored(o)' = Restored(o)
    BY <2>1 DEF Restored
  <2>3. QED
    BY <2>1, <2>2, InForceKept
<1>3. CASE DebounceFires \/ PeriodicCheck \/ SignalHup
  <2>1. PICK t \in Loaders : pc[t] = "idle" /\ Stat(t)
    BY <1>3 DEF DebounceFires, PeriodicCheck, SignalHup, MayBegin, Loaders
  <2>2. UNCHANGED <<env, file, obj, last, smCfg, heap, mcp>>
    BY <1>3 DEF DebounceFires, PeriodicCheck, SignalHup, fileVars, parts
  <2>3. QED
    BY <2>1, <2>2, InForceStat
<1>4. QED
  BY <1>1, <1>2, <1>3, InForceTool, InForceLoader DEF Next

\* As long as a SIGHUP does not fall into a reload and the tools save to the file
\* that is watched, no edit is taken for a known one: a file that handleConfigChange
\* passes over is the configuration in force, for every sequence of edits, saves,
\* failures and reloads.
THEOREM KnownFileIsInForce ==
    ASSUME ~Overlap, ~SavedElsewhere
    PROVE  Spec => []KnownFileInForce
<1>1. Init => SerialInv
  BY DEF Init, SerialInv, Labels
<1>2. Init => InForceInv
  <2> SUFFICES ASSUME Init PROVE InForceInv
    OBVIOUS
  <2>1. /\ env \in Environs /\ file.lines = Start /\ file.stamp = 0 /\ last = 0
        /\ smCfg = 1 /\ mcp.at = "idle"
    BY DEF Init, Idle
  <2>2. heap[1] = LoadAndValidate(Start, env).cfg
    BY DEF Init, Objects
  <2>3. IsTheFile(smCfg)
    BY <2>1, <2>2, ReloadAssumption DEF IsTheFile, Restored, Loaded
  <2>4. \A t \in Loaders : pc[t] = "idle"
    BY DEF Init
  <2>5. QED
    BY <2>1, <2>3, <2>4 DEF InForceInv, StampInv, ContentInv
<1>3. SerialInv /\ [Next]_vars => SerialInv'
  BY SerialStep
<1>4. ReloadInv /\ SerialInv /\ InForceInv /\ [Next]_vars => InForceInv'
  BY InForceStep
<1>5. ReloadInv /\ SerialInv /\ InForceInv => KnownFileInForce
  <2> SUFFICES ASSUME SerialInv, InForceInv, \A t \in Loaders : pc[t] = "idle",
                      mcp.at = "idle", file.stamp = last
               PROVE  Loaded.ok /\ heap[smCfg] = Loaded.cfg /\ heap[colCfg] = Loaded.cfg
    BY DEF KnownFileInForce
  <2>1. smCfg = colCfg
    BY DEF SerialInv
  <2>2. IsTheFile(smCfg)
    BY DEF InForceInv, ContentInv
  <2>3. QED
    BY <2>1, <2>2 DEF IsTheFile, Restored
<1>6. QED
  BY <1>1, <1>2, <1>3, <1>4, <1>5, ReloadInit, ReloadStep, PTL DEF Spec
=============================================================================
