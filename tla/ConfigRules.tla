---------------------------- MODULE ConfigRules ----------------------------
(***************************************************************************)
(* How a configuration file and the environment become a Config, how a     *)
(* Config is written back by SaveToFile, and what its user lists mean.     *)
(*                                                                         *)
(* Keys and fields are represented by one or two of every handler in       *)
(* configFieldHandlers; the fields keep the names of their keys.  A raw    *)
(* value is a record with its form "t": a number, a word, the pieces of a  *)
(* comma-separated list, a byte quota or a blackout specification; it is   *)
(* what is left of the text when the comment, the quotes and the blanks    *)
(* around it are stripped.  A file is the sequence of its lines            *)
(* <<key, raw value>>, without the comments.                               *)
(***************************************************************************)
EXTENDS Integers, Sequences

CONSTANTS
    Users,
    Patterns,   \* what may stand between two commas of a user list
    Compiles,   \* the patterns regexp.Compile accepts
    Matches,    \* Matches[p]: the users a pattern that compiles matches
    ReadAs      \* ReadAs[S]: the pieces that the list S is read as, once its patterns
                \* have been joined by commas and the text has been stripped

ASSUME PatternsAssumption ==
    /\ Compiles \subseteq Patterns
    /\ Matches \in [Compiles -> SUBSET Users]
    /\ ReadAs \in [SUBSET Patterns -> SUBSET Patterns]

Number(n) == [t |-> "number", n |-> n]
Word(w)   == [t |-> "word", w |-> w]
List(S)   == [t |-> "list", s |-> S]

RawValue == [t : {"number"}, n : Int] \cup [t : {"word"}, w : STRING]
            \cup [t : {"list"}, s : SUBSET Patterns] \cup [t : {"quota", "frames"}]

IntKeys      == {"CPU_THRESHOLD", "CPU_RELEASE_THRESHOLD"}
PositiveKeys == {"PSI_BOOST_WEIGHT"}
BoolKeys     == {"ENABLE_PROMETHEUS", "PSI_EVENT_DRIVEN", "RAM_LIMIT_ENABLED"}
PortKeys     == {"PROMETHEUS_METRICS_BIND_PORT"}
StringKeys   == {"RAM_QUOTA_LIMITED", "LOG_LEVEL"}
RegexKeys    == {"USER_INCLUDE_LIST", "USER_EXCLUDE_LIST"}

\* A line without "=" has the key "malformed"; keys without a handler, all of them
\* called "unknown", are ignored.
Malformed == <<"malformed", Word("")>>

\* The lists with a blank before the "=", as in USER_EXCLUDE_LIST = ^www: loadFromFile
\* trims a key, updateConfigLines does not.  The other keys need no such twin.
BlankKeys == {"USER_INCLUDE_LIST ", "USER_EXCLUDE_LIST "}

LineKeys == IntKeys \cup PositiveKeys \cup BoolKeys \cup PortKeys \cup StringKeys
            \cup RegexKeys \cup BlankKeys
            \cup {"USER_WHITELIST", "CGROUP_BASE", "BLACKOUT", "malformed", "unknown"}
Line     == LineKeys \X RawValue

DefaultConfig ==
    [CPU_THRESHOLD |-> 75, CPU_RELEASE_THRESHOLD |-> 40,
     PSI_EVENT_DRIVEN |-> FALSE, PSI_BOOST_WEIGHT |-> 300,
     ENABLE_PROMETHEUS |-> FALSE, PROMETHEUS_METRICS_BIND_PORT |-> 1974,
     RAM_LIMIT_ENABLED |-> FALSE, RAM_QUOTA_LIMITED |-> [t |-> "quota"],
     LOG_LEVEL |-> Word("INFO"), CGROUP_BASE |-> Word("resman"),
     BLACKOUT |-> Word(""), BlackoutTimeframes |-> Word(""),
     USER_INCLUDE_LIST |-> {}, USER_EXCLUDE_LIST |-> {}]

-----------------------------------------------------------------------------
(* The file: what the handlers of the keys refuse, what they ignore, and   *)
(* which value they assign.                                                *)

NumberKeys == IntKeys \cup PositiveKeys \cup PortKeys

Pieces(raw) == IF raw.t = "list" THEN raw.s ELSE {}

setPortRefuses(raw)       == raw.t = "number" /\ raw.n \notin 1..65535
setCgroupBaseRefuses(raw) == raw \in {Word(".."), Word("/")}
setBlackoutRefuses(raw)   == raw.t # "frames" /\ raw # Word("")
parseRegexListRefuses(raw) == ~(Pieces(raw) \subseteq Compiles)

\* USER_WHITELIST, an alias of USER_EXCLUDE_LIST, goes through setPlainList and
\* is not checked.
Refuses(key, raw) ==
    \/ key \in PortKeys      /\ setPortRefuses(raw)
    \/ key = "CGROUP_BASE"   /\ setCgroupBaseRefuses(raw)
    \/ key = "BLACKOUT"      /\ setBlackoutRefuses(raw)
    \/ key \in RegexKeys \cup BlankKeys /\ parseRegexListRefuses(raw)
    \/ key = "malformed"

\* A number that does not parse, and for setPositiveInt one that is not
\* positive, leaves the field as it is.
Ignores(key, raw) ==
    /\ key \in NumberKeys
    /\ raw.t # "number" \/ (key \in PositiveKeys /\ raw.n <= 0)

Fields(key) ==
    CASE key = "BLACKOUT"           -> {"BLACKOUT", "BlackoutTimeframes"}
      [] key = "USER_INCLUDE_LIST " -> {"USER_INCLUDE_LIST"}
      [] key \in {"USER_EXCLUDE_LIST ", "USER_WHITELIST"} -> {"USER_EXCLUDE_LIST"}
      [] OTHER                      -> {key}

\* The default of all three boolean keys is false, and anything but true, 1, yes
\* and on gives it.
Value(field, raw) ==
    CASE field \in NumberKeys -> raw.n
      [] field \in BoolKeys   -> raw = Word("true")
      [] field \in RegexKeys  -> Pieces(raw)
      [] OTHER                -> raw

\* The lines are applied in order: the last that assigns a field counts.  One
\* that is refused makes the whole file an error.
loadFromFile(lines, cfg) ==
    LET Setters(field) == {i \in 1..Len(lines) :
                             /\ field \in Fields(lines[i][1])
                             /\ ~Ignores(lines[i][1], lines[i][2])}
        LastOf(I) == CHOOSE i \in I : \A j \in I : j <= i
    IN  [ok  |-> \A i \in 1..Len(lines) : ~Refuses(lines[i][1], lines[i][2]),
         cfg |-> [field \in DOMAIN cfg |->
                    IF Setters(field) = {} THEN cfg[field]
                    ELSE Value(field, lines[LastOf(Setters(field))][2])]]

-----------------------------------------------------------------------------
(* The environment: by the type of the field, without the checks of the    *)
(* file's handlers.  A word that is no boolean sets false, whatever the    *)
(* field held, and BLACKOUT sets the text and not the timeframes.          *)

loadFromEnvironment(cfg, env) ==
    [field \in DOMAIN cfg |->
        IF field \notin DOMAIN env \/ (field \in NumberKeys /\ env[field].t # "number")
        THEN cfg[field] ELSE Value(field, env[field])]

-----------------------------------------------------------------------------
(* Validation.                                                             *)

isValidByteQuota(raw) == raw.t = "quota"

\* The largest cpu.weight.
MaxWeight == 10000

\* RAM and IO limits have the same checks; the others that compare one number
\* with a bound, such as POLLING_INTERVAL >= 5, are represented by the first.
validateConfig(cfg) ==
    /\ cfg.CPU_THRESHOLD \in 1..100
    /\ cfg.CPU_RELEASE_THRESHOLD \in 1..100
    /\ cfg.CPU_THRESHOLD > cfg.CPU_RELEASE_THRESHOLD
    /\ cfg.PSI_BOOST_WEIGHT \in 0..MaxWeight
    /\ cfg.PSI_EVENT_DRIVEN => cfg.PSI_BOOST_WEIGHT # 0
    /\ cfg.RAM_LIMIT_ENABLED => isValidByteQuota(cfg.RAM_QUOTA_LIMITED)
    /\ cfg.LOG_LEVEL \in {Word(l) : l \in {"DEBUG", "INFO", "WARN", "ERROR"}}

\* Mutant: the environment is applied to a configuration that has already been
\* validated.
ValidateBeforeEnvironment(lines, env) ==
    LET file == loadFromFile(lines, DefaultConfig)
    IN  [ok  |-> file.ok /\ validateConfig(file.cfg),
         cfg |-> loadFromEnvironment(file.cfg, env)]

\* Defaults, then the file (a missing one has no lines), then the environment.
LoadAndValidate(lines, env) ==
    LET file == loadFromFile(lines, DefaultConfig)
        cfg  == loadFromEnvironment(file.cfg, env)
    IN  [ok |-> file.ok /\ \A c \in {cfg} : validateConfig(c), cfg |-> cfg]

-----------------------------------------------------------------------------
(* The user lists.  An empty include list includes everybody; a pattern    *)
(* that does not compile matches nobody.                                   *)

matchPattern(p, user) == p \in Compiles /\ user \in Matches[p]

IsUserIncluded(cfg, user) ==
    \/ cfg.USER_INCLUDE_LIST = {}
    \/ \E p \in cfg.USER_INCLUDE_LIST : matchPattern(p, user)

IsUserExcluded(cfg, user) ==
    \E p \in cfg.USER_EXCLUDE_LIST : matchPattern(p, user)

IsUserWhitelisted(cfg, user) == IsUserIncluded(cfg, user) /\ ~IsUserExcluded(cfg, user)

-----------------------------------------------------------------------------
(* Writing back.                                                           *)

\* strings.Join puts the patterns between commas.  When the line is read, a pattern
\* that has a comma of its own comes apart, everything from a "#" on is lost, quotes
\* at the ends and blanks around a pattern are stripped, and an empty one is dropped.
ListLine(cfg, key) == <<key, List(ReadAs[cfg[key]])>>

\* Mutant: a list that has no line in the file yet is not written.
UpdateOnlyExistingLines(lines, cfg) ==
    [i \in 1..Len(lines) |->
        IF lines[i][1] \in RegexKeys
        THEN ListLine(cfg, lines[i][1]) ELSE lines[i]]

\* Both lists are written from memory, over every line they have, or at the
\* end; the other lines stay.  A line of a list begins with its key and "=": one
\* with a blank between the two stays as well.
updateConfigLines(lines, cfg) ==
    LET present == {lines[i][1] : i \in 1..Len(lines)}
        Missing(key) == IF key \in present THEN <<>> ELSE <<ListLine(cfg, key)>>
    IN  [i \in 1..Len(lines) |->
            IF lines[i][1] \in RegexKeys
            THEN ListLine(cfg, lines[i][1]) ELSE lines[i]]
        \o Missing("USER_INCLUDE_LIST") \o Missing("USER_EXCLUDE_LIST")
=============================================================================
