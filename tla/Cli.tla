-------------------------------- MODULE Cli ---------------------------------
(***************************************************************************)
(* cli: LoadDotEnv followed by Command.Execute, for one process with one   *)
(* tree of commands.                                                       *)
(*                                                                         *)
(* A world is what the process starts with: the lines of its dotenv file,  *)
(* its environment, the files it can read and its command line.  The       *)
(* command line is kept in units (a flag with its value, a word, the       *)
(* terminator), so that the words the program reads can be compared with   *)
(* what they were written for.  A path is the sequence of command names    *)
(* below the root.                                                         *)
(***************************************************************************)
EXTENDS Integers, Sequences, FiniteSets, SequencesExt

CONSTANTS
    Declares,     \* the flags each path of the tree declares
    Runs,         \* the paths with a Run
    HasVersion,   \* whether the root has a Version
    Kind,         \* of each flag: "bool", "int", "list" or "text"
    Default,      \* of each flag
    SecretFlags, RequiredFlags,
    ConfigFlag,   \* the flag that carries the path of the config file
    EnvKey,       \* each flag's name as envMap maps it
    EnvPrefix,    \* the mapped prefix, or "" under NoPrefix
    Syntax,       \* what the words that begin with a dash say: flag and value
    IntOf,        \* the texts strconv reads as numbers
    Entries,      \* the trimmed entries between the commas of a list's text
    Worlds        \* families of worlds

None == "none"
Tree == DOMAIN Declares
Flags == DOMAIN Kind

VARIABLES world, env, line, pc, d, exit, said
vars == <<world, env, line, pc, d, exit, said>>

(* A flag is declared once along a path and the one for the config file at the root; no two share an  *)
(* environment name; a tree with a Version declares no version flag of its own and is not told        *)
(* --version=false, which would say nothing.                                                          *)
ASSUME TreeAssumption ==
    /\ <<>> \in Tree /\ Tree \subseteq Seq(STRING)
    /\ \A p \in Tree : \A k \in 0..Len(p) : SubSeq(p, 1, k) \in Tree
    /\ Runs \subseteq Tree
    /\ Flags = UNION {Declares[p] : p \in Tree} /\ SecretFlags \cup RequiredFlags \subseteq Flags
    /\ \A p \in Tree : \A j, k \in 0..Len(p) :
         j # k => Declares[SubSeq(p, 1, j)] \cap Declares[SubSeq(p, 1, k)] = {}
    /\ ConfigFlag \in Declares[<<>>]
    /\ \A f, g \in Flags : EnvKey[f] = EnvKey[g] \/ EnvKey[f] = EnvKey[g] \o "_FILE" => f = g
    /\ HasVersion => /\ "version" \notin Flags
                     /\ \A w \in DOMAIN Syntax : Syntax[w].flag = "version" => Syntax[w].value # "false"

(* Values over those already there. *)
Over(new, old) == [x \in DOMAIN new \cup DOMAIN old |-> IF x \in DOMAIN new THEN new[x] ELSE old[x]]
Just(key, value) == [x \in {key} |-> value]

visible(path) == UNION {Declares[SubSeq(path, 1, k)] : k \in 0..Len(path)}
secrets(path) == visible(path) \cap SecretFlags
findCommand(path, w) == Append(path, w) \in Tree

(* splitList, and what each kind of flag takes in Set. *)
splitList(v) == IF Entries[v] = <<"">> THEN [ok |-> TRUE, list |-> <<>>]
                ELSE [ok |-> "" \notin Range(Entries[v]), list |-> Entries[v]]
Accepts(f, v) ==
    CASE Kind[f] = "bool" -> v \in {"true", "false"}
      [] Kind[f] = "int" -> v \in DOMAIN IntOf
      [] Kind[f] = "list" -> v \in DOMAIN Entries /\ splitList(v).ok
      [] Kind[f] = "text" -> TRUE

ASSUME DefaultAssumption == Default = [f \in Flags |-> Default[f]] /\ \A f \in Flags : Accepts(f, Default[f])

Words(units) == FlattenSeq([k \in DOMAIN units |-> units[k].words])

(***************************************************************************)
(* The worlds: each unit's words say what it was written for, a word that  *)
(* begins with a dash is no flag of the tree unless it ends the line where *)
(* its value is missing, and a file has a name.                            *)
(***************************************************************************)
SaysSet(u) ==
    /\ u.flag \in Flags
    /\ u.words[1] \in DOMAIN Syntax /\ Syntax[u.words[1]].flag = u.flag
    /\ LET value == Syntax[u.words[1]].value IN
         \/ Len(u.words) = 1 /\ value # None /\ u.value = value
         \/ Len(u.words) = 1 /\ value = None /\ Kind[u.flag] = "bool" /\ u.value = "true"
         \/ Len(u.words) = 2 /\ value = None /\ Kind[u.flag] # "bool" /\ u.value = u.words[2]
LacksValue(w) == Syntax[w].value = None /\ Kind[Syntax[w].flag] # "bool"
SaysWord(u, last) ==
    /\ Len(u.words) = 1 /\ u.words[1] # "--"
    /\ u.words[1] \in DOMAIN Syntax /\ Syntax[u.words[1]].flag \in Flags => last /\ LacksValue(u.words[1])
SaysWhatItIs(u, last) ==
    /\ u.words \in Seq(STRING)
    /\ \/ u.is = "set" /\ SaysSet(u)
       \/ u.is = "word" /\ SaysWord(u, last)
       \/ u.is = "end" /\ u.words = <<"--">>

IsWorld(w) ==
    /\ w.units \in Seq(Range(w.units)) /\ w.dotenv \in Seq(Range(w.dotenv))
    /\ \A k \in DOMAIN w.units : SaysWhatItIs(w.units[k], k = Len(w.units))
    /\ "" \notin DOMAIN w.files
ASSUME WorldAssumption ==
    /\ "--" \notin DOMAIN Syntax
    /\ \A k \in DOMAIN Worlds : \A w \in Worlds[k] : IsWorld(w)

Init ==
    /\ \E k \in DOMAIN Worlds : world \in Worlds[k]
    /\ env = world.env
    /\ line = 1
    /\ pc = "dotenv"
    /\ d = [path |-> <<>>, rest |-> Words(world.units), last |-> None, vals |-> Default,
            explicit |-> {}, fromEnv |-> {}, fromConfig |-> {}, config |-> <<>>, version |-> FALSE]
    /\ exit = -1
    /\ said = {}

Exit(code, words) == pc' = "done" /\ exit' = code /\ said' = words
Go(next) == pc' = next /\ UNCHANGED <<exit, said>>

-----------------------------------------------------------------------------
(***************************************************************************)
(* LoadDotEnv, a line at a time.  "bad" is a line that is not KEY=VALUE,   *)
(* has a key with blanks or a value with a NUL (or a file that cannot be   *)
(* read); the caller gives up on the error.                                *)
(***************************************************************************)
Overrides(key) == FALSE
KeepsEnv(key) == key \in DOMAIN env

LoadDotEnv ==
    /\ pc = "dotenv"
    /\ line <= Len(world.dotenv)
    /\ LET l == world.dotenv[line] IN
         \/ /\ l.is = "blank"
            /\ UNCHANGED env /\ Go("dotenv")
         \/ /\ l.is = "bad"
            /\ UNCHANGED env /\ Exit(2, {})
         \/ /\ l.is = "pair"
            /\ env' = IF KeepsEnv(l.key) THEN env ELSE Over(Just(l.key, l.value), env)
            /\ Go("dotenv")
    /\ line' = line + 1
    /\ UNCHANGED <<world, d>>

Execute ==
    /\ pc = "dotenv"
    /\ line > Len(world.dotenv)
    /\ Go("parse")
    /\ UNCHANGED <<world, env, line, d>>

-----------------------------------------------------------------------------
(***************************************************************************)
(* One level of execute's loop: the stdlib's Parse over the flags visible  *)
(* on the path, a flag at a time, then what the next word is.              *)
(***************************************************************************)
AtFlag == d.rest # <<>> /\ d.rest[1] \in DOMAIN Syntax
AutoVersion(f) == HasVersion /\ d.path = <<>> /\ f = "version"

sanitizeParseError(f, v) == IF f \in secrets(d.path) THEN {} ELSE {<<f, v>>}

(* Value.Set on flag f, having read n words. *)
ParseSet(f, v, n) ==
    IF Accepts(f, v)
    THEN /\ d' = [d EXCEPT !.vals[f] = v, !.explicit = @ \cup {f},
                           !.last = d.rest[n], !.rest = SubSeq(@, n + 1, Len(@))]
         /\ Go("parse")
    ELSE UNCHANGED d /\ Exit(2, sanitizeParseError(f, v))

ParseFlag ==
    /\ pc = "parse"
    /\ AtFlag
    /\ LET w == Syntax[d.rest[1]]
           f == w.flag
           known == f \in visible(d.path)
       IN  \/ /\ known /\ Kind[f] = "bool"
              /\ ParseSet(f, IF w.value = None THEN "true" ELSE w.value, 1)
           \/ /\ known /\ Kind[f] # "bool" /\ w.value # None
              /\ ParseSet(f, w.value, 1)
           \/ /\ known /\ Kind[f] # "bool" /\ w.value = None
              /\ IF Len(d.rest) > 1 THEN ParseSet(f, d.rest[2], 2) ELSE UNCHANGED d /\ Exit(2, {})
           \/ /\ ~known /\ AutoVersion(f) /\ w.value \in {None, "true", "false"}
              /\ d' = [d EXCEPT !.version = w.value # "false", !.last = d.rest[1], !.rest = Tail(@)]
              /\ Go("parse")
           \/ /\ ~known /\ AutoVersion(f) /\ w.value \notin {None, "true", "false"}
              /\ Exit(2, {<<f, w.value>>})
              /\ UNCHANGED d
           \/ /\ ~known /\ ~AutoVersion(f)
              /\ Exit(IF f = "help" THEN 0 ELSE 2, {})
              /\ UNCHANGED d
    /\ UNCHANGED <<world, env, line>>

(***************************************************************************)
(* Parse is over.  The loop takes the last word it consumed for the        *)
(* terminator when it is "--", even when that word was a flag's value.     *)
(***************************************************************************)
NeverTerminated(last) == FALSE
Terminated(last) == last = "--"

Dispatch ==
    /\ pc = "parse"
    /\ ~AtFlag
    /\ LET ends == d.rest # <<>> /\ d.rest[1] = "--"
           rest == IF ends THEN Tail(d.rest) ELSE d.rest
           stays == rest = <<>> \/ Terminated(IF ends THEN "--" ELSE d.last)
           word == rest[1]
           offers(w) == /\ d.path = <<>> /\ Tree # {<<>>}
                        /\ w = "help" \/ (HasVersion /\ w = "version")
       IN  \/ /\ d.version
              /\ Exit(0, {}) /\ UNCHANGED d
           \/ /\ ~d.version /\ stays
              /\ d' = [d EXCEPT !.rest = rest]
              /\ Go("chosen")
           \/ /\ ~d.version /\ ~stays /\ findCommand(d.path, word)
              /\ d' = [d EXCEPT !.path = Append(@, word), !.rest = Tail(rest), !.last = None]
              /\ Go("parse")
           \/ /\ ~d.version /\ ~stays /\ ~findCommand(d.path, word) /\ offers(word) /\ word = "help"
              /\ Exit(IF Tail(rest) \in Tree THEN 0 ELSE 2, {}) /\ UNCHANGED d
           \/ /\ ~d.version /\ ~stays /\ ~findCommand(d.path, word) /\ offers(word) /\ word = "version"
              /\ Exit(0, {}) /\ UNCHANGED d
           \/ /\ ~d.version /\ ~stays /\ ~findCommand(d.path, word) /\ ~offers(word)
              /\ d' = [d EXCEPT !.rest = rest]
              /\ Go("chosen")
    /\ UNCHANGED <<world, env, line>>

(* The resolved command: with no Run, leftover words are an unknown command. *)
Chosen ==
    /\ pc = "chosen"
    /\ IF d.path \in Runs THEN Go("env") ELSE Exit(IF d.rest = <<>> THEN 0 ELSE 2, {})
    /\ UNCHANGED <<world, env, line, d>>

-----------------------------------------------------------------------------
(***************************************************************************)
(* resolve: the environment and *_FILE, the config file, what is required. *)
(***************************************************************************)
envName(f) == IF EnvPrefix = "" THEN EnvKey[f] ELSE EnvPrefix \o "_" \o EnvKey[f]
envFile(f) == envName(f) \o "_FILE"
setValueErrorVerbatim(f, v) == {<<f, v>>}
setValueError(f, v) == IF f \in SecretFlags THEN {} ELSE {<<f, v>>}

Readable(file) == file \in DOMAIN world.files /\ world.files[file].is # "unreadable"

(* setFromEnv, on one flag; a file's text is what is left without its last newlines. *)
setFromEnv(f) ==
    LET plain == envName(f) \in DOMAIN env
        indirect == envFile(f) \in DOMAIN env
        result(ok, set, v, words) == [ok |-> ok, set |-> set, value |-> v, said |-> words]
        give(v) == IF Accepts(f, v) THEN result(TRUE, TRUE, v, {})
                   ELSE result(FALSE, FALSE, None, setValueError(f, v))
    IN  CASE plain /\ indirect -> result(FALSE, FALSE, None, {})
          [] ~plain /\ indirect ->
                IF Readable(env[envFile(f)]) THEN give(world.files[env[envFile(f)]].text)
                ELSE result(FALSE, FALSE, None, {})
          [] plain /\ ~indirect -> give(env[envName(f)])
          [] ~plain /\ ~indirect -> result(TRUE, FALSE, None, {})

ResolveEnv ==
    /\ pc = "env"
    /\ LET left == visible(d.path) \ d.explicit
           got == [f \in left |-> setFromEnv(f)]
           set == {f \in left : got[f].set}
       IN  \/ /\ \A f \in left : got[f].ok
              /\ d' = [d EXCEPT !.vals = Over([f \in set |-> got[f].value], @), !.fromEnv = set]
              /\ Go("config")
           \/ \E f \in left : ~got[f].ok /\ Exit(2, got[f].said) /\ UNCHANGED d
    /\ UNCHANGED <<world, env, line>>

(* decodeJSON: numbers and bools as text; anything else, null or a second value fails. *)
decodeJSON(file) ==
    LET pairs == IF file.is = "json" THEN file.pairs ELSE <<>>
    IN  [ok |-> file.is = "json" /\ \A k \in DOMAIN pairs : pairs[k].type \in {"string", "number", "bool"},
         values |-> [k \in DOMAIN pairs |-> pairs[k].text]]

SkipsMissing == TRUE
MaySkip == ConfigFlag \notin d.explicit \cup d.fromEnv

(* loadConfig: whatever is wrong with the file, the error names its path. *)
LoadConfig ==
    /\ pc = "config"
    /\ LET path == d.vals[ConfigFlag]
           missing == path \notin DOMAIN world.files
           decoded == decodeJSON(world.files[path])
           values(v) == d' = [d EXCEPT !.config = v] /\ Go("apply")
           fails == Exit(2, {<<ConfigFlag, path>>}) /\ UNCHANGED d
       IN  \/ /\ path = "" \/ (missing /\ MaySkip)
              /\ values(<<>>)
           \/ /\ path # "" /\ ~Readable(path) /\ ~(missing /\ MaySkip)
              /\ fails
           \/ /\ path # "" /\ Readable(path)
              /\ IF decoded.ok /\ ConfigFlag \notin DOMAIN decoded.values THEN values(decoded.values)
                 ELSE fails
    /\ UNCHANGED <<world, env, line>>

OverNone == {}
OverConfig == d.explicit \cup d.fromEnv

ApplyConfig ==
    /\ pc = "apply"
    /\ LET left == (visible(d.path) \ OverConfig) \cap DOMAIN d.config
           bad == {f \in left : ~Accepts(f, d.config[f])}
       IN  \/ /\ bad = {}
              /\ d' = [d EXCEPT !.vals = Over([f \in left |-> d.config[f]], @), !.fromConfig = left]
              /\ Go("required")
           \/ \E f \in bad : Exit(2, setValueError(f, d.config[f])) /\ UNCHANGED d
    /\ UNCHANGED <<world, env, line>>

Supplied == d.explicit \cup d.fromEnv \cup d.fromConfig

CheckRequired ==
    /\ pc = "required"
    /\ IF visible(d.path) \cap RequiredFlags \subseteq Supplied THEN Go("run") ELSE Exit(2, {})
    /\ UNCHANGED <<world, env, line, d>>

-----------------------------------------------------------------------------
(***************************************************************************)
(* What the inputs ask for, read off the units of the command line and     *)
(* the layers as they were given.                                          *)
(***************************************************************************)
NothingRead == [path |-> <<>>, set |-> <<>>, operands |-> <<>>, open |-> TRUE]
ReadUnit(st, u) ==
    CASE st.open /\ u.is = "word" /\ findCommand(st.path, u.words[1]) ->
            [st EXCEPT !.path = Append(@, u.words[1])]
      [] st.open /\ u.is = "set" -> [st EXCEPT !.set = Over(Just(u.flag, u.value), @)]
      [] st.open /\ u.is = "end" -> [st EXCEPT !.open = FALSE]
      [] OTHER -> [st EXCEPT !.open = FALSE, !.operands = @ \o u.words]
ReadLine(units) ==
    LET after[k \in 0..Len(units)] == IF k = 0 THEN NothingRead ELSE ReadUnit(after[k - 1], units[k])
    IN  after[Len(units)]
RefLine == ReadLine(world.units)

(* The environment with the dotenv file under it: the first line for a key counts. *)
UnderEnv(given, dotenv) ==
    LET pairs == {k \in DOMAIN dotenv : dotenv[k].is = "pair"}
        first(key) == Min({k \in pairs : dotenv[k].key = key})
    IN  Over(given, [key \in {dotenv[k].key : k \in pairs} |-> dotenv[first(key)].value])
RefEnv == UnderEnv(world.env, world.dotenv)

RefLayer(f, conf) ==
    CASE f \in DOMAIN RefLine.set -> "flag"
      [] f \notin DOMAIN RefLine.set /\ envName(f) \in DOMAIN RefEnv -> "env"
      [] f \notin DOMAIN RefLine.set /\ envName(f) \notin DOMAIN RefEnv /\ envFile(f) \in DOMAIN RefEnv -> "file"
      [] OTHER -> IF f \in DOMAIN conf THEN "config" ELSE "default"

RefValue(f, conf) ==
    LET layer == RefLayer(f, conf) IN
    CASE layer = "flag" -> RefLine.set[f]
      [] layer = "env" -> RefEnv[envName(f)]
      [] layer = "file" -> world.files[RefEnv[envFile(f)]].text
      [] layer = "config" -> conf[f].text
      [] layer = "default" -> Default[f]

ConfigPath == RefValue(ConfigFlag, <<>>)
RefConfig == IF ConfigPath \in DOMAIN world.files THEN world.files[ConfigPath].pairs ELSE <<>>

Started == pc \in {"run", "migrate", "create", "half", "ran", "crashed"}

(* No command hangs below one that runs. *)
LeavesRun == \A q \in Tree : q # <<>> => Front(q) \notin Runs

(* The words that reach Run are those the command line was written for: the path, the flags and the   *)
(* operands, with nothing after the terminator taken for a command (cli.go:64, README line 104).      *)
LineIsRead ==
    Started => /\ d.path = RefLine.path
               /\ d.explicit = DOMAIN RefLine.set
               /\ d.rest = RefLine.operands

(* Run sees, of every visible flag, the value of its first layer in the order flag, environment,      *)
(* _FILE, config file, default; the real environment over the dotenv file (dispatch.go:83).           *)
LayersInOrder ==
    Started => \A f \in visible(d.path) : d.vals[f] = RefValue(f, RefConfig)

(* What Run works on is what the operator wrote, by the command line's grammar and the layers'        *)
(* precedence (cli.go:64, dispatch.go:83).                                                            *)
InputsReachRun == LineIsRead /\ LayersInOrder

(* Nothing ambiguous or missing reaches Run: no flag with both a variable and its _FILE, no config    *)
(* path asked for but absent or setting itself, no broken dotenv line, nothing required left to its   *)
(* default (dispatch.go:83, config.go:40, README lines 174-176).                                      *)
OnlyCleanInputsRun ==
    Started =>
        /\ \A f \in visible(d.path) \ DOMAIN RefLine.set :
             ~({envName(f), envFile(f)} \subseteq DOMAIN RefEnv)
        /\ RefLayer(ConfigFlag, <<>>) # "default" => ConfigPath \in DOMAIN world.files \cup {""}
        /\ ConfigFlag \notin DOMAIN RefConfig
        /\ \A f \in visible(d.path) \cap RequiredFlags : RefLayer(f, RefConfig) # "default"
        /\ \A k \in DOMAIN world.dotenv : world.dotenv[k].is # "bad"

(* No error message carries the value of a secret flag, whatever layer it came from (dispatch.go:165, *)
(* cli.go:175, README line 175).                                                                      *)
SecretsUnsaid == \A f \in SecretFlags : \A w \in said : w[1] # f

(* A bad input stops the process before Run and is reported without its secrets (dispatch.go:83).     *)
FailsClosed == OnlyCleanInputsRun /\ SecretsUnsaid

CliTypeOK ==
    /\ pc \in {"dotenv", "parse", "chosen", "env", "config", "apply", "required", "done"} \/ Started
    /\ d.path \in Tree
    /\ d.explicit \subseteq visible(d.path)
    /\ d.fromEnv \subseteq visible(d.path) \ d.explicit
    /\ d.fromConfig \subseteq visible(d.path) \ (d.explicit \cup d.fromEnv)
    /\ \A f \in Flags : Accepts(f, d.vals[f])
    /\ exit \in -1..2
=============================================================================
