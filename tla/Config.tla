------------------------------- MODULE Config -------------------------------
(***************************************************************************)
(* The configuration of the two programs, parseFlags of cmd/agent and of   *)
(* cmd/server: four layers, the defaults, a JSON file, the environment and *)
(* the command line, read by three libraries and a scan of os.Args by hand.*)
(*                                                                         *)
(* Texts are opaque; what the libraries make of a text is given by the     *)
(* tables AsInt, AsSeconds, AsBool and Prefixed.                           *)
(***************************************************************************)
EXTENDS Integers, Sequences, FiniteSetsExt

CONSTANTS
    AsInt,       \* strconv.ParseInt of each text, Invalid where it is an error
    AsSeconds,   \* time.ParseDuration in whole seconds, Invalid where it is an error
    AsBool,      \* strconv.ParseBool, Invalid where it is an error
    Prefixed,    \* "http://" before each text that has no scheme
    Dashed,      \* the text of an argument with dashes, taken as a value
    Second,      \* time.Second, in the unit of time.Duration
    Half,        \* 2^(w-1), for the w bits of int64, of a flag and of time.Duration
    Invalid,
    Unset,       \* no such variable in the environment, no value after "="
    Unreadable,  \* a configuration file that is missing or is not the JSON expected
    Exit         \* the program ends in parseFlags

Texts == DOMAIN AsInt

\* What the tables say of the texts that are written in the code, and of the empty one.
ASSUME TableAssumption ==
    /\ Invalid \notin Int \cup BOOLEAN /\ Unset \notin Texts
    /\ AsInt \in [Texts -> Int \cup {Invalid}] /\ AsInt[""] = Invalid /\ AsInt["1"] = 1
    /\ AsSeconds \in [Texts -> Int \cup {Invalid}]
    /\ AsBool \in [Texts -> BOOLEAN \cup {Invalid}] /\ AsBool[""] = Invalid
    /\ AsBool["true"] = TRUE /\ AsBool["false"] = FALSE
    /\ {"", "1", "2s", "10s", "true", "false", Dashed} \subseteq Texts

\* The numbers a text can give are machine words, the durations are a time.Duration, and
\* so are the defaults.
ASSUME WordAssumption ==
    /\ Second \in Nat \ {0} /\ Half \in Nat /\ 300 * Second < Half
    /\ \A t \in Texts :
         /\ AsInt[t] # Invalid => AsInt[t] >= -Half /\ AsInt[t] < Half
         /\ AsSeconds[t] # Invalid => AsSeconds[t] * Second < Half

----------------------------------------------------------------------------
(* Package flag, as both programs use it.                                  *)

\* An argument of the command line: a word (no dash), -name or --name, with
\* or without "=value".
Arg == {a \in [dashes : 0 .. 2, name : STRING, value : Texts \cup {Unset}] :
          a.dashes = 0 => a.value # Unset}

Text(a) == IF a.dashes = 0 THEN a.value ELSE Dashed

Accepts(kind, text) ==
    /\ kind = "int" => AsInt[text] # Invalid
    /\ kind = "bool" => AsBool[text] # Invalid

\* "--", after which every argument is left over.
Terminator == [dashes |-> 2, name |-> "", value |-> Unset]

\* A value for a flag that has none yet.
Otherwise(flags, n, value) ==
    [m \in DOMAIN flags \cup {n} |-> IF m \in DOMAIN flags THEN flags[m] ELSE value]

\* flag.Parse: a boolean flag takes no separate value, any other takes the next
\* argument, whatever it looks like; the last value counts.  An unknown flag (-h too,
\* which asks for help), a missing or wrong value end the program, and so does an
\* argument left over, in parseFlags.
ParseArgs(args, kinds) ==
    LET parse[i \in 1 .. Len(args) + 2] ==
          IF i > Len(args) \/ (i = Len(args) /\ args[i] = Terminator) THEN << >>
          ELSE LET a == args[i]
                   takesNext == a.value = Unset /\ kinds[a.name] # "bool"
                   value == IF takesNext THEN Text(args[i + 1])
                            ELSE IF a.value = Unset THEN "true" ELSE a.value
                   rest == parse[IF takesNext THEN i + 2 ELSE i + 1]
               IN  IF \/ a.dashes = 0 \/ a.name \notin DOMAIN kinds
                      \/ (takesNext /\ i = Len(args))
                      \/ ~Accepts(kinds[a.name], value)
                      \/ rest = Exit
                     THEN Exit
                     ELSE Otherwise(rest, a.name, value)
    IN  parse[1]

AgentFlags == [n \in {"a", "r", "p", "k", "l", "crypto-key", "config", "c"} |->
                 IF n \in {"r", "p", "l"} THEN "int" ELSE "string"]

ServerFlags == [n \in {"a", "i", "f", "r", "d", "k", "audit-file", "audit-url",
                       "crypto-key", "config", "c"} |->
                  IF n = "i" THEN "int" ELSE IF n = "r" THEN "bool" ELSE "string"]

\* findConfigPathInArgs: the first -c or -config, with one dash, wherever it stands.
FindConfigPath(args) ==
    LET found == {i \in DOMAIN args :
                    /\ args[i].dashes = 1 /\ args[i].name \in {"c", "config"}
                    /\ args[i].value # Unset \/ i < Len(args)}
        first == args[Min(found)]
    IN  CASE found = {} -> ""
          [] found # {} /\ first.value # Unset -> first.value
          [] OTHER -> Text(args[Min(found) + 1])

\* The value of a variable; one that is not set reads as empty.
Getenv(env, k) == IF env[k] = Unset THEN "" ELSE env[k]

ConfigPath(env, args) ==
    IF FindConfigPath(args) # "" THEN FindConfigPath(args) ELSE Getenv(env, "config")

\* A file given by the path; no path is no file, with no key in it.
Open(files, path) ==
    IF path = "" THEN << >> ELSE IF path \in DOMAIN files THEN files[path] ELSE Unreadable

\* The value a flag was given, or what the other layers say.
FlagOr(flags, n, other) == IF n \in DOMAIN flags THEN flags[n] ELSE other

FlagIntOr(flags, n, other) == IF n \in DOMAIN flags THEN AsInt[flags[n]] ELSE other

\* time.Duration(n) * time.Second: an int64 product, which wraps around silently.
Duration(n) == ((n * Second + Half) % (2 * Half)) - Half

----------------------------------------------------------------------------
(* cmd/agent/flags.go                                                      *)

AgentDefaults ==
    [address |-> "http://localhost:8080", report_interval |-> "10s",
     poll_interval |-> "2s", rate_limit |-> "1", key |-> "", crypto_key |-> ""]

\* agentConfig{}, returned with an error.
ZeroConfig == [k \in DOMAIN AgentDefaults |-> ""]

\* An integer field of the weakly typed Unmarshal: an empty text is 0.
WeakInt(text) == IF text = "" THEN 0 ELSE AsInt[text]

\* Mutant: the file is asked before the environment.
LoadAgentConfig_FileFirst(env, files, args) ==
    LET file == Open(files, ConfigPath(env, args))
        value == [k \in DOMAIN AgentDefaults |->
                    IF k \in DOMAIN file THEN file[k]
                    ELSE IF Getenv(env, k) # "" THEN env[k] ELSE AgentDefaults[k]]
    IN  IF file = Unreadable \/ WeakInt(value.rate_limit) = Invalid
          THEN ZeroConfig ELSE value

\* Viper: a variable that is set and not empty, else the file, else the default;
\* any error loses them all.
LoadAgentConfig(env, files, args) ==
    LET file == Open(files, ConfigPath(env, args))
        value == [k \in DOMAIN AgentDefaults |->
                    IF Getenv(env, k) # "" THEN env[k]
                    ELSE IF k \in DOMAIN file THEN file[k] ELSE AgentDefaults[k]]
    IN  IF file = Unreadable \/ WeakInt(value.rate_limit) = Invalid
          THEN ZeroConfig ELSE value

\* Mutant: a duration of no whole second is taken.
SecondsOr_TakesZero(text, def) ==
    IF text # "" /\ AsSeconds[text] # Invalid THEN AsSeconds[text]
    ELSE IF text # "" /\ AsInt[text] # Invalid /\ AsInt[text] > 0 THEN AsInt[text]
    ELSE def

\* parseDurationToSeconds(s, def) of the agent.
SecondsOr(text, def) ==
    IF text # "" /\ AsSeconds[text] # Invalid /\ AsSeconds[text] > 0 THEN AsSeconds[text]
    ELSE IF text # "" /\ AsInt[text] # Invalid /\ AsInt[text] > 0 THEN AsInt[text]
    ELSE def

Url(text) == IF text \in DOMAIN Prefixed THEN Prefixed[text] ELSE text

AtLeastOne(n) == IF n <= 0 THEN 1 ELSE n

AgentConfig(env, files, args) ==
    LET cfg == LoadAgentConfig(env, files, args)
        flags == ParseArgs(args, AgentFlags)
    IN  IF flags = Exit THEN Exit
        ELSE [address |-> Url(FlagOr(flags, "a", cfg.address)),
              report  |-> FlagIntOr(flags, "r", SecondsOr(cfg.report_interval, 10)),
              poll    |-> FlagIntOr(flags, "p", SecondsOr(cfg.poll_interval, 2)),
              key     |-> FlagOr(flags, "k", cfg.key),
              rate    |-> AtLeastOne(FlagIntOr(flags, "l", WeakInt(cfg.rate_limit))),
              crypto  |-> FlagOr(flags, "crypto-key", cfg.crypto_key)]

----------------------------------------------------------------------------
(* cmd/server/flags.go                                                     *)

\* env.Parse, its error ignored: a text that is no number or boolean leaves zero.
EnvInt(text) == IF text = "" \/ AsInt[text] = Invalid THEN 0 ELSE AsInt[text]
EnvBool(text) == IF text = "" \/ AsBool[text] = Invalid THEN FALSE ELSE AsBool[text]

\* parseDurationToSeconds(s) of the server; zero is not taken over.
FileSeconds(text, def) ==
    IF text # "" /\ AsSeconds[text] # Invalid /\ AsSeconds[text] > 0 THEN AsSeconds[text]
    ELSE def

ServerConfig(env, files, args) ==
    LET opened == Open(files, ConfigPath(env, args))
        file == IF opened = Unreadable THEN << >> ELSE opened
        inFile(k) == IF k \in DOMAIN file THEN file[k] ELSE ""
        layered(k, def) == IF Getenv(env, k) # "" THEN env[k]
                           ELSE IF inFile(k) # "" THEN inFile(k) ELSE def
        interval == IF Getenv(env, "store_interval") # "" THEN EnvInt(env["store_interval"])
                    ELSE FileSeconds(inFile("store_interval"), 300)
        restore == IF env["restore"] # Unset THEN EnvBool(env["restore"])
                   ELSE IF inFile("restore") # "" THEN AsBool[inFile("restore")] ELSE FALSE
        flags == ParseArgs(args, ServerFlags)
    IN  IF flags = Exit THEN Exit
        ELSE [address   |-> FlagOr(flags, "a", layered("address", ":8080")),
              interval  |-> FlagIntOr(flags, "i", interval),
              file      |-> FlagOr(flags, "f", layered("store_file", "/tmp/metrics-db.json")),
              restore   |-> IF "r" \in DOMAIN flags THEN AsBool[flags["r"]] ELSE restore,
              dsn       |-> FlagOr(flags, "d", layered("database_dsn", "")),
              key       |-> FlagOr(flags, "k", Getenv(env, "key")),
              auditFile |-> FlagOr(flags, "audit-file", Getenv(env, "audit_file")),
              auditURL  |-> FlagOr(flags, "audit-url", Getenv(env, "audit_url")),
              crypto    |-> FlagOr(flags, "crypto-key", layered("crypto_key", ""))]
=============================================================================
