----------------------------- MODULE MCExchange -----------------------------
(***************************************************************************)
(* Model checking of Exchange: what the two programs are started with, and *)
(* what the libraries make of these texts.                                 *)
(***************************************************************************)
EXTENDS Exchange, TLC

Numbers == {"-1", "0", "1", "5", "600"}
Durations == {"2s", "7s", "10s", "500ms"}
Booleans == {"true", "false"}
Addresses == {"localhost:8080", "http://localhost:8080", ":8080", "http://", "h:1", "http://h:1"}
Others == {"", "x", "-x", "k1", "k2", "cfg", "gone", "pub", "priv", "ec", "dsn",
           "/tmp/metrics-db.json", "log", "url"}

\* 600 seconds are more than time.Duration holds (Second = 4, Half = 2048).
IntOf == [t \in Numbers |->
            CASE t = "-1" -> -1 [] t = "0" -> 0 [] t = "1" -> 1 [] t = "5" -> 5 [] OTHER -> 600]
SecondsOf == [t \in Durations |->
                CASE t = "2s" -> 2 [] t = "7s" -> 7 [] t = "10s" -> 10 [] OTHER -> 0]

\* strconv.ParseInt, time.ParseDuration ("0" is a duration too), strconv.ParseBool.
MCAsInt == [t \in Numbers \cup Durations \cup Booleans \cup Addresses \cup Others |->
              IF t \in Numbers THEN IntOf[t] ELSE Invalid]
MCAsSeconds == [t \in DOMAIN MCAsInt |->
                  IF t \in Durations THEN SecondsOf[t] ELSE IF t = "0" THEN 0 ELSE Invalid]
MCAsBool == [t \in DOMAIN MCAsInt |->
               IF t \in Booleans THEN t = "true"
               ELSE IF t \in {"0", "1"} THEN t = "1" ELSE Invalid]
MCPrefixed == [t \in DOMAIN MCAsInt \ {"http://localhost:8080", "http://", "http://h:1"} |->
                 CASE t \in {"localhost:8080", ":8080"} -> "http://localhost:8080"
                   [] t = "h:1" -> "http://h:1"
                   [] OTHER -> "http://"]
MCHostOf == [t \in DOMAIN MCAsInt |->
               CASE t \in {":8080", "localhost:8080", "http://localhost:8080"} -> "a"
                 [] t \in {"h:1", "http://h:1"} -> "b"
                 [] OTHER -> None]

MCKeyFiles == [p \in {"pub", "priv", "ec"} |->
                 CASE p = "pub"  -> [block |-> "PUBLIC KEY", alg |-> "RSA", pair |-> "K"]
                   [] p = "priv" -> [block |-> "PRIVATE KEY", alg |-> "RSA", pair |-> "K"]
                   [] OTHER      -> [block |-> "PUBLIC KEY", alg |-> "EC", pair |-> "E"]]

\* Which request and which writer it is makes no difference.
Symmetry == Permutations(Requests) \cup Permutations(Writers)

----------------------------------------------------------------------------
Variables == {"address", "report_interval", "poll_interval", "key", "rate_limit", "crypto_key",
              "store_interval", "store_file", "restore", "database_dsn", "audit_file",
              "audit_url", "config"}

\* An environment, from the functions it is made of.
Env(f) == [k \in Variables |-> IF k \in DOMAIN f THEN f[k] ELSE Unset]

\* A function that may leave each of its keys out.
Partial(keys, values) ==
    UNION {[ks -> values] : ks \in SUBSET keys}

Option(dashes, name, value) == <<[dashes |-> dashes, name |-> name, value |-> value]>>
Word(value) == Option(0, "", value)
Double == Option(2, "", Unset)
Separate(name, value) == Option(1, name, Unset) \o Word(value)

\* Command lines of up to two options of a set.
Lines(options) == {<< >>} \cup options \cup {o \o p : o, p \in options}

Inputs(envs, contents, lines) ==
    {[env |-> e, files |-> [p \in {"cfg"} |-> f], args |-> a] :
       e \in {Env(v) : v \in envs}, f \in contents, a \in lines}

\* How the path of the file may be given, and how it may not.
PathOptions == {Separate("c", "cfg"), Option(1, "config", "gone"), Option(2, "config", "cfg")}

\* The layers of the keys and the file; the layers of the intervals.
AgentKeyInputs ==
    Inputs({[config |-> c] @@ f : c \in {Unset, "cfg"},
              f \in Partial({"key"}, {"k1", ""}) \cup Partial({"crypto_key"}, {"pub", "ec"})},
           Partial({"key"}, {"k2"}) \cup {[crypto_key |-> "pub"], [rate_limit |-> "x"], Unreadable},
           Lines(PathOptions \cup {Separate("k", "k1"), Option(1, "k", ""), Option(1, "k", Unset),
                                   Option(1, "crypto-key", "pub"), Option(2, "l", "x")}))
AgentIntervalInputs ==
    Inputs({[config |-> "cfg"] @@ f :
              f \in Partial({"report_interval"}, {"0", "5", "7s", "500ms", "x", "600"})
                    \cup Partial({"rate_limit", "address"}, {"0", "-1", ""})
                    \cup Partial({"poll_interval"}, {"", "7s"})},
           {[report_interval |-> t] : t \in {"5", "7s", "x", "600"}}
             \cup {[address |-> t] : t \in {"h:1", ""}}
             \cup {[rate_limit |-> ""], [poll_interval |-> "5"], << >>},
           Lines({Separate("r", "0"), Option(1, "r", "5"), Option(1, "r", "600"),
                  Option(1, "p", "-1"), Separate("l", "0"), Separate("a", ":8080"),
                  Word("x"), Double}))
MCAgentInputs == AgentKeyInputs \cup AgentIntervalInputs

ServerKeyInputs ==
    Inputs({[config |-> c] @@ f : c \in {Unset, "cfg"},
              f \in Partial({"key"}, {"k1", ""}) \cup Partial({"crypto_key"}, {"priv", "gone"})},
           {[crypto_key |-> "priv"], << >>, Unreadable},
           Lines(PathOptions \cup {Separate("k", "k2"), Option(1, "k", ""),
                                   Option(1, "crypto-key", "priv"), Separate("d", "dsn")}))
ServerIntervalInputs ==
    Inputs({[config |-> "cfg"] @@ f :
              f \in Partial({"store_interval"}, {"5", "7s", "", "600"})
                    \cup Partial({"restore"}, {"true", "x", "", "0"})
                    \cup Partial({"address"}, {"h:1"})
                    \cup Partial({"audit_file", "audit_url"}, {"log", ""})},
           {[store_interval |-> t] : t \in {"5", "7s", "500ms", ""}}
             \cup {[restore |-> t] : t \in Booleans} \cup {[address |-> t] : t \in {"", "h:1"}},
           Lines({Option(1, "r", Unset), Option(2, "r", "false"), Separate("r", "true"),
                  Separate("i", "0"), Option(1, "i", "600"), Separate("a", ":8080"),
                  Option(1, "audit-url", "url"), Option(1, "f", ""), Double}))
MCServerInputs == ServerKeyInputs \cup ServerIntervalInputs
=============================================================================
