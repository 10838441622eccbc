------------------------------ MODULE Exchange ------------------------------
(***************************************************************************)
(* One agent and one server from their command lines to the answers: both  *)
(* programs are configured (Config) and start, or not; clients send        *)
(* requests, encoded as the agent and other clients encode them; the       *)
(* request is damaged on its way, or not; the server takes it through its  *)
(* chain of middleware.  What storing a metric does is in Handlers.        *)
(***************************************************************************)
EXTENDS Config

CONSTANTS
    Requests,     \* the requests of a run
    Writers,      \* the gzip writers gzipPool may create
    None,
    KeyFiles,     \* path -> [block, alg, pair] of each PEM file
    HostOf,       \* where a server address listens or an agent's URL leads, None if nowhere
    AgentInputs,  \* what the agent may be started with: records [env, files, args]
    ServerInputs

ASSUME ExchangeAssumption == None \notin Requests \cup Writers \cup Texts

\* Every variable, every value of a file and every argument is a text; "restore" is a
\* boolean of the JSON file of the server.
ASSUME InputAssumption ==
    \A in \in AgentInputs \cup ServerInputs :
      /\ in.args \in Seq(Arg)
      /\ \A k \in DOMAIN AgentDefaults
                \cup {"restore", "store_file", "store_interval", "database_dsn",
                      "audit_file", "audit_url", "config"} :
           in.env[k] \in Texts \cup {Unset}
      /\ \A p \in DOMAIN in.files : in.files[p] # Unreadable =>
           \A k \in DOMAIN in.files[p] :
             /\ in.files[p][k] \in Texts
             /\ k = "restore" => in.files[p][k] \in {"true", "false"}

VARIABLES
    agentPC, agent,    \* one of Stages, and its configuration
    serverPC, server,
    input,        \* history: what the program just started was started with
    req,          \* request -> stage, message, answer
    received,     \* history: request -> whose answers were written to its connection
    pool,         \* gzipPool: the idle writers
    target        \* writer -> the request whose connection it writes to, or None

procVars == <<agentPC, agent, serverPC, server, input>>
httpVars == <<req, received, pool, target>>
vars == <<procVars, httpVars>>

Stages == {"start", "parsed", "up", "failed", "panicked"}
Kinds == {"metric", "batch", "plain", "signed", "value"}
Damages == {"no", "changed", "garbled", "cut"}

\* A request before it is sent, and after the server is done with it.
Fresh == [stage |-> "idle", kind |-> "plain", gzip |-> FALSE, pub |-> None, mac |-> None,
          accepts |-> FALSE, damage |-> "no", writer |-> None, status |-> "none"]

TypeOK ==
    /\ agentPC \in Stages /\ serverPC \in Stages
    /\ \A r \in Requests :
         /\ DOMAIN req[r] = DOMAIN Fresh
         /\ req[r].stage \in {"idle", "sent", "chain", "answered", "flushed", "done"}
         /\ req[r].kind \in Kinds /\ req[r].damage \in Damages
         /\ req[r].status \in {"none", "200", "400", "500"}
         /\ req[r].writer \in Writers \cup {None}
         /\ req[r].writer = None => req[r].stage \notin {"flushed"}
         /\ req[r].writer # None => req[r].accepts /\ req[r].writer \notin pool
    /\ received \in [Requests -> SUBSET Requests]
    /\ pool \subseteq Writers
    /\ target \in [Writers -> Requests \cup {None}]

Init ==
    /\ agentPC = "start" /\ agent = None /\ serverPC = "start" /\ server = None
    /\ input = None
    /\ req = [r \in Requests |-> Fresh] /\ received = [r \in Requests |-> {}]
    /\ pool = {} /\ target = [w \in Writers |-> None]

----------------------------------------------------------------------------
(* Starting the programs.                                                  *)

\* LoadPublicKeyFromFile, LoadPrivateKeyFromFile: the first PEM block decides.
Load(path, blocks) ==
    IF /\ path \in DOMAIN KeyFiles
       /\ KeyFiles[path].block \in blocks /\ KeyFiles[path].alg = "RSA"
      THEN KeyFiles[path].pair ELSE None

LoadPublicKey(path) == Load(path, {"PUBLIC KEY", "RSA PUBLIC KEY"})
LoadPrivateKey(path) == Load(path, {"RSA PRIVATE KEY", "PRIVATE KEY"})

\* parseFlags of the agent, called by main.
ParseAgent ==
    /\ agentPC = "start"
    /\ \E in \in AgentInputs :
         LET config == AgentConfig(in.env, in.files, in.args)
         IN  IF config = Exit
               THEN agentPC' = "failed" /\ UNCHANGED <<agent, input>>
               ELSE agentPC' = "parsed" /\ agent' = config /\ input' = in
    /\ UNCHANGED <<serverPC, server, httpVars>>

\* time.NewTicker panics on a duration that is not positive.
Panics(seconds) == Duration(seconds) <= 0

\* The key file is loaded, log.Fatalf if it cannot be; then the two tickers are made.
StartAgent ==
    LET pub == IF agent.crypto = "" THEN None ELSE LoadPublicKey(agent.crypto)
        loaded == agent.crypto = "" \/ pub # None
        panics == Panics(agent.report) \/ Panics(agent.poll)
    IN  /\ agentPC = "parsed"
        /\ agentPC' = IF ~loaded THEN "failed" ELSE IF panics THEN "panicked" ELSE "up"
        /\ agent' = IF loaded /\ ~panics
                      THEN [address |-> agent.address, key |-> agent.key, pub |-> pub]
                      ELSE None
        /\ input' = None
        /\ UNCHANGED <<serverPC, server, httpVars>>

\* parseFlags of the server; here after the agent, for the two do not meet before.
ParseServer ==
    /\ agentPC \in {"up", "failed", "panicked"} /\ serverPC = "start"
    /\ \E in \in ServerInputs :
         LET config == ServerConfig(in.env, in.files, in.args)
         IN  IF config = Exit
               THEN serverPC' = "failed" /\ UNCHANGED <<server, input>>
               ELSE serverPC' = "parsed" /\ server' = config /\ input' = in
    /\ UNCHANGED <<agentPC, agent, httpVars>>

\* run: the key file, then initPostgres and RunMigrations, which may fail when there
\* is a DSN; without one the goroutine of PeriodicStore makes its ticker, if there are
\* an interval and a file, and its panic ends the program.
StartServer(dbReady) ==
    LET priv == IF server.crypto = "" THEN None ELSE LoadPrivateKey(server.crypto)
        loaded == (server.crypto = "" \/ priv # None) /\ dbReady
        panics == /\ server.dsn = "" /\ server.file # "" /\ server.interval > 0
                  /\ Panics(server.interval)
    IN  /\ serverPC = "parsed" /\ (server.dsn = "" => dbReady)
        /\ serverPC' = IF ~loaded THEN "failed" ELSE IF panics THEN "panicked" ELSE "up"
        /\ server' = IF loaded /\ ~panics
                       THEN [address |-> server.address, key |-> server.key, priv |-> priv]
                       ELSE None
        /\ input' = None
        /\ UNCHANGED <<agentPC, agent, httpVars>>

----------------------------------------------------------------------------
(* The clients.  A message says whether it is compressed, for which key it *)
(* is encrypted, which key signed it (HashSHA256), and the damage it takes  *)
(* on its way: none; changed to another text that parses; garbled from its  *)
(* first bytes on; or cut: the whole text, and then the connection breaks.  *)

Message(kind, gzip, pub, mac, accepts) ==
    [Fresh EXCEPT !.stage = "sent", !.kind = kind, !.gzip = gzip, !.pub = pub,
                  !.mac = mac, !.accepts = accepts]

Send(r, msg) ==
    /\ serverPC = "up" /\ req[r].stage = "idle"
    /\ \E d \in Damages : req' = [req EXCEPT ![r] = [msg EXCEPT !.damage = d]]
    /\ UNCHANGED <<procVars, received, pool, target>>

\* The agent's connections lead to this server.
Reaches == HostOf[agent.address] = HostOf[server.address] /\ HostOf[agent.address] # None

\* sendMetricJSON: compressed, encrypted and signed if the agent has the keys.  A
\* message that RSA-OAEP has no room for is an error, and is not sent.
SendMetric(r) ==
    /\ agentPC = "up" /\ serverPC = "up" /\ Reaches
    /\ Send(r, Message("metric", TRUE, agent.pub,
                       IF agent.key # "" THEN agent.key ELSE None, TRUE))

\* postJSONWithRetry: compressed, neither encrypted nor signed; the transport of Go
\* asks for a gzip answer by itself.
SendBatch(r) ==
    /\ agentPC = "up" /\ serverPC = "up" /\ Reaches
    /\ Send(r, Message("batch", TRUE, None, None, TRUE))

\* Any other client posts a JSON text as it is, perhaps signed, to /update; or to
\* /value, which is outside of the group.
SendPlain(r) ==
    /\ serverPC = "up"
    /\ \E accepts \in BOOLEAN :
         \/ Send(r, Message("plain", FALSE, None, None, accepts))
         \/ /\ server.key # ""
            /\ Send(r, Message("signed", FALSE, None, server.key, accepts))
         \/ Send(r, Message("value", FALSE, None, None, accepts))

----------------------------------------------------------------------------
(* The chain of the server: gzipResponseMiddleware, and for /update and     *)
(* /updates DecryptRSA, gzipRequestMiddleware, ValidateHashSHA256.          *)

\* gzipResponseMiddleware on the way in: a client that asks for gzip is answered
\* through an idle writer of the pool, or a new one, reset to its connection.
Arrive(r) ==
    /\ req[r].stage = "sent"
    /\ IF req[r].accepts
         THEN \E w \in {v \in Writers : v \in pool \/ \A s \in Requests : req[s].writer # v} :
                /\ req' = [req EXCEPT ![r].stage = "chain", ![r].writer = w]
                /\ pool' = pool \ {w}
                /\ target' = [target EXCEPT ![w] = r]
         ELSE req' = [req EXCEPT ![r].stage = "chain"] /\ UNCHANGED <<pool, target>>
    /\ UNCHANGED <<procVars, received>>

\* DecryptRSA reads the whole body, so a broken connection shows; OAEP detects any
\* other damage.  "none": the request goes on.
DecryptRSA(q) ==
    IF server.priv = None THEN "none"
    ELSE IF q.damage = "cut" THEN "500"
    ELSE IF q.pub # server.priv \/ q.damage # "no" THEN "400" ELSE "none"

\* gzipRequestMiddleware: gzip.NewReader reads the header of the stream, which a body
\* still encrypted has not.
Gunzip(q) ==
    IF q.gzip /\ ((q.pub # None /\ server.priv = None) \/ q.damage = "garbled")
      THEN "400" ELSE "none"

\* Mutant: the signature is compared for its key only, the body is not read again.
CheckHash_KeyOnly(q) ==
    IF server.key = "" \/ q.mac = None \/ q.mac = server.key THEN "none" ELSE "400"

\* ValidateHashSHA256, with a key and a header: reading to the end meets the broken
\* connection, and the checksum of a gzip stream that was changed.
CheckHash(q) ==
    IF server.key = "" \/ q.mac = None THEN "none"
    ELSE IF q.damage = "cut" \/ (q.gzip /\ q.damage # "no") THEN "500"
    ELSE IF q.mac # server.key \/ q.damage # "no" THEN "400" ELSE "none"

\* Decode in the handlers stops at the end of the JSON value: it meets neither the
\* checksum of gzip nor the end of the body.
Decode(q) == IF q.damage = "garbled" THEN "400" ELSE "200"

\* Mutant: the signature is checked before the body is decrypted and decompressed.
Chain_HashFirst(q) ==
    IF q.kind # "value" /\ server.key # "" /\ q.mac # None /\ (q.gzip \/ q.mac # server.key)
      THEN "400"
    ELSE IF q.kind # "value" /\ DecryptRSA(q) # "none" THEN DecryptRSA(q)
    ELSE IF q.kind # "value" /\ Gunzip(q) # "none" THEN Gunzip(q)
    ELSE Decode(q)

\* The first that refuses the request answers it; /value is outside of the group.
Chain(q) ==
    LET group == IF q.kind = "value" THEN << >> ELSE <<DecryptRSA(q), Gunzip(q), CheckHash(q)>>
        refused == {i \in DOMAIN group : group[i] # "none"}
    IN  IF refused = {} THEN Decode(q) ELSE group[Min(refused)]

\* Bytes of the answer of r reach the connection c.
Write(r, c) ==
    IF c = None THEN UNCHANGED received
    ELSE received' = [received EXCEPT ![c] = @ \cup {r}]

Connection(r) == IF req[r].writer = None THEN r ELSE target[req[r].writer]

\* Mutant: the deferred function puts the writer back before it is closed.
Serve_PutsFirst(r) ==
    /\ req[r].stage = "chain"
    /\ req' = [req EXCEPT ![r].stage = "answered", ![r].status = Chain(req[r])]
    /\ Write(r, Connection(r))
    /\ pool' = IF req[r].writer = None THEN pool ELSE pool \cup {req[r].writer}
    /\ UNCHANGED <<procVars, target>>

\* The chain runs and the answer is written, through the gzip writer if there is one.
Serve(r) ==
    /\ req[r].stage = "chain"
    /\ req' = [req EXCEPT ![r].stage = "answered", ![r].status = Chain(req[r])]
    /\ Write(r, Connection(r))
    /\ UNCHANGED <<procVars, pool, target>>

\* The deferred Close, which writes the end of the stream (all of it, if nothing was
\* written before), and Reset to io.Discard.
Flush(r) ==
    /\ req[r].stage = "answered" /\ req[r].writer # None
    /\ Write(r, Connection(r))
    /\ req' = [req EXCEPT ![r].stage = "flushed"]
    /\ target' = [target EXCEPT ![req[r].writer] = None]
    /\ UNCHANGED <<procVars, pool>>

\* Mutant: the writer is put back and kept.
Release_Keeps(r) ==
    /\ req[r].stage = "flushed"
    /\ pool' = pool \cup {req[r].writer}
    /\ req' = [req EXCEPT ![r].stage = "done"]
    /\ UNCHANGED <<procVars, received, target>>

\* gzipPool.Put; the request is over, and forgotten.
Release(r) ==
    /\ req[r].stage = "flushed"
    /\ pool' = pool \cup {req[r].writer}
    /\ req' = [req EXCEPT ![r] = [Fresh EXCEPT !.stage = "done"]]
    /\ UNCHANGED <<procVars, received, target>>

Finish(r) ==
    /\ req[r].stage = "answered" /\ req[r].writer = None
    /\ req' = [req EXCEPT ![r] = [Fresh EXCEPT !.stage = "done"]]
    /\ UNCHANGED <<procVars, received, pool, target>>

Next ==
    \/ ParseAgent \/ StartAgent \/ ParseServer
    \/ \E dbReady \in BOOLEAN : StartServer(dbReady)
    \/ \E r \in Requests :
         \/ SendMetric(r) \/ SendBatch(r) \/ SendPlain(r)
         \/ Arrive(r) \/ Serve(r) \/ Flush(r) \/ Release(r) \/ Finish(r)

Spec == Init /\ [][Next]_vars

----------------------------------------------------------------------------
(* What a reader of the two parseFlags relies on.                          *)

\* The text of the environment, or else of the file, or else of the program itself.
Layered(in, file, k, default) ==
    IF Getenv(in.env, k) # "" THEN in.env[k]
    ELSE IF k \in DOMAIN file THEN file[k] ELSE default

\* The text the flags say, or else the other layers.
Given(in, kinds, file, flag, k, default) ==
    FlagOr(ParseArgs(in.args, kinds), flag, Layered(in, file, k, default))

\* What the server takes from a file: nothing if it cannot be read, no empty text.
Filled(file) ==
    IF file = Unreadable THEN << >>
    ELSE [k \in {k \in DOMAIN file : file[k] # ""} |-> file[k]]

\* The agent has parsed the file and the layers of the rate limit.
Loaded(in, file) ==
    file # Unreadable /\ WeakInt(Layered(in, file, "rate_limit", "1")) # Invalid

\* A flag overrides the environment, that the file, and that the default, for each
\* parameter of both programs (cmd/agent/flags.go:43-50, cmd/server/flags.go:52), but:
\* - nothing but flags counts for an agent that cannot read its file, or whose rate
\*   limit below the flags is no number;
\* - an empty text in the file overrides the default of the agent, not of the server;
\* - the server takes its key and the audit settings from no file;
\* - RESTORE and STORE_INTERVAL override the file also where they are no boolean or
\*   number, and then stand for false and 0; RESTORE even if it is empty.
LayersOverride ==
    LET file == Open(input.files, ConfigPath(input.env, input.args))
    IN
    /\ agentPC = "parsed" =>
         LET flags == ParseArgs(input.args, AgentFlags)
             says(flag, k) ==
               IF Loaded(input, file)
                 THEN Given(input, AgentFlags, file, flag, k, AgentDefaults[k])
                 ELSE FlagOr(flags, flag, "")
             seconds(flag, k, default) ==
               FlagIntOr(flags, flag, SecondsOr(says(flag, k), default))
         IN  /\ agent.address = Url(says("a", "address"))
             /\ agent.report = seconds("r", "report_interval", 10)
             /\ agent.poll = seconds("p", "poll_interval", 2)
             /\ agent.key = says("k", "key")
             /\ agent.rate = AtLeastOne(WeakInt(says("l", "rate_limit")))
             /\ agent.crypto = says("crypto-key", "crypto_key")
    /\ serverPC = "parsed" =>
         LET flags == ParseArgs(input.args, ServerFlags)
             says(flag, k, default) ==
               Given(input, ServerFlags, Filled(file), flag, k, default)
             unfiled(flag, k) == Given(input, ServerFlags, << >>, flag, k, "")
             interval == says("i", "store_interval", "")
             ofFile == "i" \notin DOMAIN flags /\ Getenv(input.env, "store_interval") = ""
             emptied == "r" \notin DOMAIN flags /\ input.env["restore"] = ""
         IN  /\ server.address = says("a", "address", ":8080")
             /\ server.interval = IF ofFile THEN FileSeconds(interval, 300) ELSE EnvInt(interval)
             /\ server.file = says("f", "store_file", "/tmp/metrics-db.json")
             /\ server.restore = EnvBool(IF emptied THEN "" ELSE says("r", "restore", "false"))
             /\ server.dsn = says("d", "database_dsn", "")
             /\ server.key = unfiled("k", "key")
             /\ server.auditFile = unfiled("audit-file", "audit_file")
             /\ server.auditURL = unfiled("audit-url", "audit_url")
             /\ server.crypto = says("crypto-key", "crypto_key", "")

\* The seconds leave no positive time.Duration: there are too many of them, or a flag
\* of the agent asks for zero or less.
NoInterval(seconds, flag) ==
    \/ seconds * Second >= Half
    \/ seconds <= 0 /\ flag \in DOMAIN ParseArgs(input.args, AgentFlags)

\* An interval that is given in a form the programs do not know, or as zero, falls back
\* to a default or to no saving: NewTicker panics only for seconds that time.Duration
\* cannot hold, or if a flag of the agent says so.  And there is always a worker.
IntervalsPositive ==
    [][/\ agentPC' = "panicked" /\ agentPC # "panicked" =>
            NoInterval(agent.report, "r") \/ NoInterval(agent.poll, "p")
       /\ serverPC' = "panicked" /\ serverPC # "panicked" => server.interval * Second >= Half
       /\ agentPC' = "parsed" => agent'.rate > 0]_vars

----------------------------------------------------------------------------
(* What the clients rely on.                                               *)

\* A metric that reaches the server as it was sent is taken if, and only if, both
\* programs hold the two halves of one RSA key, or none, and do not hold two different
\* signing keys, in whichever layers they were configured.
AgentUnderstood ==
    \A r \in Requests :
      req[r].stage = "answered" /\ req[r].kind = "metric" /\ req[r].damage = "no" =>
        (req[r].status = "200" <=>
           /\ agent.pub = server.priv
           /\ agent.key = "" \/ server.key = "" \/ agent.key = server.key)

\* The server never takes a message for another: a text that was changed on its way is
\* handled only if it was neither encrypted nor signed (gzip's checksum is not met).
NeverMisread ==
    \A r \in Requests :
      req[r].stage = "answered" /\ req[r].status = "200" /\ req[r].kind # "value" =>
        \/ req[r].damage = "no"
        \/ /\ req[r].damage # "garbled" /\ server.priv = None
           /\ req[r].mac = None \/ server.key = ""

\* A connection gets the answer to its own request and to no other, although the
\* writers are shared.
AnswersNotMixed == \A c \in Requests : received[c] \subseteq {c}
=============================================================================
