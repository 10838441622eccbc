------------------------------ MODULE Storage ------------------------------
(***************************************************************************)
(* What the storage promises its callers (the Storage and BatchUpdater     *)
(* interfaces: "must be thread-safe", "applied atomically"): every         *)
(* operation takes effect at one instant between its call and its return,  *)
(* a batch as a whole, and GetAllMetrics returns the state of one instant. *)
(***************************************************************************)
EXTENDS StorageData

CONSTANTS
    Clients,   \* the goroutines that call the storage
    Requests   \* what they may ask for (a bound: a small set of requests)

\* What an operation shows its caller when it takes effect on data d: the metrics
\* it returns, every other one Absent.
Seen(r, d) ==
    CASE r.op = "write" -> Empty
      [] r.op = "getGauge" -> [Empty EXCEPT !.gauge[r.name] = d.gauge[r.name]]
      [] r.op = "getCounter" -> [Empty EXCEPT !.counter[r.name] = d.counter[r.name]]
      [] r.op = "getAll" -> d

VARIABLES
    data,      \* the metrics
    request,   \* the request each client is in, NoRequest between calls
    done,      \* the clients whose request has taken effect
    answer     \* what it has shown them

svars == <<data, request, done, answer>>

Init ==
    /\ data = Empty
    /\ request = [c \in Clients |-> NoRequest] /\ done = {}
    /\ answer = [c \in Clients |-> Empty]

Call(c, r) ==
    /\ request[c] = NoRequest
    /\ request' = [request EXCEPT ![c] = r]
    /\ UNCHANGED <<data, done, answer>>

Effect(c) ==
    /\ request[c] # NoRequest /\ c \notin done
    /\ data' = IF request[c].op = "write" THEN ApplyAll(data, request[c].items) ELSE data
    /\ answer' = [answer EXCEPT ![c] = Seen(request[c], data)]
    /\ done' = done \cup {c}
    /\ UNCHANGED request

Return(c) ==
    /\ c \in done
    /\ request' = [request EXCEPT ![c] = NoRequest]
    /\ answer' = [answer EXCEPT ![c] = Empty]
    /\ done' = done \ {c}
    /\ UNCHANGED data

Next == \E c \in Clients :
    (\E r \in Requests : Call(c, r)) \/ Effect(c) \/ Return(c)

Spec == Init /\ [][Next]_svars
=============================================================================
