--------------------------- MODULE ExchangeProofs ---------------------------
(***************************************************************************)
(* Theorems about Exchange: what a client can rely on, for any number of   *)
(* requests and of gzip writers, any keys and any configuration of the two *)
(* programs, and what these make of their environment, files and flags.    *)
(*                                                                         *)
(* The invariant says of each request what it looks like (Typed), how it   *)
(* has been judged (Judged), and that its gzip writer is its own (Owned).  *)
(***************************************************************************)
EXTENDS Exchange, WellFoundedInduction, TLAPS

----------------------------------------------------------------------------
(* What flag.Parse returns: only flags of the program, with values they    *)
(* take.  ParseArgs recurses along the command line.                       *)

\* A set of naturals that is not empty has a least element.
LEMMA LeastNatural ==
  ASSUME NEW Bad \in SUBSET Nat, Bad # {}
  PROVE  \E n \in Bad : \A m \in Bad : n <= m
  <1> DEFINE R == {p \in Nat \X Nat : p[1] < p[2]}
  <1>1. IsWellFoundedOn(R, Nat)
    BY NatLessThanWellFounded DEF OpToRel
  <1>2. PICK n \in Bad : \A m \in Bad : <<m, n>> \notin R
    <2> HIDE DEF R
    <2> QED BY <1>1, WFMin
  <1>3. \A m \in Bad : ~(m < n)
    BY <1>2
  <1> QED BY <1>3

\* What holds at n, and at each i from what comes after it, holds from 1 to n.
LEMMA Downward ==
  ASSUME NEW n \in Nat, NEW P, n \in P,
         \A i \in 1 .. n - 1 : (\A j \in i + 1 .. n : j \in P) => i \in P
  PROVE  \A i \in 1 .. n : i \in P
  <1> SUFFICES ASSUME NEW k \in 1 .. n, k \notin P PROVE FALSE
    OBVIOUS
  <1> DEFINE Bad == {d \in 0 .. n - 1 : n - d \notin P}
  <1>1. Bad \in SUBSET Nat /\ n - k \in Bad
    <2>1. n - (n - k) = k /\ n - k \in 0 .. n - 1
      OBVIOUS
    <2> QED BY <2>1
  <1>2. PICK d \in Bad : \A e \in Bad : d <= e
    <2> HIDE DEF Bad
    <2> QED BY <1>1, LeastNatural
  <1>3. d \in 1 .. n - 1 /\ n - d \in 1 .. n - 1
    <2>1. d # 0
      BY <1>2
    <2> QED BY <1>2, <2>1
  <1>4. \A j \in n - d + 1 .. n : j \in P
    <2> SUFFICES ASSUME NEW j \in n - d + 1 .. n, j \notin P PROVE FALSE
      OBVIOUS
    <2>1. n - j \in 0 .. n - 1 /\ n - (n - j) = j /\ n - j < d
      BY <1>3
    <2>2. n - j \in Bad
      BY <2>1
    <2> QED BY <1>2, <2>1, <2>2
  <1>5. n - d \in P
    BY <1>3, <1>4
  <1> QED BY <1>2, <1>5

\* The body of the recursion.
Parse(args, kinds, p, i) ==
    IF i > Len(args) \/ (i = Len(args) /\ args[i] = Terminator) THEN << >>
    ELSE LET a == args[i]
             takesNext == a.value = Unset /\ kinds[a.name] # "bool"
             value == IF takesNext THEN Text(args[i + 1])
                      ELSE IF a.value = Unset THEN "true" ELSE a.value
             rest == p[IF takesNext THEN i + 2 ELSE i + 1]
         IN  IF \/ a.dashes = 0 \/ a.name \notin DOMAIN kinds
                \/ (takesNext /\ i = Len(args))
                \/ ~Accepts(kinds[a.name], value)
                \/ rest = Exit
               THEN Exit
               ELSE Otherwise(rest, a.name, value)

IsParse(args, kinds, p) == p = [i \in 1 .. Len(args) + 2 |-> Parse(args, kinds, p, i)]

\* There is such a function, so that the CHOOSE of its definition is one.
LEMMA ParseExists ==
  ASSUME NEW args \in Seq(Arg), NEW kinds
  PROVE  \E p : IsParse(args, kinds, p)
  <1> DEFINE n == Len(args) + 1
             D == 1 .. Len(args) + 2
             From(k) == \E p : /\ p = [i \in D |-> p[i]]
                               /\ \A i \in D : i >= k => p[i] = Parse(args, kinds, p, i)
             P == {k \in 1 .. n : From(k)}
  <1>0. Len(args) \in Nat /\ n \in Nat
    OBVIOUS
  <1>1. n \in P
    <2> DEFINE p == [i \in D |-> << >>]
    <2>1. p = [i \in D |-> p[i]] /\ \A i \in D : i >= n => p[i] = Parse(args, kinds, p, i)
      BY <1>0 DEF Parse
    <2> QED BY <1>0, <2>1
  <1>2. ASSUME NEW k \in 1 .. n - 1, \A j \in k + 1 .. n : j \in P PROVE k \in P
    <2>1. k + 1 \in P
      BY <1>0, <1>2
    <2>2. PICK p : /\ p = [i \in D |-> p[i]]
                   /\ \A i \in D : i >= k + 1 => p[i] = Parse(args, kinds, p, i)
      BY <2>1
    <2> DEFINE q == [i \in D |-> IF i = k THEN Parse(args, kinds, p, k) ELSE p[i]]
    <2>3. \A i \in D : i >= k + 1 => q[i] = p[i]
      BY <1>0
    <2>4. \A i \in D : i >= k => Parse(args, kinds, q, i) = Parse(args, kinds, p, i)
      <3> SUFFICES ASSUME NEW i \in D, i >= k
                   PROVE  Parse(args, kinds, q, i) = Parse(args, kinds, p, i)
        OBVIOUS
      <3>1. CASE i > Len(args)
        BY <3>1 DEF Parse
      <3>2. CASE ~(i > Len(args))
        <4>1. /\ i + 1 \in D /\ i + 1 >= k + 1 /\ i + 2 \in D /\ i + 2 >= k + 1
          BY <1>0, <3>2
        <4>2. q[i + 1] = p[i + 1] /\ q[i + 2] = p[i + 2]
          BY <2>3, <4>1
        <4> HIDE DEF q
        <4> QED BY <4>2 DEF Parse
      <3> QED BY <3>1, <3>2
    <2>5. \A i \in D : i >= k => q[i] = Parse(args, kinds, q, i)
      <3>1. \A i \in D : i >= k => q[i] = Parse(args, kinds, p, i)
        BY <1>0, <2>2
      <3> HIDE DEF q
      <3> QED BY <2>4, <3>1
    <2>6. q = [i \in D |-> q[i]]
      OBVIOUS
    <2>7. From(k)
      <3> HIDE DEF q
      <3> QED BY <2>5, <2>6
    <2> HIDE DEF From
    <2> QED BY <1>0, <2>7
  <1>3. 1 \in P
    <2> HIDE DEF P, n
    <2>1. \A i \in 1 .. n : i \in P
      BY <1>0, <1>1, <1>2, Downward
    <2> QED BY <1>0, <2>1 DEF n
  <1>4. PICK p : p = [i \in D |-> p[i]] /\ \A i \in D : i >= 1 => p[i] = Parse(args, kinds, p, i)
    BY <1>3
  <1>5. \A i \in D : p[i] = Parse(args, kinds, p, i)
    BY <1>4
  <1>6. p = [i \in D |-> Parse(args, kinds, p, i)]
    BY <1>4, <1>5
  <1> QED BY <1>6 DEF IsParse

\* A flag of the program, with a text it takes.
Flag(kinds, flags, n) ==
    n \in DOMAIN kinds /\ flags[n] \in Texts /\ Accepts(kinds[n], flags[n])

LEMMA FlagsAccepted ==
  ASSUME NEW args \in Seq(Arg), NEW kinds
  PROVE  LET flags == ParseArgs(args, kinds)
         IN  flags = Exit \/ \A n \in DOMAIN flags : Flag(kinds, flags, n)
  <1> DEFINE p == CHOOSE p : IsParse(args, kinds, p)
             n == Len(args) + 2
             Good(flags) == flags = Exit \/ \A m \in DOMAIN flags : Flag(kinds, flags, m)
             P == {k \in 1 .. n : Good(p[k])}
  <1>0. Len(args) \in Nat /\ n \in Nat
    OBVIOUS
  <1>1. IsParse(args, kinds, p)
    BY ParseExists
  <1>2. ParseArgs(args, kinds) = p[1]
    BY DEF ParseArgs, IsParse, Parse
  <1> HIDE DEF p
  <1>3. \A i \in 1 .. n : p[i] = Parse(args, kinds, p, i)
    BY <1>1 DEF IsParse
  <1>4. ASSUME NEW i \in 1 .. n, \A j \in i + 1 .. n : j \in P PROVE i \in P
    <2>1. CASE i > Len(args) \/ (i = Len(args) /\ args[i] = Terminator)
      <3>1. p[i] = << >>
        BY <1>3, <2>1 DEF Parse
      <3> QED BY <3>1
    <2>2. CASE ~(i > Len(args) \/ (i = Len(args) /\ args[i] = Terminator))
      <3> DEFINE a == args[i]
                 takesNext == a.value = Unset /\ kinds[a.name] # "bool"
                 value == IF takesNext THEN Text(args[i + 1])
                          ELSE IF a.value = Unset THEN "true" ELSE a.value
                 rest == p[IF takesNext THEN i + 2 ELSE i + 1]
                 wrong == \/ a.dashes = 0 \/ a.name \notin DOMAIN kinds
                          \/ (takesNext /\ i = Len(args))
                          \/ ~Accepts(kinds[a.name], value)
                          \/ rest = Exit
      <3>1. p[i] = IF wrong THEN Exit ELSE Otherwise(rest, a.name, value)
        BY <1>3, <2>2 DEF Parse
      <3>2. CASE wrong
        <4>1. p[i] = Exit
          BY <3>1, <3>2
        <4> QED BY <4>1
      <3>3. CASE ~wrong
        <4>1. Good(rest) /\ rest # Exit
          <5>1. i + 1 \in P /\ i + 2 \in P
            BY <1>0, <1>4, <2>2
          <5>2. Good(p[i + 1]) /\ Good(p[i + 2])
            BY <5>1
          <5> QED BY <3>3, <5>2
        <4>2. value \in Texts
          <5>1. \A j \in DOMAIN args : args[j] \in Arg
            OBVIOUS
          <5>2. CASE takesNext
            <6>1. i + 1 \in DOMAIN args
              BY <1>0, <2>2, <3>3, <5>2
            <6>2. args[i + 1] \in Arg
              BY <5>1, <6>1
            <6> QED BY <5>2, <6>2, TableAssumption DEF Arg, Text
          <5>3. CASE ~takesNext
            <6>1. a \in Arg
              BY <2>2, <5>1
            <6> QED BY <5>3, <6>1, TableAssumption DEF Arg
          <5> QED BY <5>2, <5>3
        <4>3. a.name \in DOMAIN kinds /\ Accepts(kinds[a.name], value)
          BY <3>3
        <4>4. p[i] = Otherwise(rest, a.name, value)
          BY <3>1, <3>3
        <4> HIDE DEF rest, value, a, wrong, takesNext
        <4>5. /\ DOMAIN p[i] = DOMAIN rest \cup {a.name}
              /\ \A m \in DOMAIN p[i] : p[i][m] = IF m \in DOMAIN rest THEN rest[m] ELSE value
          BY <4>4 DEF Otherwise
        <4>6. ASSUME NEW m \in DOMAIN p[i] PROVE Flag(kinds, p[i], m)
          <5>1. CASE m \in DOMAIN rest
            BY <4>1, <4>5, <5>1 DEF Flag
          <5>2. CASE m \notin DOMAIN rest
            BY <4>2, <4>3, <4>5, <5>2 DEF Flag
          <5> QED BY <5>1, <5>2
        <4> QED BY <4>6
      <3> QED BY <3>2, <3>3
    <2> QED BY <2>1, <2>2
  <1>5. n \in P
    BY <1>0, <1>4
  <1>6. 1 \in P
    <2> HIDE DEF P, n
    <2>1. \A i \in 1 .. n : i \in P
      BY <1>0, <1>4, <1>5, Downward
    <2> QED BY <1>0, <2>1 DEF n
  <1> QED BY <1>2, <1>6

\* The number of an empty text is zero, that of a text with a number is the number.
LEMMA WeakIntType ==
  ASSUME NEW text \in Texts, WeakInt(text) # Invalid
  PROVE  WeakInt(text) \in Int
  <1>1. AsInt[text] \in Int \cup {Invalid}
    BY TableAssumption
  <1>2. CASE text = ""
    <2>1. WeakInt(text) = 0
      BY <1>2 DEF WeakInt
    <2> QED BY <2>1
  <1>3. CASE text # ""
    BY <1>1, <1>3 DEF WeakInt
  <1> QED BY <1>2, <1>3

\* What the agent reads of the key, the intervals and the rate limit in its layers: texts,
\* and a number.
LEMMA AgentTexts ==
  ASSUME NEW in \in AgentInputs
  PROVE  LET cfg == LoadAgentConfig(in.env, in.files, in.args)
         IN  /\ cfg.key \in Texts
             /\ cfg.report_interval \in Texts /\ cfg.poll_interval \in Texts
             /\ WeakInt(cfg.rate_limit) \in Int
  <1> DEFINE file == Open(in.files, ConfigPath(in.env, in.args))
             value == [k \in DOMAIN AgentDefaults |->
                         IF Getenv(in.env, k) # "" THEN in.env[k]
                         ELSE IF k \in DOMAIN file THEN file[k] ELSE AgentDefaults[k]]
             cfg == LoadAgentConfig(in.env, in.files, in.args)
  <1>1. cfg = IF file = Unreadable \/ WeakInt(value.rate_limit) = Invalid
                THEN ZeroConfig ELSE value
    BY DEF LoadAgentConfig
  <1>2. /\ {"key", "rate_limit", "report_interval", "poll_interval"} \subseteq DOMAIN AgentDefaults
        /\ AgentDefaults.key \in Texts /\ AgentDefaults.rate_limit \in Texts
        /\ AgentDefaults.report_interval \in Texts /\ AgentDefaults.poll_interval \in Texts
    BY TableAssumption DEF AgentDefaults
  <1>3. CASE cfg = ZeroConfig
    <2>1. /\ cfg.key = "" /\ cfg.rate_limit = ""
          /\ cfg.report_interval = "" /\ cfg.poll_interval = ""
      BY <1>2, <1>3 DEF ZeroConfig
    <2>2. "" \in Texts
      BY TableAssumption
    <2>3. WeakInt("") = 0
      BY DEF WeakInt
    <2>4. /\ WeakInt(cfg.rate_limit) = 0 /\ cfg.key \in Texts
          /\ cfg.report_interval \in Texts /\ cfg.poll_interval \in Texts
      <3> HIDE DEF cfg
      <3> QED BY <2>1, <2>2, <2>3, Zenon
    <2>5. 0 \in Int
      OBVIOUS
    <2> QED BY <2>4, <2>5
  <1>4. CASE cfg # ZeroConfig
    <2>1. cfg = value /\ file # Unreadable /\ WeakInt(value.rate_limit) # Invalid
      BY <1>1, <1>4
    <2>2. \A k \in DOMAIN file : file[k] \in Texts
      <3>1. CASE ConfigPath(in.env, in.args) = ""
        <4>1. file = << >>
          BY <3>1 DEF Open
        <4> QED BY <4>1
      <3>2. CASE ConfigPath(in.env, in.args) # ""
        <4>1. PICK q \in DOMAIN in.files : file = in.files[q]
          BY <2>1, <3>2 DEF Open
        <4> QED BY <2>1, <4>1, InputAssumption, ZenonT(40)
      <3> QED BY <3>1, <3>2
    <2>3. ASSUME NEW k \in {"key", "rate_limit", "report_interval", "poll_interval"} PROVE value[k] \in Texts
      <3>1. in.env[k] \in Texts \cup {Unset} /\ k \in DOMAIN AgentDefaults
        BY <1>2, InputAssumption
      <3>2. value[k] = IF Getenv(in.env, k) # "" THEN in.env[k]
                       ELSE IF k \in DOMAIN file THEN file[k] ELSE AgentDefaults[k]
        BY <3>1
      <3> HIDE DEF file, value
      <3>3. CASE Getenv(in.env, k) # ""
        BY <3>1, <3>2, <3>3 DEF Getenv
      <3>4. CASE Getenv(in.env, k) = ""
        BY <1>2, <2>2, <3>2, <3>4
      <3> QED BY <3>3, <3>4
    <2>4. /\ value.key \in Texts /\ value.rate_limit \in Texts
          /\ value.report_interval \in Texts /\ value.poll_interval \in Texts
      BY <2>3
    <2> HIDE DEF file, value, cfg
    <2>5. /\ cfg.key \in Texts /\ WeakInt(cfg.rate_limit) \in Int
          /\ cfg.report_interval \in Texts /\ cfg.poll_interval \in Texts
      BY <2>1, <2>4, WeakIntType
    <2> QED BY <2>5 DEF cfg
  <1> QED BY <1>3, <1>4

\* The signing key of the agent is a text.
LEMMA AgentKeyIsText ==
  ASSUME NEW in \in AgentInputs, AgentConfig(in.env, in.files, in.args) # Exit
  PROVE  AgentConfig(in.env, in.files, in.args).key \in Texts
  <1> DEFINE flags == ParseArgs(in.args, AgentFlags)
             cfg == LoadAgentConfig(in.env, in.files, in.args)
  <1>1. in.args \in Seq(Arg)
    BY InputAssumption
  <1>2. flags # Exit
    BY DEF AgentConfig
  <1>3. AgentConfig(in.env, in.files, in.args).key = FlagOr(flags, "k", cfg.key)
    BY <1>2 DEF AgentConfig
  <1>4. \A n \in DOMAIN flags : flags[n] \in Texts
    BY <1>1, <1>2, FlagsAccepted DEF Flag
  <1>5. cfg.key \in Texts
    BY AgentTexts
  <1> QED BY <1>3, <1>4, <1>5 DEF FlagOr

----------------------------------------------------------------------------
(* The invariant. *)

Typed(q) ==
    /\ DOMAIN q = DOMAIN Fresh
    /\ q.stage \in {"idle", "sent", "chain", "answered", "flushed", "done"}
    /\ q.kind \in Kinds /\ q.damage \in Damages
    /\ q.status \in {"none", "200", "400", "500"}
    /\ q.writer \in Writers \cup {None}
    /\ q.writer = None => q.stage # "flushed"
    /\ q.writer # None => q.accepts
    /\ q.stage \in {"idle", "sent", "done"} => q.writer = None

\* What the middleware lets through to the handler, and the handler can read.
Accepted(q) ==
    /\ q.damage # "garbled"
    /\ q.kind # "value" =>
         DecryptRSA(q) = "none" /\ Gunzip(q) = "none" /\ CheckHash(q) = "none"

Judged(q) ==
    /\ q.stage \notin {"idle", "done"} => serverPC = "up"
    /\ q.kind = "metric" =>
         /\ agentPC = "up" /\ agent.key # None
         /\ q.pub = agent.pub /\ q.gzip
         /\ agent.key # "" => q.mac = agent.key
         /\ agent.key = "" => q.mac = None
    /\ q.stage \in {"answered", "flushed"} => (q.status = "200" <=> Accepted(q))

\* A writer in use is not in the pool, is used for one request, and writes to its
\* connection until the stream is closed.
Owned(r) ==
    req[r].writer # None =>
      /\ req[r].writer \notin pool
      /\ req[r].stage \in {"chain", "answered"} => target[req[r].writer] = r
      /\ \A s \in Requests : req[s].writer = req[r].writer => s = r

EInv ==
    /\ agentPC \in Stages
    /\ serverPC \in Stages
    /\ agentPC \in {"parsed", "up"} => agent.key # None
    /\ DOMAIN req = Requests
    /\ \A r \in Requests : Typed(req[r]) /\ Judged(req[r]) /\ Owned(r)
    /\ received \in [Requests -> SUBSET Requests] /\ AnswersNotMixed
    /\ pool \subseteq Writers /\ target \in [Writers -> Requests \cup {None}]

----------------------------------------------------------------------------
\* The chain answers 200 to what is accepted, and to nothing else.
LEMMA ChainOutcome ==
  ASSUME NEW q
  PROVE  /\ Chain(q) \in {"200", "400", "500"}
         /\ Chain(q) = "200" <=> Accepted(q)
  <1> DEFINE d == DecryptRSA(q)
             g == Gunzip(q)
             c == CheckHash(q)
             refusals == {i \in DOMAIN <<d, g, c>> : <<d, g, c>>[i] # "none"}
  <1>1. /\ d \in {"none", "400", "500"} /\ g \in {"none", "400", "500"}
        /\ c \in {"none", "400", "500"}
    BY DEF DecryptRSA, Gunzip, CheckHash
  <1>2. /\ Decode(q) \in {"200", "400", "500"}
        /\ Decode(q) = "200" <=> q.damage # "garbled"
    BY DEF Decode
  <1>3. CASE q.kind = "value"
    <2>1. Chain(q) = Decode(q)
      BY <1>3 DEF Chain
    <2> QED BY <1>2, <1>3, <2>1 DEF Accepted
  <1>4. CASE q.kind # "value"
    <2>1. Chain(q) = IF refusals = {} THEN Decode(q) ELSE <<d, g, c>>[Min(refusals)]
      BY <1>4 DEF Chain
    <2>2. CASE refusals = {}
      <3>1. d = "none" /\ g = "none" /\ c = "none"
        BY <2>2
      <3> QED BY <1>2, <1>4, <2>1, <2>2, <3>1 DEF Accepted
    <2>3. CASE refusals # {}
      <3>1. refusals \subseteq {1, 2, 3} /\ \A i \in refusals : <<d, g, c>>[i] # "none"
        OBVIOUS
      <3> HIDE DEF refusals
      <3>2. \E i \in refusals : \A j \in refusals : i <= j
        <4>0. \A j \in refusals : j = 1 \/ j = 2 \/ j = 3
          BY <3>1
        <4>1. CASE 1 \in refusals
          BY <4>0, <4>1
        <4>2. CASE 1 \notin refusals /\ 2 \in refusals
          BY <4>0, <4>2
        <4>3. CASE 1 \notin refusals /\ 2 \notin refusals
          BY <2>3, <4>0, <4>3
        <4> QED BY <4>1, <4>2, <4>3
      <3>3. Min(refusals) \in refusals
        BY <3>2 DEF Min
      <3>4. \E i \in {1, 2, 3} : /\ <<d, g, c>>[i] # "none"
                               /\ <<d, g, c>>[Min(refusals)] = <<d, g, c>>[i]
        BY <3>1, <3>3
      <3> HIDE DEF d, g, c
      <3>5. /\ <<d, g, c>>[Min(refusals)] \in {"400", "500"}
            /\ ~(d = "none" /\ g = "none" /\ c = "none")
        BY <1>1, <3>4
      <3> QED BY <1>4, <2>1, <2>3, <3>5 DEF Accepted, d, g, c
    <2> QED BY <2>2, <2>3
  <1> QED BY <1>3, <1>4

LEMMA InitEInv == Init => EInv
  BY ExchangeAssumption
  DEF Init, EInv, Stages, Typed, Judged, Owned, Fresh, Kinds, Damages, AnswersNotMixed

----------------------------------------------------------------------------
(* A step of one request: it becomes q, and the writers change as they may. *)

\* A request is judged by the two programs as they are once they are up.
LEMMA JudgedStays ==
  ASSUME NEW s, Judged(req'[s]),
         agentPC # "up" \/ UNCHANGED <<agentPC, agent>>,
         serverPC # "up" \/ UNCHANGED <<serverPC, server>>
  PROVE  Judged(req[s])'
  BY DEF Judged, Accepted, DecryptRSA, Gunzip, CheckHash

LEMMA RequestStep ==
  ASSUME EInv, NEW r \in Requests, NEW q,
         req' = [req EXCEPT ![r] = q], UNCHANGED procVars,
         Typed(q), Judged(q), Owned(r)',
         \A s \in Requests \ {r} : Owned(s)',
         received' \in [Requests -> SUBSET Requests], AnswersNotMixed',
         pool' \subseteq Writers, target' \in [Writers -> Requests \cup {None}]
  PROVE  EInv'
  <1>1. DOMAIN req' = Requests /\ req'[r] = q /\ \A s \in Requests \ {r} : req'[s] = req[s]
    BY DEF EInv
  <1>2. \A s \in Requests : Typed(req'[s]) /\ Judged(req'[s])
    BY <1>1 DEF EInv
  <1>3. \A s \in Requests : Judged(req[s])'
    BY <1>2, JudgedStays DEF procVars
  <1>4. \A s \in Requests : Typed(req[s])' /\ Owned(s)'
    BY <1>2 DEF Typed
  <1>5. /\ agentPC' \in Stages
        /\ serverPC' \in Stages
        /\ agentPC' \in {"parsed", "up"} => agent'.key # None
    BY DEF EInv, procVars
  <1> QED
    BY <1>1, <1>3, <1>4, <1>5 DEF EInv

\* What EInv says of the request that takes a step.
LEMMA Here ==
  ASSUME EInv, NEW r \in Requests
  PROVE  /\ Typed(req[r]) /\ Judged(req[r]) /\ Owned(r) /\ \A s \in Requests : Owned(s)
         /\ DOMAIN req = Requests /\ None \notin Requests /\ None \notin Writers
         /\ received \in [Requests -> SUBSET Requests] /\ AnswersNotMixed
         /\ pool \subseteq Writers /\ target \in [Writers -> Requests \cup {None}]
  BY ExchangeAssumption DEF EInv

LEMMA MessageEInv ==
  ASSUME EInv, NEW r \in Requests,
         NEW kind \in Kinds, NEW gzip, NEW pub, NEW mac, NEW accepts,
         Send(r, Message(kind, gzip, pub, mac, accepts)),
         kind = "metric" =>
           /\ agentPC = "up" /\ pub = agent.pub /\ gzip
           /\ mac = IF agent.key # "" THEN agent.key ELSE None
  PROVE  EInv'
  <1>0. /\ DOMAIN req = Requests /\ None \notin Requests /\ None \notin Writers
        /\ received \in [Requests -> SUBSET Requests] /\ AnswersNotMixed
        /\ pool \subseteq Writers /\ target \in [Writers -> Requests \cup {None}]
        /\ \A s \in Requests : Owned(s)
    BY Here
  <1>1. PICK d \in Damages :
          req' = [req EXCEPT ![r] =
                   [Message(kind, gzip, pub, mac, accepts) EXCEPT !.damage = d]]
    BY DEF Send
  <1> DEFINE q == [Message(kind, gzip, pub, mac, accepts) EXCEPT !.damage = d]
  <1>2. /\ DOMAIN q = DOMAIN Fresh
        /\ q.stage = "sent" /\ q.kind = kind /\ q.pub = pub /\ q.mac = mac /\ q.gzip = gzip
        /\ q.damage = d /\ q.writer = None /\ q.status = "none"
    BY DEF Message, Fresh
  <1>3. req' = [req EXCEPT ![r] = q] /\ serverPC = "up" /\ UNCHANGED <<procVars, received, pool, target>>
    BY <1>1 DEF Send
  <1> HIDE DEF q
  <1>4. Typed(q)
    BY <1>2 DEF Typed
  <1>5. Judged(q)
    BY <1>2, <1>3 DEF Judged, EInv
  <1>6. \A s \in Requests : Owned(s)'
    BY <1>0, <1>2, <1>3 DEF Owned
  <1> QED
    BY <1>0, <1>3, <1>4, <1>5, <1>6, RequestStep DEF AnswersNotMixed

LEMMA SendEInv ==
  ASSUME EInv, NEW r \in Requests, SendMetric(r) \/ SendBatch(r) \/ SendPlain(r)
  PROVE  EInv'
  <1>1. Kinds = {"metric", "batch", "plain", "signed", "value"}
    BY DEF Kinds
  <1>2. CASE SendMetric(r)
    <2>1. agentPC = "up" /\ Send(r, Message("metric", TRUE, agent.pub,
                       IF agent.key # "" THEN agent.key ELSE None, TRUE))
      BY <1>2 DEF SendMetric
    <2> QED BY <1>1, <2>1, MessageEInv
  <1>3. CASE SendBatch(r)
    <2>1. Send(r, Message("batch", TRUE, None, None, TRUE))
      BY <1>3 DEF SendBatch
    <2> QED BY <1>1, <2>1, MessageEInv
  <1>4. CASE SendPlain(r)
    <2>1. PICK accepts \in BOOLEAN :
            \/ Send(r, Message("plain", FALSE, None, None, accepts))
            \/ Send(r, Message("signed", FALSE, None, server.key, accepts))
            \/ Send(r, Message("value", FALSE, None, None, accepts))
      BY <1>4 DEF SendPlain
    <2>2. CASE Send(r, Message("plain", FALSE, None, None, accepts))
      BY <1>1, <2>2, MessageEInv
    <2>3. CASE Send(r, Message("signed", FALSE, None, server.key, accepts))
      BY <1>1, <2>3, MessageEInv
    <2>4. CASE Send(r, Message("value", FALSE, None, None, accepts))
      BY <1>1, <2>4, MessageEInv
    <2> QED BY <2>1, <2>2, <2>3, <2>4
  <1> QED BY <1>2, <1>3, <1>4

LEMMA ArriveEInv == ASSUME EInv, NEW r \in Requests, Arrive(r) PROVE EInv'
  <1>0. /\ Typed(req[r]) /\ Judged(req[r]) /\ \A s \in Requests : Owned(s)
        /\ DOMAIN req = Requests /\ None \notin Requests /\ None \notin Writers
        /\ received \in [Requests -> SUBSET Requests] /\ AnswersNotMixed
        /\ pool \subseteq Writers /\ target \in [Writers -> Requests \cup {None}]
    BY Here
  <1>1. CASE req[r].accepts
    <2>1. PICK w \in Writers :
            /\ w \in pool \/ \A s \in Requests : req[s].writer # w
            /\ req' = [req EXCEPT ![r].stage = "chain", ![r].writer = w]
            /\ pool' = pool \ {w} /\ target' = [target EXCEPT ![w] = r]
            /\ req[r].stage = "sent" /\ UNCHANGED <<procVars, received>>
      BY <1>1 DEF Arrive
    <2> DEFINE q == [req[r] EXCEPT !.stage = "chain", !.writer = w]
    <2>2. req' = [req EXCEPT ![r] = q]
      BY <2>1
    <2>3. /\ DOMAIN q = DOMAIN Fresh /\ q.stage = "chain" /\ q.writer = w
          /\ q.kind = req[r].kind /\ q.pub = req[r].pub /\ q.mac = req[r].mac
          /\ q.gzip = req[r].gzip
          /\ q.damage = req[r].damage /\ q.status = req[r].status /\ q.accepts = req[r].accepts
      BY <1>0 DEF Typed, Fresh
    <2> HIDE DEF q
    <2>4. Typed(q)
      BY <1>0, <1>1, <2>3 DEF Typed
    <2>5. Judged(q)
      BY <1>0, <2>1, <2>3 DEF Judged
    <2>6. \A s \in Requests : req[s].writer # w
      BY <1>0, <2>1 DEF Owned
    <2>7. \A s \in Requests : Owned(s)'
      BY <1>0, <2>1, <2>2, <2>3, <2>6 DEF Owned
    <2> QED
      BY <1>0, <2>1, <2>2, <2>4, <2>5, <2>7, RequestStep DEF AnswersNotMixed
  <1>2. CASE ~req[r].accepts
    <2>1. /\ req' = [req EXCEPT ![r].stage = "chain"] /\ req[r].stage = "sent"
          /\ UNCHANGED <<procVars, received, pool, target>>
      BY <1>2 DEF Arrive
    <2> DEFINE q == [req[r] EXCEPT !.stage = "chain"]
    <2>2. req' = [req EXCEPT ![r] = q]
      BY <2>1
    <2>3. /\ DOMAIN q = DOMAIN Fresh /\ q.stage = "chain" /\ q.writer = req[r].writer
          /\ q.kind = req[r].kind /\ q.pub = req[r].pub /\ q.mac = req[r].mac
          /\ q.gzip = req[r].gzip
          /\ q.damage = req[r].damage /\ q.status = req[r].status /\ q.accepts = req[r].accepts
      BY <1>0 DEF Typed, Fresh
    <2> HIDE DEF q
    <2>4. Typed(q) /\ q.writer = None
      BY <1>0, <2>1, <2>3 DEF Typed
    <2>5. Judged(q)
      BY <1>0, <2>1, <2>3 DEF Judged
    <2>6. \A s \in Requests : Owned(s)'
      BY <1>0, <2>1, <2>2, <2>4 DEF Owned
    <2> QED
      BY <1>0, <2>1, <2>2, <2>4, <2>5, <2>6, RequestStep DEF AnswersNotMixed
  <1> QED BY <1>1, <1>2

\* What is written through a writer reaches the connection of its own request.
LEMMA WriteOwn ==
  ASSUME EInv, NEW r \in Requests, req[r].stage \in {"chain", "answered"},
         Write(r, Connection(r)) \/ received' = received
  PROVE  received' \in [Requests -> SUBSET Requests] /\ AnswersNotMixed'
  <1>1. Connection(r) = r
    BY Here DEF Connection, Owned
  <1>2. received \in [Requests -> SUBSET Requests] /\ AnswersNotMixed /\ r # None
    BY Here
  <1> QED BY <1>1, <1>2 DEF Write, AnswersNotMixed

LEMMA ServeEInv == ASSUME EInv, NEW r \in Requests, Serve(r) PROVE EInv'
  <1>0. /\ Typed(req[r]) /\ Judged(req[r]) /\ \A s \in Requests : Owned(s)
        /\ DOMAIN req = Requests /\ None \notin Requests /\ None \notin Writers
        /\ pool \subseteq Writers /\ target \in [Writers -> Requests \cup {None}]
    BY Here
  <1> DEFINE status == Chain(req[r])
             q == [req[r] EXCEPT !.stage = "answered", !.status = status]
  <1>1. /\ req' = [req EXCEPT ![r] = q] /\ req[r].stage = "chain"
        /\ UNCHANGED <<procVars, pool, target>> /\ Write(r, Connection(r))
    BY DEF Serve
  <1>2. /\ DOMAIN q = DOMAIN Fresh /\ q.stage = "answered" /\ q.writer = req[r].writer
        /\ q.kind = req[r].kind /\ q.pub = req[r].pub /\ q.mac = req[r].mac
        /\ q.gzip = req[r].gzip
        /\ q.damage = req[r].damage /\ q.status = status /\ q.accepts = req[r].accepts
    BY <1>0 DEF Typed, Fresh
  <1>3. status \in {"200", "400", "500"} /\ (status = "200" <=> Accepted(req[r]))
    BY ChainOutcome
  <1> HIDE DEF q, status
  <1>4. Typed(q)
    BY <1>0, <1>1, <1>2, <1>3 DEF Typed
  <1>5. Accepted(q) <=> Accepted(req[r])
    BY <1>2 DEF Accepted, DecryptRSA, Gunzip, CheckHash
  <1>7. Judged(q)
    BY <1>0, <1>1, <1>2, <1>3, <1>5 DEF Judged
  <1>8. \A s \in Requests : Owned(s)'
    BY <1>0, <1>1, <1>2 DEF Owned
  <1>9. received' \in [Requests -> SUBSET Requests] /\ AnswersNotMixed'
    BY <1>1, WriteOwn
  <1> QED
    BY <1>0, <1>1, <1>4, <1>7, <1>8, <1>9, RequestStep

LEMMA FlushEInv == ASSUME EInv, NEW r \in Requests, Flush(r) PROVE EInv'
  <1>0. /\ Typed(req[r]) /\ Judged(req[r]) /\ \A s \in Requests : Owned(s)
        /\ DOMAIN req = Requests /\ None \notin Requests /\ None \notin Writers
        /\ pool \subseteq Writers /\ target \in [Writers -> Requests \cup {None}]
    BY Here
  <1> DEFINE q == [req[r] EXCEPT !.stage = "flushed"]
  <1>1. /\ req' = [req EXCEPT ![r] = q] /\ req[r].stage = "answered" /\ req[r].writer # None
        /\ target' = [target EXCEPT ![req[r].writer] = None]
        /\ UNCHANGED <<procVars, pool>> /\ Write(r, Connection(r))
    BY DEF Flush
  <1>2. /\ DOMAIN q = DOMAIN Fresh /\ q.stage = "flushed" /\ q.writer = req[r].writer
        /\ q.kind = req[r].kind /\ q.pub = req[r].pub /\ q.mac = req[r].mac
        /\ q.gzip = req[r].gzip
        /\ q.damage = req[r].damage /\ q.status = req[r].status /\ q.accepts = req[r].accepts
    BY <1>0 DEF Typed, Fresh
  <1> HIDE DEF q
  <1>3. Typed(q)
    BY <1>0, <1>1, <1>2 DEF Typed
  <1>4. Accepted(q) <=> Accepted(req[r])
    BY <1>2 DEF Accepted, DecryptRSA, Gunzip, CheckHash
  <1>5. Judged(q)
    BY <1>0, <1>1, <1>2, <1>4 DEF Judged
  <1>6. \A s \in Requests : Owned(s)'
    <2>1. \A s \in Requests \ {r} : req'[s] = req[s] /\ req[s].writer # req[r].writer
      BY <1>0, <1>1 DEF Owned
    <2>2. \A s \in Requests \ {r} : req[s].writer # None => target'[req[s].writer] = target[req[s].writer]
      BY <1>0, <1>1, <2>1
    <2> QED BY <1>0, <1>1, <1>2, <2>1, <2>2 DEF Owned
  <1>7. received' \in [Requests -> SUBSET Requests] /\ AnswersNotMixed'
    BY <1>1, WriteOwn
  <1>8. target' \in [Writers -> Requests \cup {None}]
    BY <1>0, <1>1
  <1> QED
    BY <1>0, <1>1, <1>3, <1>5, <1>6, <1>7, <1>8, RequestStep

\* The request is over: its record is fresh again, and its writer is in the pool.
LEMMA OverEInv == ASSUME EInv, NEW r \in Requests, Release(r) \/ Finish(r) PROVE EInv'
  <1>0. /\ Typed(req[r]) /\ \A s \in Requests : Owned(s)
        /\ DOMAIN req = Requests /\ None \notin Requests /\ None \notin Writers
        /\ received \in [Requests -> SUBSET Requests] /\ AnswersNotMixed
        /\ pool \subseteq Writers /\ target \in [Writers -> Requests \cup {None}]
    BY Here
  <1> DEFINE q == [Fresh EXCEPT !.stage = "done"]
  <1>1. /\ req' = [req EXCEPT ![r] = q] /\ UNCHANGED <<procVars, received, target>>
        /\ pool' = pool \/ (pool' = pool \cup {req[r].writer} /\ req[r].stage = "flushed")
    BY DEF Release, Finish
  <1>2. /\ DOMAIN q = DOMAIN Fresh /\ q.stage = "done" /\ q.writer = None /\ q.kind = "plain"
        /\ q.damage = "no" /\ q.status = "none"
    BY DEF Fresh
  <1> HIDE DEF q
  <1>3. Typed(q) /\ Judged(q)
    BY <1>2 DEF Typed, Judged, Kinds, Damages
  <1>4. req[r].stage = "flushed" => req[r].writer \in Writers
    BY <1>0 DEF Typed
  <1>5. \A s \in Requests : Owned(s)'
    <2>1. \A s \in Requests \ {r} : req'[s] = req[s] /\ (req[s].writer # None => req[s].writer # req[r].writer)
      BY <1>0, <1>1 DEF Owned
    <2> QED BY <1>0, <1>1, <1>2, <2>1 DEF Owned
  <1>6. pool' \subseteq Writers
    BY <1>0, <1>1, <1>4
  <1> QED
    BY <1>0, <1>1, <1>3, <1>5, <1>6, RequestStep DEF AnswersNotMixed

----------------------------------------------------------------------------
\* A program that starts disturbs no request: a metric is there only once the agent is
\* up, and any request only once the server is.
LEMMA StartEInv ==
  ASSUME EInv, UNCHANGED httpVars,
         \/ ParseAgent \/ StartAgent \/ ParseServer
         \/ \E dbReady \in BOOLEAN : StartServer(dbReady)
  PROVE  EInv'
  <1>1. /\ agentPC' \in Stages
        /\ serverPC' \in Stages
    BY DEF EInv, Stages, ParseAgent, StartAgent, ParseServer, StartServer
  <1>2. agentPC' \in {"parsed", "up"} => agent'.key # None
    <2>1. CASE ParseAgent
      <3>1. CASE agentPC' = "failed"
        BY <3>1
      <3>2. CASE agentPC' # "failed"
        <4>1. PICK in \in AgentInputs :
                /\ AgentConfig(in.env, in.files, in.args) # Exit
                /\ agent' = AgentConfig(in.env, in.files, in.args)
          BY <2>1, <3>2 DEF ParseAgent
        <4> QED BY <4>1, AgentKeyIsText, ExchangeAssumption
      <3> QED BY <3>1, <3>2
    <2>2. CASE StartAgent
      BY <2>2 DEF EInv, StartAgent
    <2>3. CASE ParseServer \/ \E dbReady \in BOOLEAN : StartServer(dbReady)
      BY <2>3 DEF EInv, ParseServer, StartServer
    <2> QED BY <2>1, <2>2, <2>3
  <1>3. /\ agentPC # "up" \/ UNCHANGED <<agentPC, agent>>
        /\ serverPC # "up" \/ UNCHANGED <<serverPC, server>>
    BY DEF ParseAgent, StartAgent, ParseServer, StartServer
  <1>4. ASSUME NEW r \in Requests
        PROVE  Typed(req[r])' /\ Judged(req[r])' /\ Owned(r)'
    <2>1. Typed(req[r]) /\ Judged(req[r]) /\ Owned(r) /\ UNCHANGED <<req, pool, target>>
      BY DEF EInv, httpVars
    <2>2. Judged(req[r])'
      BY <1>3, <2>1, JudgedStays
    <2> QED BY <2>1, <2>2 DEF Typed, Owned
  <1> QED
    BY <1>1, <1>2, <1>4 DEF EInv, httpVars, AnswersNotMixed

LEMMA NextEInv == EInv /\ [Next]_vars => EInv'
  <1> SUFFICES ASSUME EInv, [Next]_vars PROVE EInv'
    OBVIOUS
  <1>1. CASE \/ ParseAgent \/ StartAgent \/ ParseServer
             \/ \E dbReady \in BOOLEAN : StartServer(dbReady)
    <2>1. UNCHANGED httpVars
      BY <1>1 DEF ParseAgent, StartAgent, ParseServer, StartServer
    <2> QED BY <1>1, <2>1, StartEInv
  <1>2. CASE UNCHANGED vars
    <2>1. /\ UNCHANGED <<agentPC, agent, serverPC, server>>
          /\ UNCHANGED <<req, received, pool, target>>
      BY <1>2 DEF vars, procVars, httpVars
    <2>2. \A r \in Requests : Judged(req[r])'
      BY <2>1, JudgedStays DEF EInv
    <2>3. \A r \in Requests : Typed(req[r])' /\ Owned(r)'
      BY <2>1 DEF EInv, Typed, Owned
    <2> QED BY <2>1, <2>2, <2>3 DEF EInv, AnswersNotMixed
  <1> QED
    BY <1>1, <1>2, SendEInv, ArriveEInv, ServeEInv, FlushEInv, OverEInv DEF Next

\* The invariant of the exchange holds in every state of every behaviour.
THEOREM ExchangeInvariant == Spec => []EInv
  BY InitEInv, NextEInv, PTL DEF Spec

\* Every variable keeps its type, and a writer in use is not in the pool.
THEOREM TypeCorrect == Spec => []TypeOK
  <1>1. EInv => TypeOK
    BY DEF EInv, Typed, Owned, TypeOK
  <1> QED BY <1>1, ExchangeInvariant, PTL

\* A connection gets the answer to its own request only, however the gzip writers are
\* passed on (gzipResponseMiddleware, gzip_middleware.go:85).
THEOREM WritersAreNotMixed == Spec => []AnswersNotMixed
  <1>1. EInv => AnswersNotMixed
    BY DEF EInv
  <1> QED BY <1>1, ExchangeInvariant, PTL

\* A metric that arrives as it was sent is taken exactly if the keys of the two programs
\* fit (sendMetricJSON, main.go:94 of the agent; the route group, main.go:335 of the server).
THEOREM KeysDecide == Spec => []AgentUnderstood
  <1>1. EInv => AgentUnderstood
    <2> SUFFICES ASSUME EInv, NEW r \in Requests, req[r].stage = "answered",
                        req[r].kind = "metric", req[r].damage = "no"
                 PROVE  req[r].status = "200" <=>
                          /\ agent.pub = server.priv
                          /\ agent.key = "" \/ server.key = "" \/ agent.key = server.key
      BY DEF AgentUnderstood
    <2>1. Judged(req[r])
      BY DEF EInv
    <2> QED BY <2>1 DEF Judged, Accepted, DecryptRSA, Gunzip, CheckHash
  <1> QED BY <1>1, ExchangeInvariant, PTL

\* A text that was changed on its way is handled only if it was neither encrypted nor
\* signed (DecryptRSA, ValidateHashSHA256 and the Decode of the handlers).
THEOREM ChangesAreNoticed == Spec => []NeverMisread
  <1>1. EInv => NeverMisread
    <2> SUFFICES ASSUME EInv, NEW r \in Requests, req[r].stage = "answered",
                        req[r].status = "200", req[r].kind # "value", req[r].damage # "no"
                 PROVE  /\ req[r].damage # "garbled" /\ server.priv = None
                        /\ req[r].mac = None \/ server.key = ""
      BY DEF NeverMisread
    <2>1. Judged(req[r])
      BY DEF EInv
    <2> QED BY <2>1 DEF Judged, Accepted, DecryptRSA, Gunzip, CheckHash
  <1> QED BY <1>1, ExchangeInvariant, PTL

----------------------------------------------------------------------------
(* The two parseFlags.                                                     *)

\* A program that has been configured was given what input says, and the two are not
\* configured at the same time.
Configured ==
    /\ agentPC = "parsed" =>
         /\ input \in AgentInputs /\ agent # Exit
         /\ agent = AgentConfig(input.env, input.files, input.args)
    /\ serverPC = "parsed" =>
         /\ input \in ServerInputs /\ server # Exit
         /\ server = ServerConfig(input.env, input.files, input.args)
    /\ agentPC \in {"start", "parsed"} => serverPC = "start"

LEMMA ConfiguredInvariant == Spec => []Configured
  <1>1. Init => Configured
    BY DEF Init, Configured
  <1>2. Configured /\ [Next]_vars => Configured'
    <2> SUFFICES ASSUME Configured, [Next]_vars PROVE Configured'
      OBVIOUS
    <2>1. CASE UNCHANGED procVars
      BY <2>1 DEF Configured, procVars
    <2>2. CASE ParseAgent
      BY <2>2 DEF Configured, ParseAgent
    <2>3. CASE StartAgent
      BY <2>3 DEF Configured, StartAgent
    <2>4. CASE ParseServer
      BY <2>4 DEF Configured, ParseServer
    <2>5. ASSUME NEW dbReady \in BOOLEAN, StartServer(dbReady) PROVE Configured'
      BY <2>5 DEF Configured, StartServer
    <2>6. ASSUME NEW r \in Requests,
                 \/ SendMetric(r) \/ SendBatch(r) \/ SendPlain(r)
                 \/ Arrive(r) \/ Serve(r) \/ Flush(r) \/ Release(r) \/ Finish(r)
          PROVE  UNCHANGED procVars
      BY <2>6 DEF SendMetric, SendBatch, SendPlain, Send, Arrive, Serve, Flush, Release, Finish
    <2> QED BY <2>1, <2>2, <2>3, <2>4, <2>5, <2>6 DEF Next, vars
  <1> QED BY <1>1, <1>2, PTL DEF Spec

\* parseFlags of the agent takes each parameter from the layer that decides.
LEMMA AgentLayers ==
  ASSUME NEW in \in AgentInputs,
         NEW config, config = AgentConfig(in.env, in.files, in.args), config # Exit
  PROVE  LET file == Open(in.files, ConfigPath(in.env, in.args))
             flags == ParseArgs(in.args, AgentFlags)
             says(flag, k) ==
               IF Loaded(in, file)
                 THEN Given(in, AgentFlags, file, flag, k, AgentDefaults[k])
                 ELSE FlagOr(flags, flag, "")
             seconds(flag, k, default) ==
               FlagIntOr(flags, flag, SecondsOr(says(flag, k), default))
         IN  /\ config.address = Url(says("a", "address"))
             /\ config.report = seconds("r", "report_interval", 10)
             /\ config.poll = seconds("p", "poll_interval", 2)
             /\ config.key = says("k", "key")
             /\ config.rate = AtLeastOne(WeakInt(says("l", "rate_limit")))
             /\ config.crypto = says("crypto-key", "crypto_key")
  <1> DEFINE file == Open(in.files, ConfigPath(in.env, in.args))
             cfg == LoadAgentConfig(in.env, in.files, in.args)
             flags == ParseArgs(in.args, AgentFlags)
             says(flag, k) ==
               IF Loaded(in, file)
                 THEN Given(in, AgentFlags, file, flag, k, AgentDefaults[k])
                 ELSE FlagOr(flags, flag, "")
             value == [k \in DOMAIN AgentDefaults |->
                         IF Getenv(in.env, k) # "" THEN in.env[k]
                         ELSE IF k \in DOMAIN file THEN file[k] ELSE AgentDefaults[k]]
  <1>0. in.args \in Seq(Arg) /\ flags # Exit
    BY InputAssumption DEF AgentConfig
  <1>1. /\ config.address = Url(FlagOr(flags, "a", cfg.address))
        /\ config.report = FlagIntOr(flags, "r", SecondsOr(cfg.report_interval, 10))
        /\ config.poll = FlagIntOr(flags, "p", SecondsOr(cfg.poll_interval, 2))
        /\ config.key = FlagOr(flags, "k", cfg.key)
        /\ config.rate = AtLeastOne(FlagIntOr(flags, "l", WeakInt(cfg.rate_limit)))
        /\ config.crypto = FlagOr(flags, "crypto-key", cfg.crypto_key)
    BY <1>0 DEF AgentConfig
  <1>2. /\ {"address", "report_interval", "poll_interval", "key", "rate_limit", "crypto_key"}
             \subseteq DOMAIN AgentDefaults
        /\ AgentDefaults["rate_limit"] = "1"
    BY DEF AgentDefaults
  <1>3. cfg = IF Loaded(in, file) THEN value ELSE ZeroConfig
    <2>1. value.rate_limit = Layered(in, file, "rate_limit", "1")
      BY <1>2 DEF Layered
    <2>2. cfg = IF file = Unreadable \/ WeakInt(value.rate_limit) = Invalid
                  THEN ZeroConfig ELSE value
      BY DEF LoadAgentConfig
    <2> HIDE DEF cfg, value, file
    <2> QED BY <2>1, <2>2 DEF Loaded
  <1>4. ASSUME NEW k \in DOMAIN AgentDefaults, NEW flag
        PROVE  says(flag, k) = FlagOr(flags, flag, cfg[k])
    <2>1. CASE Loaded(in, file)
      <3>1. cfg[k] = Layered(in, file, k, AgentDefaults[k])
        BY <1>3, <2>1 DEF Layered
      <3> HIDE DEF cfg, file
      <3> QED BY <2>1, <3>1 DEF Given
    <2>2. CASE ~Loaded(in, file)
      <3>1. cfg[k] = ""
        BY <1>3, <2>2 DEF ZeroConfig
      <3> HIDE DEF cfg, file
      <3> QED BY <2>2, <3>1
    <2> QED BY <2>1, <2>2
  <1> HIDE DEF flags, cfg, says
  <1>5. /\ says("a", "address") = FlagOr(flags, "a", cfg.address)
        /\ says("r", "report_interval") = FlagOr(flags, "r", cfg.report_interval)
        /\ says("p", "poll_interval") = FlagOr(flags, "p", cfg.poll_interval)
        /\ says("k", "key") = FlagOr(flags, "k", cfg.key)
        /\ says("l", "rate_limit") = FlagOr(flags, "l", cfg.rate_limit)
        /\ says("crypto-key", "crypto_key") = FlagOr(flags, "crypto-key", cfg.crypto_key)
    BY <1>2, <1>4
  <1>6. \A flag, text, default :
          FlagIntOr(flags, flag, SecondsOr(FlagOr(flags, flag, text), default)) =
            FlagIntOr(flags, flag, SecondsOr(text, default))
    BY DEF FlagIntOr, FlagOr
  <1>7. WeakInt(FlagOr(flags, "l", cfg.rate_limit)) =
          FlagIntOr(flags, "l", WeakInt(cfg.rate_limit))
    <2>1. CASE "l" \in DOMAIN flags
      <3>1. Flag(AgentFlags, flags, "l")
        BY <1>0, <2>1, FlagsAccepted DEF flags
      <3>2. AsInt[flags["l"]] # Invalid /\ flags["l"] # ""
        BY <3>1, TableAssumption DEF Flag, Accepts, AgentFlags
      <3> QED BY <2>1, <3>2 DEF FlagOr, FlagIntOr, WeakInt
    <2>2. CASE "l" \notin DOMAIN flags
      BY <2>2 DEF FlagOr, FlagIntOr
    <2> QED BY <2>1, <2>2
  <1>8. /\ config.address = Url(says("a", "address"))
        /\ config.report = FlagIntOr(flags, "r", SecondsOr(says("r", "report_interval"), 10))
        /\ config.poll = FlagIntOr(flags, "p", SecondsOr(says("p", "poll_interval"), 2))
        /\ config.key = says("k", "key")
        /\ config.rate = AtLeastOne(WeakInt(says("l", "rate_limit")))
        /\ config.crypto = says("crypto-key", "crypto_key")
    <2>1. config.report = FlagIntOr(flags, "r", SecondsOr(says("r", "report_interval"), 10))
      BY <1>1, <1>5, <1>6
    <2>2. config.poll = FlagIntOr(flags, "p", SecondsOr(says("p", "poll_interval"), 2))
      BY <1>1, <1>5, <1>6
    <2>3. config.rate = AtLeastOne(WeakInt(says("l", "rate_limit")))
      BY <1>1, <1>5, <1>7
    <2> QED BY <1>1, <1>5, <2>1, <2>2, <2>3
  <1> QED BY <1>8 DEF flags, says

\* A flag of the program that takes numbers has one.
LEMMA FlagIsNumber ==
  ASSUME NEW args \in Seq(Arg), NEW kinds, ParseArgs(args, kinds) # Exit,
         NEW n \in DOMAIN ParseArgs(args, kinds), kinds[n] = "int"
  PROVE  /\ AsInt[ParseArgs(args, kinds)[n]] \in Int
         /\ ParseArgs(args, kinds)[n] # ""
  <1>1. Flag(kinds, ParseArgs(args, kinds), n)
    BY FlagsAccepted
  <1> QED BY <1>1, TableAssumption DEF Flag, Accepts

\* parseFlags of the server does too.
LEMMA ServerLayers ==
  ASSUME NEW in \in ServerInputs,
         NEW config, config = ServerConfig(in.env, in.files, in.args), config # Exit
  PROVE  LET file == Open(in.files, ConfigPath(in.env, in.args))
             flags == ParseArgs(in.args, ServerFlags)
             says(flag, k, default) ==
               Given(in, ServerFlags, Filled(file), flag, k, default)
             unfiled(flag, k) == Given(in, ServerFlags, << >>, flag, k, "")
             interval == says("i", "store_interval", "")
             ofFile == "i" \notin DOMAIN flags /\ Getenv(in.env, "store_interval") = ""
             emptied == "r" \notin DOMAIN flags /\ in.env["restore"] = ""
         IN  /\ config.address = says("a", "address", ":8080")
             /\ config.interval = IF ofFile THEN FileSeconds(interval, 300) ELSE EnvInt(interval)
             /\ config.file = says("f", "store_file", "/tmp/metrics-db.json")
             /\ config.restore = EnvBool(IF emptied THEN "" ELSE says("r", "restore", "false"))
             /\ config.dsn = says("d", "database_dsn", "")
             /\ config.key = unfiled("k", "key")
             /\ config.auditFile = unfiled("audit-file", "audit_file")
             /\ config.auditURL = unfiled("audit-url", "audit_url")
             /\ config.crypto = says("crypto-key", "crypto_key", "")
  <1> DEFINE opened == Open(in.files, ConfigPath(in.env, in.args))
             file == IF opened = Unreadable THEN << >> ELSE opened
             inFile(k) == IF k \in DOMAIN file THEN file[k] ELSE ""
             layered(k, def) == IF Getenv(in.env, k) # "" THEN in.env[k]
                                ELSE IF inFile(k) # "" THEN inFile(k) ELSE def
             seconds == IF Getenv(in.env, "store_interval") # "" THEN EnvInt(in.env["store_interval"])
                        ELSE FileSeconds(inFile("store_interval"), 300)
             restore == IF in.env["restore"] # Unset THEN EnvBool(in.env["restore"])
                        ELSE IF inFile("restore") # "" THEN AsBool[inFile("restore")] ELSE FALSE
             flags == ParseArgs(in.args, ServerFlags)
             says(flag, k, default) == Given(in, ServerFlags, Filled(opened), flag, k, default)
             unfiled(flag, k) == Given(in, ServerFlags, << >>, flag, k, "")
             interval == says("i", "store_interval", "")
             ofFile == "i" \notin DOMAIN flags /\ Getenv(in.env, "store_interval") = ""
  <1>0. flags # Exit /\ in.args \in Seq(Arg)
    BY InputAssumption DEF ServerConfig
  <1>1. /\ config.address = FlagOr(flags, "a", layered("address", ":8080"))
        /\ config.interval = FlagIntOr(flags, "i", seconds)
        /\ config.file = FlagOr(flags, "f", layered("store_file", "/tmp/metrics-db.json"))
        /\ config.dsn = FlagOr(flags, "d", layered("database_dsn", ""))
        /\ config.key = FlagOr(flags, "k", Getenv(in.env, "key"))
        /\ config.auditFile = FlagOr(flags, "audit-file", Getenv(in.env, "audit_file"))
        /\ config.auditURL = FlagOr(flags, "audit-url", Getenv(in.env, "audit_url"))
        /\ config.crypto = FlagOr(flags, "crypto-key", layered("crypto_key", ""))
        /\ config.restore = IF "r" \in DOMAIN flags THEN AsBool[flags["r"]] ELSE restore
    BY <1>0 DEF ServerConfig
  <1>2. \A k : /\ k \in DOMAIN Filled(opened) <=> inFile(k) # ""
               /\ k \in DOMAIN Filled(opened) => Filled(opened)[k] = inFile(k)
    <2> SUFFICES ASSUME NEW k
                 PROVE  /\ k \in DOMAIN Filled(opened) <=> inFile(k) # ""
                        /\ k \in DOMAIN Filled(opened) => Filled(opened)[k] = inFile(k)
      OBVIOUS
    <2> HIDE DEF opened
    <2>1. CASE opened = Unreadable
      <3>1. Filled(opened) = << >> /\ file = << >>
        BY <2>1 DEF Filled
      <3>2. k \notin DOMAIN << >>
        OBVIOUS
      <3> HIDE DEF file
      <3> QED BY <3>1, <3>2
    <2>2. CASE opened # Unreadable
      BY <2>2 DEF Filled
    <2> QED BY <2>1, <2>2
  <1>3. \A flag, k, default :
          FlagOr(flags, flag, layered(k, default)) = says(flag, k, default)
    <2> SUFFICES ASSUME NEW flag, NEW k, NEW default
                 PROVE  FlagOr(flags, flag, layered(k, default)) = says(flag, k, default)
      OBVIOUS
    <2> HIDE DEF inFile, opened
    <2> QED BY <1>2 DEF Given, FlagOr, Layered
  <1>4. config.restore = EnvBool(IF "r" \notin DOMAIN flags /\ in.env["restore"] = "" THEN ""
                                 ELSE says("r", "restore", "false"))
    <2>1. CASE "r" \in DOMAIN flags
      <3>1. Flag(ServerFlags, flags, "r")
        <4> QED BY <1>0, <2>1, FlagsAccepted
      <3>2. ServerFlags["r"] = "bool" /\ AsBool[flags["r"]] # Invalid /\ flags["r"] # ""
        BY <3>1, TableAssumption DEF Flag, Accepts, ServerFlags
      <3>3. says("r", "restore", "false") = flags["r"]
        BY <2>1 DEF Given, FlagOr, Layered
      <3> HIDE DEF says, flags
      <3> QED BY <1>1, <2>1, <3>2, <3>3 DEF EnvBool
    <2>2. CASE "r" \notin DOMAIN flags
      <3>1. config.restore = restore
        BY <1>1, <2>2
      <3>2. "restore" \in DOMAIN file => file["restore"] \in {"true", "false"}
        <4>1. CASE opened = Unreadable \/ ConfigPath(in.env, in.args) = ""
          <5>1. file = << >>
            BY <4>1 DEF Open
          <5> QED BY <5>1
        <4>2. CASE opened # Unreadable /\ ConfigPath(in.env, in.args) # ""
          <5>1. PICK q \in DOMAIN in.files : file = in.files[q] /\ in.files[q] # Unreadable
            BY <4>2 DEF Open
          <5> QED BY <5>1, InputAssumption
        <4> QED BY <4>1, <4>2
      <3>3. inFile("restore") \in {"", "true", "false"}
        BY <3>2
      <3>4. says("r", "restore", "false") =
              IF Getenv(in.env, "restore") # "" THEN in.env["restore"]
              ELSE IF inFile("restore") # "" THEN inFile("restore") ELSE "false"
        <4> HIDE DEF inFile, opened
        <4> QED BY <1>2, <2>2 DEF Given, FlagOr, Layered
      <3> HIDE DEF inFile, says, flags
      <3>5. CASE in.env["restore"] = Unset
        <4>1. Getenv(in.env, "restore") = "" /\ in.env["restore"] # ""
          BY <3>5, TableAssumption DEF Getenv
        <4> QED BY <2>2, <3>1, <3>3, <3>4, <3>5, <4>1, TableAssumption DEF EnvBool
      <3>6. CASE in.env["restore"] # Unset
        BY <2>2, <3>1, <3>4, <3>6 DEF EnvBool, Getenv
      <3> QED BY <3>5, <3>6
    <2> QED BY <2>1, <2>2
  <1>5. ASSUME NEW flag, NEW k
        PROVE  FlagOr(flags, flag, Getenv(in.env, k)) = unfiled(flag, k)
    <2>1. Layered(in, << >>, k, "") = Getenv(in.env, k)
      <3>1. k \notin DOMAIN << >>
        OBVIOUS
      <3> QED BY <3>1 DEF Layered, Getenv
    <2> QED BY <2>1 DEF Given
  <1>6. config.interval = IF ofFile THEN FileSeconds(interval, 300) ELSE EnvInt(interval)
    <2>1. CASE "i" \in DOMAIN flags
      <3>1. AsInt[flags["i"]] \in Int /\ flags["i"] # ""
        <4>1. ServerFlags["i"] = "int"
          BY DEF ServerFlags
        <4> QED BY <1>0, <2>1, <4>1, FlagIsNumber
      <3>2. interval = flags["i"] /\ ~ofFile
        BY <2>1 DEF Given, FlagOr
      <3>3. AsInt[flags["i"]] # Invalid
        BY <3>1, TableAssumption
      <3> HIDE DEF interval, ofFile, flags, seconds
      <3> QED BY <1>1, <2>1, <3>1, <3>2, <3>3 DEF FlagIntOr, EnvInt
    <2>2. CASE "i" \notin DOMAIN flags
      <3>1. config.interval = seconds
        BY <1>1, <2>2 DEF FlagIntOr
      <3>2. interval = layered("store_interval", "")
        BY <1>3, <2>2 DEF FlagOr
      <3>3. inFile("store_interval") = "" \/ layered("store_interval", "") = in.env["store_interval"]
              \/ layered("store_interval", "") = inFile("store_interval")
        OBVIOUS
      <3>4. CASE Getenv(in.env, "store_interval") = ""
        <4>1. layered("store_interval", "") = inFile("store_interval") /\ ofFile
          BY <2>2, <3>4
        <4>2. seconds = FileSeconds(inFile("store_interval"), 300)
          BY <3>4
        <4> HIDE DEF interval, ofFile, flags, seconds, inFile, layered
        <4> QED BY <3>1, <3>2, <4>1, <4>2
      <3>5. CASE Getenv(in.env, "store_interval") # ""
        <4>1. layered("store_interval", "") = in.env["store_interval"] /\ ~ofFile
          BY <3>5
        <4>2. seconds = EnvInt(in.env["store_interval"])
          BY <3>5
        <4> HIDE DEF interval, ofFile, flags, seconds, inFile, layered
        <4> QED BY <3>1, <3>2, <4>1, <4>2
      <3> QED BY <3>4, <3>5
    <2> QED BY <2>1, <2>2
  <1> HIDE DEF says, unfiled, layered, restore, inFile, seconds
  <1>7. /\ config.address = says("a", "address", ":8080")
        /\ config.file = says("f", "store_file", "/tmp/metrics-db.json")
        /\ config.dsn = says("d", "database_dsn", "")
        /\ config.crypto = says("crypto-key", "crypto_key", "")
    BY <1>1, <1>3
  <1>8. /\ config.key = unfiled("k", "key")
        /\ config.auditFile = unfiled("audit-file", "audit_file")
        /\ config.auditURL = unfiled("audit-url", "audit_url")
    BY <1>1, <1>5
  <1> QED BY <1>4, <1>6, <1>7, <1>8 DEF says, unfiled

\* Every parameter comes from the highest layer that gives it (parseFlags, flags.go:51 of
\* the agent and flags.go:54 of the server), for any texts in any layers.
THEOREM LayersDecide == Spec => []LayersOverride
  <1>1. Configured => LayersOverride
    BY AgentLayers, ServerLayers DEF Configured, LayersOverride
  <1> QED BY <1>1, ConfiguredInvariant, PTL

----------------------------------------------------------------------------
(* The intervals.                                                          *)

\* Seconds that time.Duration can hold are a positive one if they are positive.
LEMMA DurationPositive ==
  ASSUME NEW n \in Int, n > 0, n * Second < Half
  PROVE  Duration(n) > 0
  <1> DEFINE x == n * Second
             m == 2 * Half
  <1>1. Second \in Int /\ Second > 0 /\ Half \in Int
    BY WordAssumption
  <1>2. x \in Int /\ x > 0
    BY <1>1
  <1>3. x < Half
    OBVIOUS
  <1>4. Duration(n) = ((x + Half) % m) - Half
    BY DEF Duration
  <1> HIDE DEF x
  <1>5. x + Half \in Int /\ m \in Int /\ 0 <= x + Half /\ x + Half < m /\ m > 0
    BY <1>1, <1>2, <1>3
  <1>6. (x + Half) % m = x + Half
    <2> HIDE DEF m
    <2> DEFINE y == x + Half
    <2>1. y \in Int /\ 0 <= y /\ y < m
      BY <1>5
    <2> HIDE DEF y
    <2>2. y % m = y
      BY <1>5, <2>1
    <2> QED BY <2>2 DEF y
  <1> QED BY <1>1, <1>2, <1>4, <1>6

\* The seconds of an interval of the agent, and of the server: a number, and a positive
\* one unless a flag says otherwise, or the server need not save.
LEMMA SecondsOrType ==
  ASSUME NEW text \in Texts, NEW def \in {2, 10}
  PROVE  SecondsOr(text, def) \in Int /\ SecondsOr(text, def) > 0
  <1>1. /\ AsSeconds[text] # Invalid => AsSeconds[text] \in Int
        /\ AsInt[text] # Invalid => AsInt[text] \in Int
    BY TableAssumption
  <1>2. CASE text # "" /\ AsSeconds[text] # Invalid /\ AsSeconds[text] > 0
    BY <1>1, <1>2 DEF SecondsOr
  <1>3. CASE /\ ~ (text # "" /\ AsSeconds[text] # Invalid /\ AsSeconds[text] > 0)
             /\ text # "" /\ AsInt[text] # Invalid /\ AsInt[text] > 0
    <2>1. SecondsOr(text, def) = AsInt[text]
      BY <1>3, Zenon DEF SecondsOr
    <2> QED BY <1>1, <1>3, <2>1
  <1>4. CASE /\ ~ (text # "" /\ AsSeconds[text] # Invalid /\ AsSeconds[text] > 0)
             /\ ~ (text # "" /\ AsInt[text] # Invalid /\ AsInt[text] > 0)
    <2>1. SecondsOr(text, def) = def
      BY <1>4, Zenon DEF SecondsOr
    <2> QED BY <2>1
  <1> QED BY <1>2, <1>3, <1>4, Zenon

\* An interval of the agent is positive, or a flag says otherwise; and there is a worker.
LEMMA AgentSeconds ==
  ASSUME NEW in \in AgentInputs,
         NEW config, config = AgentConfig(in.env, in.files, in.args), config # Exit
  PROVE  LET flags == ParseArgs(in.args, AgentFlags)
         IN  /\ config.report \in Int /\ (config.report > 0 \/ "r" \in DOMAIN flags)
             /\ config.poll \in Int /\ (config.poll > 0 \/ "p" \in DOMAIN flags)
             /\ config.rate > 0
  <1> DEFINE flags == ParseArgs(in.args, AgentFlags)
             cfg == LoadAgentConfig(in.env, in.files, in.args)
  <1>1. in.args \in Seq(Arg) /\ flags # Exit
    BY InputAssumption DEF AgentConfig
  <1>2. /\ config.report = FlagIntOr(flags, "r", SecondsOr(cfg.report_interval, 10))
        /\ config.poll = FlagIntOr(flags, "p", SecondsOr(cfg.poll_interval, 2))
        /\ config.rate = AtLeastOne(FlagIntOr(flags, "l", WeakInt(cfg.rate_limit)))
    BY <1>1 DEF AgentConfig
  <1>3. /\ SecondsOr(cfg.report_interval, 10) \in Int /\ SecondsOr(cfg.report_interval, 10) > 0
        /\ SecondsOr(cfg.poll_interval, 2) \in Int /\ SecondsOr(cfg.poll_interval, 2) > 0
        /\ WeakInt(cfg.rate_limit) \in Int
    BY AgentTexts, SecondsOrType
  <1>4. ASSUME NEW n \in {"r", "p", "l"}, n \in DOMAIN flags PROVE AsInt[flags[n]] \in Int
    <2>1. AgentFlags[n] = "int"
      BY DEF AgentFlags
    <2> QED BY <1>1, <1>4, <2>1, FlagIsNumber
  <1> HIDE DEF flags, cfg
  <1>5. config.report \in Int /\ (config.report > 0 \/ "r" \in DOMAIN flags)
    BY <1>2, <1>3, <1>4 DEF FlagIntOr
  <1>6. config.poll \in Int /\ (config.poll > 0 \/ "p" \in DOMAIN flags)
    BY <1>2, <1>3, <1>4 DEF FlagIntOr
  <1>7. FlagIntOr(flags, "l", WeakInt(cfg.rate_limit)) \in Int
    BY <1>3, <1>4 DEF FlagIntOr
  <1>8. config.rate > 0
    BY <1>2, <1>7 DEF AtLeastOne
  <1> QED BY <1>5, <1>6, <1>8 DEF flags

LEMMA ServerSeconds ==
  ASSUME NEW in \in ServerInputs,
         NEW config, config = ServerConfig(in.env, in.files, in.args), config # Exit
  PROVE  config.interval \in Int
  <1> DEFINE file == Filled(Open(in.files, ConfigPath(in.env, in.args)))
             text == Given(in, ServerFlags, file, "i", "store_interval", "")
  <1>1. config.interval \in {FileSeconds(text, 300), EnvInt(text)}
    <2> DEFINE ofFile == /\ "i" \notin DOMAIN ParseArgs(in.args, ServerFlags)
                         /\ Getenv(in.env, "store_interval") = ""
    <2>1. config.interval = IF ofFile THEN FileSeconds(text, 300) ELSE EnvInt(text)
      BY ServerLayers, Zenon
    <2> QED BY <2>1
  <1>2. text \in Texts
    <2>1. in.args \in Seq(Arg) /\ in.env["store_interval"] \in Texts \cup {Unset}
      BY InputAssumption
    <2>2. "store_interval" \in DOMAIN file => file["store_interval"] \in Texts
      <3> DEFINE opened == Open(in.files, ConfigPath(in.env, in.args))
      <3>1. CASE opened = Unreadable \/ ConfigPath(in.env, in.args) = ""
        <4>1. DOMAIN file \subseteq DOMAIN << >>
          <5>1. CASE opened = Unreadable
            BY <5>1 DEF Filled
          <5>2. CASE opened # Unreadable /\ ConfigPath(in.env, in.args) = ""
            <6>1. opened = << >>
              BY <5>2 DEF Open
            <6> HIDE DEF opened
            <6>2. DOMAIN Filled(opened) \subseteq DOMAIN << >>
              BY <5>2, <6>1 DEF Filled
            <6> QED BY <6>2 DEF opened
          <5> QED BY <3>1, <5>1, <5>2
        <4> QED BY <4>1
      <3>2. CASE opened # Unreadable /\ ConfigPath(in.env, in.args) # ""
        <4>1. PICK q \in DOMAIN in.files : opened = in.files[q] /\ in.files[q] # Unreadable
          BY <3>2 DEF Open
        <4>2. \A k \in DOMAIN opened : opened[k] \in Texts
          BY <4>1, InputAssumption
        <4> HIDE DEF opened
        <4>3. \A k \in DOMAIN Filled(opened) : Filled(opened)[k] \in Texts
          BY <3>2, <4>2 DEF Filled
        <4> QED BY <4>3 DEF opened
      <3> QED BY <3>1, <3>2
    <2>3. ParseArgs(in.args, ServerFlags) # Exit
      BY DEF ServerConfig
    <2>4. "i" \in DOMAIN ParseArgs(in.args, ServerFlags) => ParseArgs(in.args, ServerFlags)["i"] \in Texts
      BY <2>1, <2>3, FlagsAccepted DEF Flag
    <2>5. "" \in Texts
      BY TableAssumption
    <2> HIDE DEF file
    <2>6. Layered(in, file, "store_interval", "") \in Texts
      <3>1. CASE Getenv(in.env, "store_interval") # ""
        BY <2>1, <3>1 DEF Layered, Getenv
      <3>2. CASE Getenv(in.env, "store_interval") = ""
        BY <2>2, <2>5, <3>2 DEF Layered
      <3> QED BY <3>1, <3>2
    <2> QED BY <2>4, <2>6 DEF Given, FlagOr
  <1> HIDE DEF text
  <1>3. /\ AsSeconds[text] # Invalid => AsSeconds[text] \in Int
        /\ AsInt[text] # Invalid => AsInt[text] \in Int
    BY <1>2, TableAssumption
  <1>4. FileSeconds(text, 300) \in Int
    <2>1. FileSeconds(text, 300) = 300 \/ (FileSeconds(text, 300) = AsSeconds[text] /\ AsSeconds[text] # Invalid)
      BY Zenon DEF FileSeconds
    <2> QED BY <1>3, <2>1
  <1>5. EnvInt(text) \in Int
    <2>1. EnvInt(text) = 0 \/ (EnvInt(text) = AsInt[text] /\ AsInt[text] # Invalid)
      BY Zenon DEF EnvInt
    <2> QED BY <1>3, <2>1
  <1> QED BY <1>1, <1>4, <1>5

\* NewTicker panics only on seconds that time.Duration cannot hold, or that a flag of the
\* agent asks for (main.go:189 of the agent, main.go:309 of the server), and there is a
\* worker whatever the rate limit.
THEOREM TickersStart == Spec => IntervalsPositive
  <1> DEFINE Panic ==
        /\ agentPC' = "panicked" /\ agentPC # "panicked" =>
             NoInterval(agent.report, "r") \/ NoInterval(agent.poll, "p")
        /\ serverPC' = "panicked" /\ serverPC # "panicked" => server.interval * Second >= Half
        /\ agentPC' = "parsed" => agent'.rate > 0
  <1>0. Second \in Int /\ Half \in Int
    BY WordAssumption
  <1>1. ASSUME Configured, Configured', [Next]_vars PROVE Panic
    <2>1. agentPC' = "parsed" => agent'.rate > 0
      BY <1>1, AgentSeconds DEF Configured
    <2>2. ASSUME agentPC' = "panicked", agentPC # "panicked"
          PROVE  NoInterval(agent.report, "r") \/ NoInterval(agent.poll, "p")
      <3>1. StartAgent
        BY <1>1, <2>2 DEF Next, vars, procVars, ParseAgent, ParseServer, StartServer,
           SendMetric, SendBatch, SendPlain, Send, Arrive, Serve, Flush, Release, Finish
      <3>2. agentPC = "parsed" /\ (Panics(agent.report) \/ Panics(agent.poll))
        BY <2>2, <3>1 DEF StartAgent
      <3> DEFINE flags == ParseArgs(input.args, AgentFlags)
      <3>3. /\ agent.report \in Int /\ (agent.report > 0 \/ "r" \in DOMAIN flags)
            /\ agent.poll \in Int /\ (agent.poll > 0 \/ "p" \in DOMAIN flags)
        BY <1>1, <3>2, AgentSeconds DEF Configured
      <3>4. ASSUME NEW n \in Int, NEW flag, n > 0 \/ flag \in DOMAIN flags, Panics(n)
            PROVE  NoInterval(n, flag)
        <4>1. n * Second \in Int
          BY <1>0
        <4>2. n > 0 /\ n * Second < Half => Duration(n) > 0
          BY DurationPositive
        <4>3. ~(Duration(n) > 0) 
          <5>1. Duration(n) \in Int
            <6>1. n * Second + Half \in Int /\ 2 * Half \in Int /\ 2 * Half > 0
              BY <1>0, <4>1, WordAssumption
            <6>2. (n * Second + Half) % (2 * Half) \in Int
              BY <6>1
            <6> QED BY <1>0, <6>2 DEF Duration
          <5> QED BY <3>4, <5>1 DEF Panics
        <4>4. ~(n > 0) \/ ~(n * Second < Half)
          BY <4>2, <4>3
        <4> HIDE DEF flags
        <4>5. n <= 0 \/ n * Second >= Half
          BY <1>0, <4>1, <4>4
        <4>6. n <= 0 => flag \in DOMAIN flags
          BY <3>4
        <4> QED BY <4>5, <4>6 DEF NoInterval, flags
      <3> HIDE DEF flags
      <3> QED BY <3>2, <3>3, <3>4
    <2>3. ASSUME serverPC' = "panicked", serverPC # "panicked"
          PROVE  server.interval * Second >= Half
      <3>1. PICK dbReady \in BOOLEAN : StartServer(dbReady)
        BY <1>1, <2>3 DEF Next, vars, procVars, ParseAgent, ParseServer, StartAgent,
           SendMetric, SendBatch, SendPlain, Send, Arrive, Serve, Flush, Release, Finish
      <3>2. serverPC = "parsed" /\ server.interval > 0 /\ Panics(server.interval)
        BY <2>3, <3>1 DEF StartServer
      <3>3. server.interval \in Int
        BY <1>1, <3>2, ServerSeconds DEF Configured
      <3>4. server.interval * Second \in Int
        BY <1>0, <3>3
      <3>5. ~(server.interval * Second < Half)
        <4>1. server.interval * Second < Half => Duration(server.interval) > 0
          BY <3>2, <3>3, DurationPositive
        <4>2. Duration(server.interval) \in Int
          <5>1. server.interval * Second + Half \in Int /\ 2 * Half \in Int /\ 2 * Half > 0
            BY <1>0, <3>4, WordAssumption
          <5>2. (server.interval * Second + Half) % (2 * Half) \in Int
            BY <5>1
          <5> QED BY <1>0, <5>2 DEF Duration
        <4> QED BY <3>2, <4>1, <4>2 DEF Panics
      <3> QED BY <1>0, <3>4, <3>5
    <2> QED BY <2>1, <2>2, <2>3
  <1> QED BY <1>1, ConfiguredInvariant, PTL DEF Spec, IntervalsPositive
=============================================================================
