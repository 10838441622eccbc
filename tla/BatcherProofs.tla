--------------------------- MODULE BatcherProofs ---------------------------
(***************************************************************************)
(* The batcher loses, doubles and reorders nothing, handles a metric twice *)
(* only after a lost reply, and its buffer has the limit that              *)
(* GrowthBounded states, whatever the capacity of the channel, the size of *)
(* a batch, the number of retries and of metrics.                          *)
(***************************************************************************)
EXTENDS Batcher, SequenceTheorems, TLAPS

----------------------------------------------------------------------------
(* The inductive invariant.                                                *)

\* An attempt that is waiting for its delay is not the last one.
DelayHasRetry == pc = "delay" => attempt <= MaxRetries

\* The last flush begins with an empty channel, and nothing is added afterwards.
FinalIsEmpty == (final \/ pc = "exited") => closed /\ in = << >>

\* No more is accepted than was added: it bounds the buffer when "failures" no longer
\* counts.
AcceptedBounded == Len(accepted) <= added

\* The channel holds metrics in the order they were added, all of them later than those
\* of the buffer: a metric is in one of the two places, once.
Ordered ==
    /\ \A i, j \in DOMAIN in : i < j => in[i].id < in[j].id
    /\ \A i \in DOMAIN buf, j \in DOMAIN in : buf[i].id < in[j].id
    /\ \A i \in DOMAIN in : in[i].id <= added
    /\ \A i \in DOMAIN buf : buf[i].id <= added

\* What has not reached the buffer has not been handled, and what is in the buffer has
\* been handled only by a post whose reply was lost.
HandledSoFar ==
    /\ \A m \in 1 .. MaxAdds : (m > added \/ m \in Ids(in)) => handled[m] = 0
    /\ \A m \in Ids(buf) : handled[m] > 0 => m \in unsure

BInv ==
    /\ TypeOK /\ DelayHasRetry /\ FinalIsEmpty
    /\ InOrder /\ AcceptedBounded /\ GrowthBounded /\ ExitFlushes
    /\ Ordered /\ HandledSoFar /\ HandledOnce

----------------------------------------------------------------------------
(* Sequences and the metrics in them.                                      *)

LEMMA IdsInRange ==
    ASSUME NEW s \in Seq(Metric)
    PROVE  Ids(s) \subseteq 1 .. MaxAdds
<1>1. \A i \in DOMAIN s : s[i] \in Metric
  BY ElementOfSeq, LenProperties
<1> QED
  BY <1>1 DEF Ids, Metric

LEMMA IdIsNat ==
    ASSUME NEW s \in Seq(Metric)
    PROVE  \A i \in DOMAIN s : s[i].id \in Nat
<1>1. \A i \in DOMAIN s : s[i] \in Metric
  BY ElementOfSeq, LenProperties
<1> QED
  BY <1>1, BatcherAssumption DEF Metric

LEMMA IdsOfConcat ==
    ASSUME NEW s \in Seq(Metric), NEW t \in Seq(Metric)
    PROVE  Ids(s \o t) = Ids(s) \cup Ids(t)
<1>1. /\ s \o t \in Seq(Metric) /\ DOMAIN (s \o t) = 1 .. Len(s) + Len(t)
      /\ DOMAIN s = 1 .. Len(s) /\ DOMAIN t = 1 .. Len(t)
      /\ Len(s) \in Nat /\ Len(t) \in Nat
  BY ConcatProperties, LenProperties
<1>2. \A i \in 1 .. Len(s) + Len(t) :
        (s \o t)[i] = IF i <= Len(s) THEN s[i] ELSE t[i - Len(s)]
  BY ConcatProperties
<1>3. Ids(s \o t) \subseteq Ids(s) \cup Ids(t)
  BY <1>1, <1>2 DEF Ids
<1>4. Ids(s) \subseteq Ids(s \o t)
  BY <1>1, <1>2 DEF Ids
<1>5. Ids(t) \subseteq Ids(s \o t)
  <2>1. SUFFICES ASSUME NEW i \in 1 .. Len(t)
                 PROVE  t[i].id \in Ids(s \o t)
    BY <1>1 DEF Ids
  <2>2. Len(s) + i \in 1 .. Len(s) + Len(t) /\ (s \o t)[Len(s) + i] = t[i]
    BY <1>1, <1>2
  <2> QED
    BY <1>1, <2>2 DEF Ids
<1> QED
  BY <1>3, <1>4, <1>5

LEMMA IdsOfEmpty == Ids(<< >>) = {}
  BY DEF Ids

LEMMA ConcatAssoc ==
    ASSUME NEW s \in Seq(Metric), NEW t \in Seq(Metric), NEW u \in Seq(Metric)
    PROVE  (s \o t) \o u = s \o (t \o u)
<1> DEFINE M == Metric
<1> HIDE DEF M
<1>1. s \in Seq(M) /\ t \in Seq(M) /\ u \in Seq(M)
  BY DEF M
<1> QED
  BY <1>1, ConcatAssociative

\* Moving the head of a sequence to the end of the one before it changes nothing.
LEMMA MoveHead ==
    ASSUME NEW s \in Seq(Metric), NEW t \in Seq(Metric), t # << >>
    PROVE  Append(s, Head(t)) \o Tail(t) = s \o t
<1>1. /\ Head(t) \in Metric /\ Tail(t) \in Seq(Metric) /\ Len(Tail(t)) = Len(t) - 1
      /\ \A i \in 1 .. Len(Tail(t)) : Tail(t)[i] = t[i + 1]
      /\ Head(t) = t[1]
  BY HeadTailProperties
<1>2. /\ Append(s, Head(t)) \in Seq(Metric)
      /\ Len(Append(s, Head(t))) = Len(s) + 1
      /\ \A i \in 1 .. Len(s) : Append(s, Head(t))[i] = s[i]
      /\ Append(s, Head(t))[Len(s) + 1] = Head(t)
  BY <1>1, AppendProperties
<1>3. Len(s) \in Nat /\ Len(t) \in Nat /\ Len(t) > 0
  BY LenProperties, EmptySeq
<1> DEFINE left == Append(s, Head(t)) \o Tail(t)
           right == s \o t
<1>4. /\ left \in Seq(Metric) /\ Len(left) = Len(s) + 1 + (Len(t) - 1)
      /\ \A i \in 1 .. Len(s) + 1 + (Len(t) - 1) :
           left[i] = IF i <= Len(s) + 1 THEN Append(s, Head(t))[i]
                                        ELSE Tail(t)[i - (Len(s) + 1)]
  BY <1>1, <1>2, ConcatProperties
<1>5. /\ right \in Seq(Metric) /\ Len(right) = Len(s) + Len(t)
      /\ \A i \in 1 .. Len(s) + Len(t) :
           right[i] = IF i <= Len(s) THEN s[i] ELSE t[i - Len(s)]
  BY ConcatProperties
<1>6. ASSUME NEW i \in 1 .. Len(s) + Len(t)
      PROVE  left[i] = right[i]
  <2>1. CASE i <= Len(s)
    BY <2>1, <1>2, <1>3, <1>4, <1>5
  <2>2. CASE i = Len(s) + 1
    BY <2>2, <1>1, <1>2, <1>3, <1>4, <1>5
  <2>3. CASE i > Len(s) + 1
    <3>1. i - (Len(s) + 1) \in 1 .. Len(Tail(t)) /\ i - (Len(s) + 1) + 1 = i - Len(s)
      BY <2>3, <1>1, <1>3
    <3>2. Tail(t)[i - (Len(s) + 1)] = t[i - Len(s)]
      BY <3>1, <1>1
    <3> QED
      BY <2>3, <3>2, <1>3, <1>4, <1>5
  <2> QED
    BY <2>1, <2>2, <2>3, <1>3
<1>7. Len(left) = Len(right)
  BY <1>3, <1>4, <1>5
<1> HIDE DEF left, right
<1>8. left = right
  BY <1>4, <1>5, <1>6, <1>7, SeqEqual
<1> QED
  BY <1>8 DEF left, right

----------------------------------------------------------------------------
(* A flush.                                                                *)

\* What flush() does with a buffer b that Run holds between two posts: the metrics of b
\* are kept to be posted, or leave as discarded; nothing that was handled is forgotten.
LEMMA FlushStep ==
    ASSUME TypeOK, pc = "select", NEW b \in Seq(Metric), NEW last \in BOOLEAN,
           last => closed, closed' = closed, StartFlush(b, last)
    PROVE  /\ buf' \in Seq(Metric) /\ gone' \in Seq(Metric)
           /\ attempt' \in 0 .. MaxRetries + 1 /\ pc' \in {"select", "post", "exited"}
           /\ final' = last /\ (pc' = "exited" => last)
           /\ (pc' \in {"post", "delay"} <=> attempt' > 0)
           /\ discarded' \subseteq 1 .. MaxAdds /\ failures' \in 0 .. MaxAdds
           /\ handled' = handled /\ unsure' = unsure
           /\ gone' \o buf' = gone \o b
           /\ (buf' = b /\ failures' = failures) \/ (buf' = << >> /\ failures' = 0)
           /\ pc' # "post" => buf' = << >>
           /\ Ids(gone') \ discarded' \subseteq Ids(gone) \ discarded
<1>0. /\ gone \in Seq(Metric) /\ attempt = 0 /\ discarded \subseteq 1 .. MaxAdds
      /\ failures \in 0 .. MaxAdds /\ MaxRetries \in Nat /\ MaxAdds \in Nat
  BY BatcherAssumption DEF TypeOK
<1>1. handled' = handled /\ unsure' = unsure /\ final' = last
  BY DEF StartFlush
<1>2. CASE b = << >> /\ pc' = AfterFlush(last) /\ buf' = b
           /\ UNCHANGED <<attempt, gone, discarded, failures>>
  BY <1>0, <1>1, <1>2 DEF AfterFlush
<1>3. CASE /\ pc' = AfterFlush(last) /\ buf' = << >>
           /\ gone' = gone \o b /\ discarded' = discarded \cup Ids(b) /\ failures' = 0
           /\ UNCHANGED attempt
  <2>1. gone' \in Seq(Metric) /\ Ids(gone') = Ids(gone) \cup Ids(b)
    BY <1>0, <1>3, ConcatProperties, IdsOfConcat
  <2>2. gone' \o buf' = gone'
    BY <1>3, <2>1, ConcatEmptySeq
  <2>3. << >> \in Seq(Metric) /\ Ids(b) \subseteq 1 .. MaxAdds
    BY EmptySeq, IdsInRange
  <2>4. Ids(gone') \ discarded' \subseteq Ids(gone) \ discarded
    BY <1>3, <2>1
  <2>5. pc' \in {"select", "exited"} /\ (pc' = "exited" => last)
    BY <1>3 DEF AfterFlush
  <2>6. attempt' = 0 /\ attempt' \in 0 .. MaxRetries + 1 /\ failures' \in 0 .. MaxAdds
    BY <1>0, <1>3
  <2>7. ~(attempt' > 0) /\ pc' \notin {"post", "delay"}
    BY <2>5, <2>6
  <2>8. discarded' \subseteq 1 .. MaxAdds
    BY <1>0, <1>3, <2>3
  <2>9. gone' \o buf' = gone \o b
    BY <1>3, <2>2
  <2> QED
    BY <1>1, <1>3, <2>1, <2>3, <2>4, <2>5, <2>6, <2>7, <2>8, <2>9
<1>4. CASE b # << >> /\ pc' = "post" /\ attempt' = 1 /\ buf' = b
           /\ UNCHANGED <<gone, discarded, failures>>
  BY <1>0, <1>1, <1>4
<1> QED
  BY <1>2, <1>3, <1>4 DEF StartFlush

LEMMA EmptyBound ==
    \A m, f \in Nat : m >= 1 => 0 <= m + f - 1 /\ 0 <= m + f - 0
  OBVIOUS

\* The invariant after a flush of b, when b and the channel hold what the buffer and the
\* channel held.
LEMMA FlushKeeps ==
    ASSUME BInv, pc = "select", NEW b \in Seq(Metric), NEW last \in BOOLEAN,
           last => closed /\ in = << >>,
           StartFlush(b, last),
           UNCHANGED <<closed, added, accepted>>,
           in' \in Seq(Metric), Len(in') <= Cap, last => in' = << >>,
           final \/ pc = "exited" => in' = << >>,
           b \o in' = buf \o in,
           MaxSize > 0 => Len(b) <= MaxSize + failures,
           Ids(b) \cup Ids(in') \subseteq Ids(buf) \cup Ids(in),
           Ids(in') \subseteq Ids(in),
           \A i, j \in DOMAIN in' : i < j => in'[i].id < in'[j].id,
           \A i \in DOMAIN b, j \in DOMAIN in' : b[i].id < in'[j].id,
           \A i \in DOMAIN in' : in'[i].id <= added,
           \A i \in DOMAIN b : b[i].id <= added
    PROVE  BInv'
<1>0. /\ TypeOK /\ FinalIsEmpty /\ InOrder /\ AcceptedBounded /\ HandledSoFar /\ HandledOnce
      /\ MaxSize \in Nat /\ MaxAdds \in Nat /\ MaxRetries \in Nat
  BY BatcherAssumption DEF BInv
<1>1. /\ buf' \in Seq(Metric) /\ gone' \in Seq(Metric)
      /\ attempt' \in 0 .. MaxRetries + 1 /\ pc' \in {"select", "post", "exited"}
      /\ final' = last /\ (pc' = "exited" => last)
      /\ (pc' \in {"post", "delay"} <=> attempt' > 0)
      /\ discarded' \subseteq 1 .. MaxAdds /\ failures' \in 0 .. MaxAdds
      /\ handled' = handled /\ unsure' = unsure
      /\ gone' \o buf' = gone \o b
      /\ (buf' = b /\ failures' = failures) \/ (buf' = << >> /\ failures' = 0)
      /\ pc' # "post" => buf' = << >>
      /\ Ids(gone') \ discarded' \subseteq Ids(gone) \ discarded
  BY <1>0, FlushStep
<1>2. TypeOK'
  BY <1>0, <1>1 DEF TypeOK
<1>3. DelayHasRetry' /\ FinalIsEmpty'
  BY <1>0, <1>1 DEF DelayHasRetry, FinalIsEmpty
<1>4. InOrder'
  <2>0. gone \in Seq(Metric) /\ buf \in Seq(Metric) /\ in \in Seq(Metric)
    BY <1>0 DEF TypeOK
  <2>1. gone \o buf \o in = gone \o (buf \o in)
    BY <2>0, ConcatAssoc, ZenonT(40)
  <2>2. gone \o b \o in' = gone \o (b \o in')
    BY <2>0, ConcatAssoc, ZenonT(40)
  <2>3. accepted = gone \o buf \o in
    BY <1>0 DEF InOrder
  <2> QED
    BY <1>1, <2>1, <2>2, <2>3 DEF InOrder
<1>5. AcceptedBounded'
  BY <1>0 DEF AcceptedBounded
<1>6. GrowthBounded' /\ ExitFlushes'
  <2>1. Len(<< >>) = 0 /\ Len(b) \in Nat
    BY LenProperties
  <2>2. ExitFlushes'
    BY <1>1 DEF ExitFlushes
  <2>3. CASE buf' = << >>
    <3>1. Len(buf') = 0 /\ failures' \in Nat
      BY <1>0, <1>1, <2>1, <2>3
    <3>2. MaxSize \in Nat /\ (MaxSize > 0 => MaxSize >= 1)
      BY <1>0
    <3>3. MaxSize > 0 => 0 <= MaxSize + failures' - 1 /\ 0 <= MaxSize + failures' - 0
      BY <3>1, <3>2, EmptyBound
    <3>4. GrowthBounded'
      BY <3>1, <3>3 DEF GrowthBounded
    <3> QED
      BY <2>2, <3>4
  <2>4. CASE buf' = b /\ failures' = failures /\ buf' # << >>
    <3>1. pc' = "post"
      BY <1>1, <2>4
    <3> QED
      BY <1>0, <1>1, <2>1, <2>2, <2>4, <3>1 DEF GrowthBounded
  <2> QED
    BY <1>1, <2>3, <2>4
<1>7. Ordered'
  BY <1>1 DEF Ordered
<1>8. HandledSoFar'
  <2>1. Ids(buf') \subseteq Ids(b)
    BY <1>1, IdsOfEmpty
  <2>2. ASSUME NEW m \in Ids(b), handled[m] > 0
        PROVE  m \in unsure
    <3>1. m \in 1 .. MaxAdds
      BY IdsInRange
    <3> QED
      BY <1>0, <2>2, <3>1 DEF HandledSoFar
  <2> QED
    BY <1>0, <1>1, <2>1, <2>2 DEF HandledSoFar, Ids
<1>9. HandledOnce'
  BY <1>0, <1>1 DEF HandledOnce, Ids
<1> QED
  BY <1>2, <1>3, <1>4, <1>5, <1>6, <1>7, <1>8, <1>9 DEF BInv

----------------------------------------------------------------------------
(* The steps.                                                              *)

LEMMA InitInv == Init => BInv
<1> SUFFICES ASSUME Init PROVE BInv
  OBVIOUS
<1>1. /\ MaxSize \in Nat /\ (MaxSize > 0 => MaxSize >= 1) /\ Cap \in Nat /\ MaxAdds \in Nat /\ MaxRetries \in Nat
  BY BatcherAssumption
<1>2. << >> \in Seq(Metric) /\ Len(<< >>) = 0 /\ DOMAIN << >> = {} /\ << >> \o << >> = << >>
  BY EmptySeq, ConcatEmptySeq
<1>3. TypeOK
  <2>1. handled \in [1 .. MaxAdds -> 0 .. 2]
    BY DEF Init
  <2>2. /\ added \in 0 .. MaxAdds /\ attempt \in 0 .. MaxRetries + 1 /\ failures \in 0 .. MaxAdds
        /\ Len(in) <= Cap /\ ~(attempt > 0)
    BY <1>1, <1>2 DEF Init
  <2> QED
    BY <1>2, <2>1, <2>2 DEF Init, TypeOK
<1>4. DelayHasRetry /\ FinalIsEmpty /\ InOrder /\ AcceptedBounded /\ ExitFlushes /\ Ordered
  BY <1>2 DEF Init, DelayHasRetry, FinalIsEmpty, InOrder, AcceptedBounded, ExitFlushes, Ordered
<1>5. GrowthBounded
  BY <1>1, <1>2 DEF Init, GrowthBounded
<1>6. HandledSoFar /\ HandledOnce
  BY <1>2, IdsOfEmpty DEF Init, HandledSoFar, HandledOnce
<1> QED
  BY <1>3, <1>4, <1>5, <1>6 DEF BInv

\* Add: the new metric is later than all the others.
LEMMA AddKeeps == BInv /\ Add => BInv'
<1> SUFFICES ASSUME BInv, Add PROVE BInv'
  OBVIOUS
<1>0. /\ TypeOK /\ FinalIsEmpty /\ InOrder /\ AcceptedBounded /\ HandledSoFar /\ HandledOnce
      /\ Ordered /\ MaxAdds \in Nat /\ added \in Nat /\ added < MaxAdds
  BY BatcherAssumption DEF BInv, Add, TypeOK
<1>1. UNCHANGED <<closed, runVars, history>> /\ added' = added + 1 /\ ~closed
  BY DEF Add
<1>2. UNCHANGED <<closed, buf, pc, attempt, final, gone, discarded, handled, unsure, failures>>
  BY <1>1 DEF runVars, history
<1>3. DelayHasRetry' /\ GrowthBounded' /\ HandledOnce'
  BY <1>2 DEF BInv, DelayHasRetry, GrowthBounded, HandledOnce, Ids
<1>4. pc # "exited" /\ ~final
  BY <1>0, <1>1 DEF FinalIsEmpty
<1>5. FinalIsEmpty' /\ ExitFlushes'
  BY <1>2, <1>4 DEF FinalIsEmpty, ExitFlushes
<1>6. CASE UNCHANGED <<in, accepted>>
  <2>1. TypeOK' /\ InOrder'
    BY <1>0, <1>1, <1>2, <1>6 DEF TypeOK, InOrder
  <2>2. AcceptedBounded'
    BY <1>0, <1>1, <1>6, LenProperties DEF AcceptedBounded, TypeOK
  <2>3. in \in Seq(Metric) /\ buf \in Seq(Metric)
    BY <1>0 DEF TypeOK
  <2>4. /\ \A i \in DOMAIN in : in[i].id <= added + 1
        /\ \A i \in DOMAIN buf : buf[i].id <= added + 1
    BY <1>0, <2>3, IdIsNat DEF Ordered
  <2>5. Ordered'
    BY <1>0, <1>1, <1>2, <1>6, <2>4 DEF Ordered
  <2>6. \A n \in 1 .. MaxAdds : n > added + 1 => n > added
    BY <1>0
  <2>7. HandledSoFar'
    BY <1>0, <1>1, <1>2, <1>6, <2>6 DEF HandledSoFar, Ids
  <2> QED
    BY <1>3, <1>5, <2>1, <2>2, <2>5, <2>7 DEF BInv
<1>7. ASSUME NEW m \in Metric, m.id = added + 1, Len(in) < Cap,
             in' = Append(in, m), accepted' = Append(accepted, m)
      PROVE  BInv'
  <2>1. in \in Seq(Metric) /\ buf \in Seq(Metric) /\ accepted \in Seq(Metric) /\ gone \in Seq(Metric)
    BY <1>0 DEF TypeOK
  <2>2. /\ in' \in Seq(Metric) /\ Len(in') = Len(in) + 1
        /\ \A i \in 1 .. Len(in) : in'[i] = in[i]
        /\ in'[Len(in) + 1] = m
        /\ accepted' \in Seq(Metric) /\ Len(accepted') = Len(accepted) + 1
    BY <1>7, <2>1, AppendProperties
  <2>3. /\ Len(in) \in Nat /\ Len(accepted) \in Nat
        /\ DOMAIN in = 1 .. Len(in) /\ DOMAIN in' = 1 .. Len(in) + 1
        /\ DOMAIN buf = 1 .. Len(buf)
    BY <2>1, <2>2, LenProperties
  <2>4. TypeOK'
    <3>1. Len(in') <= Cap
      BY <1>7, <2>2, <2>3, BatcherAssumption
    <3> QED
      BY <1>0, <1>1, <1>2, <2>2, <3>1 DEF TypeOK
  <2>5. InOrder'
    <3>1. << m >> \in Seq(Metric) /\ gone \o buf \in Seq(Metric)
      BY <2>1, ConcatProperties
    <3>2. in' = in \o << m >> /\ accepted' = accepted \o << m >>
      BY <1>7, <2>1, AppendIsConcat
    <3>3. (gone \o buf \o in) \o << m >> = gone \o buf \o (in \o << m >>)
      <4> DEFINE s == gone \o buf
                 u == << m >>
      <4>1. s \in Seq(Metric) /\ u \in Seq(Metric) /\ in \in Seq(Metric)
        BY <2>1, <3>1
      <4> HIDE DEF s, u
      <4>2. (s \o in) \o u = s \o (in \o u)
        BY <4>1, ConcatAssoc
      <4> QED BY <4>2 DEF s, u
    <3>4. accepted = gone \o buf \o in
      BY <1>0 DEF InOrder
    <3> QED
      BY <1>2, <3>2, <3>3, <3>4 DEF InOrder
  <2>6. AcceptedBounded'
    BY <1>0, <1>1, <2>2, <2>3 DEF AcceptedBounded
  <2>7. Ordered'
    <3>1. ASSUME NEW i \in DOMAIN in
          PROVE  in[i].id \in Nat /\ in[i].id <= added
      BY <1>0, <2>1, IdIsNat DEF Ordered
    <3>2. ASSUME NEW i \in DOMAIN buf
          PROVE  buf[i].id \in Nat /\ buf[i].id <= added
      BY <1>0, <2>1, IdIsNat DEF Ordered
    <3>3. ASSUME NEW i \in DOMAIN in'
          PROVE  in'[i].id \in Nat /\ in'[i].id <= added'
      BY <1>0, <1>1, <1>7, <2>2, <2>3, <3>1
    <3>4. ASSUME NEW i \in DOMAIN in', NEW j \in DOMAIN in', i < j
          PROVE  in'[i].id < in'[j].id
      <4>1. i \in DOMAIN in /\ in'[i] = in[i]
        BY <2>2, <2>3, <3>4
      <4>2. CASE j \in DOMAIN in
        BY <1>0, <2>2, <2>3, <3>4, <4>1, <4>2 DEF Ordered
      <4>3. CASE j = Len(in) + 1
        BY <1>0, <1>7, <2>2, <3>1, <4>1, <4>3
      <4> QED
        BY <2>3, <4>2, <4>3
    <3>5. ASSUME NEW i \in DOMAIN buf, NEW j \in DOMAIN in'
          PROVE  buf[i].id < in'[j].id
      <4>1. CASE j \in DOMAIN in
        BY <1>0, <2>2, <2>3, <4>1 DEF Ordered
      <4>2. CASE j = Len(in) + 1
        BY <1>0, <1>7, <2>2, <3>2, <4>2
      <4> QED
        BY <2>3, <4>1, <4>2
    <3>6. ASSUME NEW i \in DOMAIN buf
          PROVE  buf[i].id <= added'
      BY <1>0, <1>1, <3>2
    <3> QED
      BY <1>2, <3>3, <3>4, <3>5, <3>6 DEF Ordered
  <2>8. HandledSoFar'
    <3>1. Ids(in') \subseteq Ids(in) \cup {added + 1}
      BY <1>7, <2>2, <2>3 DEF Ids
    <3>2. ASSUME NEW n \in 1 .. MaxAdds, n > added' \/ n \in Ids(in')
          PROVE  handled[n] = 0
      BY <1>0, <1>1, <3>1, <3>2 DEF HandledSoFar
    <3> QED
      BY <1>0, <1>2, <3>2 DEF HandledSoFar, Ids
  <2> QED
    BY <1>3, <1>5, <2>4, <2>5, <2>6, <2>7, <2>8 DEF BInv
<1>8. PICK e \in BOOLEAN :
        IF Len(in) < Cap
          THEN /\ in' = Append(in, [id |-> added + 1, encodes |-> e])
               /\ accepted' = Append(accepted, [id |-> added + 1, encodes |-> e])
          ELSE UNCHANGED <<in, accepted>>
  BY DEF Add
<1>9. [id |-> added + 1, encodes |-> e] \in Metric
  BY <1>0 DEF Metric
<1> QED
  BY <1>6, <1>7, <1>8, <1>9

LEMMA CloseKeeps == BInv /\ Close => BInv'
  BY DEF BInv, Close, TypeOK, DelayHasRetry, FinalIsEmpty, InOrder, AcceptedBounded,
         GrowthBounded, ExitFlushes, Ordered, HandledSoFar, HandledOnce, Ids, runVars, history

\* Receive: the head of the channel becomes the end of the buffer.
LEMMA ReceiveKeeps == BInv /\ Receive => BInv'
<1> SUFFICES ASSUME BInv, Receive PROVE BInv'
  OBVIOUS
<1> DEFINE b == Append(buf, Head(in))
<1>0. /\ TypeOK /\ FinalIsEmpty /\ InOrder /\ GrowthBounded /\ HandledSoFar /\ Ordered
      /\ MaxSize \in Nat /\ (MaxSize > 0 => MaxSize >= 1) /\ Cap \in Nat /\ MaxAdds \in Nat
  BY BatcherAssumption DEF BInv
<1>1. /\ pc = "select" /\ in # << >> /\ in' = Tail(in)
      /\ UNCHANGED <<closed, added, accepted>>
  BY DEF Receive
<1>2. in \in Seq(Metric) /\ buf \in Seq(Metric) /\ gone \in Seq(Metric)
  BY <1>0 DEF TypeOK
<1>3. /\ Head(in) \in Metric /\ in' \in Seq(Metric) /\ Len(in') = Len(in) - 1
      /\ \A i \in 1 .. Len(in') : in'[i] = in[i + 1]
      /\ Head(in) = in[1]
  BY <1>1, <1>2, HeadTailProperties
<1>4. /\ b \in Seq(Metric) /\ Len(b) = Len(buf) + 1
      /\ \A i \in 1 .. Len(buf) : b[i] = buf[i]
      /\ b[Len(buf) + 1] = in[1]
  BY <1>2, <1>3, AppendProperties
<1>5. /\ Len(in) \in Nat /\ Len(buf) \in Nat /\ Len(in) >= 1
      /\ DOMAIN in = 1 .. Len(in) /\ DOMAIN in' = 1 .. Len(in) - 1
      /\ DOMAIN buf = 1 .. Len(buf) /\ DOMAIN b = 1 .. Len(buf) + 1
  BY <1>1, <1>2, <1>3, <1>4, LenProperties, EmptySeq
<1>6. b \o in' = buf \o in
  BY <1>1, <1>2, MoveHead
<1> HIDE DEF b
<1>7. /\ Ids(b) \cup Ids(in') \subseteq Ids(buf) \cup Ids(in)
      /\ Ids(in') \subseteq Ids(in)
      /\ Ids(b) = Ids(buf) \cup {in[1].id}
  <2>1. 1 \in DOMAIN in /\ Len(buf) + 1 \in DOMAIN b
    BY <1>5
  <2>2. \A i \in DOMAIN in' : i + 1 \in DOMAIN in /\ in'[i] = in[i + 1]
    BY <1>3, <1>5
  <2>3. \A i \in DOMAIN b : (i \in DOMAIN buf /\ b[i] = buf[i]) \/ b[i] = in[1]
    BY <1>4, <1>5
  <2>4. \A i \in DOMAIN buf : i \in DOMAIN b /\ b[i] = buf[i]
    BY <1>4, <1>5
  <2>5. b[Len(buf) + 1] = in[1]
    BY <1>4
  <2> QED
    BY <2>1, <2>2, <2>3, <2>4, <2>5 DEF Ids
<1>8. /\ \A i \in DOMAIN in : in[i].id \in Nat
      /\ \A i \in DOMAIN buf : buf[i].id \in Nat
      /\ added \in Nat
  BY <1>0, <1>2, IdIsNat DEF TypeOK
<1>9. /\ \A i, j \in DOMAIN in' : i < j => in'[i].id < in'[j].id
      /\ \A i \in DOMAIN b, j \in DOMAIN in' : b[i].id < in'[j].id
      /\ \A i \in DOMAIN in' : in'[i].id <= added
      /\ \A i \in DOMAIN b : b[i].id <= added
  <2>1. ASSUME NEW i \in DOMAIN in'
        PROVE  i + 1 \in DOMAIN in /\ in'[i] = in[i + 1] /\ 1 \in DOMAIN in /\ 1 < i + 1
    BY <1>3, <1>5
  <2>2. ASSUME NEW i \in DOMAIN in', NEW j \in DOMAIN in', i < j
        PROVE  in'[i].id < in'[j].id
    <3>1. i + 1 < j + 1
      BY <1>5, <2>2
    <3> QED
      BY <1>0, <2>1, <3>1 DEF Ordered
  <2>3. ASSUME NEW i \in DOMAIN b, NEW j \in DOMAIN in'
        PROVE  b[i].id < in'[j].id
    <3>1. CASE i \in DOMAIN buf
      BY <1>0, <1>4, <1>5, <2>1, <3>1 DEF Ordered
    <3>2. CASE b[i] = in[1]
      BY <1>0, <2>1, <3>2 DEF Ordered
    <3> QED
      BY <1>4, <1>5, <3>1, <3>2
  <2>4. ASSUME NEW i \in DOMAIN b
        PROVE  b[i].id <= added
    <3>1. CASE i \in DOMAIN buf
      BY <1>0, <1>4, <1>5, <3>1 DEF Ordered
    <3>2. CASE b[i] = in[1]
      BY <1>0, <1>5, <3>2 DEF Ordered
    <3> QED
      BY <1>4, <1>5, <3>1, <3>2
  <2>5. \A i \in DOMAIN in' : in'[i].id <= added
    BY <1>0, <2>1 DEF Ordered
  <2> QED
    BY <2>2, <2>3, <2>4, <2>5
<1>10. Len(in') <= Cap /\ (MaxSize > 0 => Len(b) <= MaxSize + failures)
  <2>1. Len(in) <= Cap /\ failures \in Nat
    BY <1>0 DEF TypeOK
  <2>2. MaxSize > 0 => Len(buf) <= MaxSize + failures - 1
    BY <1>0, <1>1 DEF GrowthBounded
  <2> QED
    BY <1>0, <1>3, <1>4, <1>5, <2>1, <2>2
<1>11. ~final
  BY <1>0, <1>1 DEF FinalIsEmpty
<1>12. CASE MaxSize > 0 /\ Len(b) >= MaxSize
  <2>1. StartFlush(b, FALSE)
    BY <1>12 DEF Receive, b
  <2> QED
    BY <1>1, <1>3, <1>4, <1>6, <1>7, <1>9, <1>10, <1>11, <2>1, FlushKeeps
<1>13. CASE ~(MaxSize > 0 /\ Len(b) >= MaxSize)
  <2>1. buf' = b /\ UNCHANGED <<pc, attempt, final, gone, discarded, handled, unsure, failures>>
    BY <1>13 DEF Receive, b, history
  <2>2. TypeOK'
    BY <1>0, <1>1, <1>3, <1>4, <1>10, <2>1 DEF TypeOK
  <2>3. DelayHasRetry' /\ FinalIsEmpty' /\ AcceptedBounded' /\ ExitFlushes' /\ HandledOnce'
    BY <1>1, <1>11, <2>1
       DEF BInv, DelayHasRetry, FinalIsEmpty, AcceptedBounded, ExitFlushes, HandledOnce, Ids
  <2>4. InOrder'
    <3>1. accepted = gone \o (buf \o in) /\ gone \o b \o in' = gone \o (b \o in')
      BY <1>0, <1>2, <1>3, <1>4, ConcatAssoc DEF InOrder
    <3> QED
      BY <1>1, <1>6, <2>1, <3>1 DEF InOrder
  <2>5. GrowthBounded'
    <3>1. MaxSize > 0 => Len(b) <= MaxSize + failures - 1
      <4>1. Len(b) \in Nat /\ failures \in Nat
        BY <1>0, <1>4, <1>5 DEF TypeOK
      <4> QED
        BY <1>0, <1>13, <4>1
    <3> QED
      BY <1>1, <2>1, <3>1 DEF GrowthBounded
  <2>6. Ordered'
    BY <1>1, <1>9, <2>1 DEF Ordered
  <2>7. HandledSoFar'
    <3>1. in[1].id \in 1 .. MaxAdds /\ in[1].id \in Ids(in)
      BY <1>2, <1>5, IdsInRange DEF Ids
    <3>2. handled[in[1].id] = 0
      BY <1>0, <3>1 DEF HandledSoFar
    <3>3. \A m \in Ids(b) : handled[m] > 0 => m \in unsure
      BY <1>0, <1>7, <3>2 DEF HandledSoFar
    <3> QED
      BY <1>0, <1>1, <1>7, <2>1, <3>3 DEF HandledSoFar, Ids
  <2> QED
    BY <2>2, <2>3, <2>4, <2>5, <2>6, <2>7 DEF BInv
<1> QED
  BY <1>12, <1>13

\* Tick and FindClosed flush the buffer as it is.
LEMMA FlushBufKeeps ==
    ASSUME BInv, pc = "select", NEW last \in BOOLEAN, last => closed /\ in = << >>,
           StartFlush(buf, last), UNCHANGED chanVars
    PROVE  BInv'
<1>1. TypeOK /\ GrowthBounded /\ Ordered /\ FinalIsEmpty /\ MaxSize \in Nat
  BY BatcherAssumption DEF BInv
<1>2. UNCHANGED <<in, closed, added, accepted>>
  BY DEF chanVars
<1>3. in \in Seq(Metric) /\ Len(in) <= Cap /\ buf \in Seq(Metric) /\ failures \in Nat
  BY <1>1 DEF TypeOK
<1>4. MaxSize > 0 => Len(buf) <= MaxSize + failures
  <2>1. (MaxSize > 0 => Len(buf) <= MaxSize + failures - 1) /\ Len(buf) \in Nat
    BY <1>1, <1>3, LenProperties DEF GrowthBounded
  <2> QED
    BY <1>1, <1>3, <2>1
<1>5. final \/ pc = "exited" => in = << >>
  BY <1>1 DEF FinalIsEmpty
<1> QED
  BY <1>1, <1>2, <1>3, <1>4, <1>5, FlushKeeps DEF Ordered

LEMMA TickKeeps == BInv /\ Tick => BInv'
  BY FlushBufKeeps DEF Tick

LEMMA FindClosedKeeps == BInv /\ FindClosed => BInv'
  BY FlushBufKeeps DEF FindClosed

LEMMA RetryKeeps == BInv /\ Retry => BInv'
<1> SUFFICES ASSUME BInv, Retry PROVE BInv'
  OBVIOUS
<1>1. /\ pc = "delay" /\ pc' = "post" /\ attempt' = attempt + 1
      /\ UNCHANGED <<in, closed, added, accepted, buf, final, gone, discarded, handled,
                     unsure, failures>>
  BY DEF Retry, chanVars, history
<1>2. TypeOK /\ DelayHasRetry /\ MaxRetries \in Nat
  BY BatcherAssumption DEF BInv
<1>3. attempt' \in 0 .. MaxRetries + 1 /\ attempt' > 0
  BY <1>1, <1>2 DEF TypeOK, DelayHasRetry
<1>4. TypeOK'
  BY <1>1, <1>2, <1>3 DEF TypeOK
<1> QED
  BY <1>1, <1>4 DEF BInv, DelayHasRetry, FinalIsEmpty, InOrder, AcceptedBounded,
         GrowthBounded, ExitFlushes, Ordered, HandledSoFar, HandledOnce, Ids

\* What a post does to the history of the metrics it holds.
LEMMA PostHistory ==
    ASSUME BInv, NEW o \in Outcomes, Post(o)
    PROVE  /\ handled' \in [1 .. MaxAdds -> 0 .. 2] /\ unsure' \subseteq 1 .. MaxAdds
           /\ unsure \subseteq unsure'
           /\ \A m \in 1 .. MaxAdds : handled[m] > 0 => handled'[m] > 0
           /\ \A m \in 1 .. MaxAdds : m \notin Ids(buf) => handled'[m] = handled[m]
           /\ \A m \in Ids(buf) : o = "ok" => handled'[m] > 0
           /\ \A m \in Ids(buf) : o # "ok" /\ handled'[m] > 0 => m \in unsure'
           /\ \A m \in 1 .. MaxAdds : handled'[m] = 2 => m \in unsure'
<1>1. /\ handled \in [1 .. MaxAdds -> 0 .. 2] /\ unsure \subseteq 1 .. MaxAdds
      /\ Ids(buf) \subseteq 1 .. MaxAdds
      /\ \A m \in Ids(buf) : handled[m] > 0 => m \in unsure
      /\ \A m \in 1 .. MaxAdds : handled[m] = 2 => m \in unsure
  BY IdsInRange DEF BInv, TypeOK, HandledSoFar, HandledOnce
<1>2. CASE o = "notHandled"
  <2>1. handled' = handled /\ unsure' = unsure
    BY <1>2 DEF Post, Reaches
  <2> QED
    BY <1>1, <1>2, <2>1
<1>3. CASE Reaches(o)
  <2>1. /\ handled' = [i \in 1 .. MaxAdds |->
                         IF i \in Ids(buf) /\ handled[i] < 2 THEN handled[i] + 1 ELSE handled[i]]
        /\ unsure' = IF o = "replyLost" THEN unsure \cup Ids(buf) ELSE unsure
    BY <1>1, <1>3 DEF Post
  <2>2. \A m \in 1 .. MaxAdds : handled[m] \in 0 .. 2
    BY <1>1
  <2>3. \A m \in 1 .. MaxAdds :
          /\ handled'[m] \in 0 .. 2
          /\ handled[m] > 0 => handled'[m] > 0
          /\ m \notin Ids(buf) => handled'[m] = handled[m]
          /\ m \in Ids(buf) => handled'[m] > 0
          /\ handled'[m] = 2 => handled[m] > 0
    BY <2>1, <2>2
  <2>4. handled' \in [1 .. MaxAdds -> 0 .. 2]
    BY <2>1, <2>3
  <2>5. unsure \subseteq unsure' /\ unsure' \subseteq 1 .. MaxAdds
    BY <1>1, <2>1
  <2>6. ASSUME NEW m \in 1 .. MaxAdds, handled'[m] = 2
        PROVE  m \in unsure'
    <3>1. CASE m \in Ids(buf)
      BY <1>1, <2>3, <2>5, <2>6, <3>1
    <3>2. CASE m \notin Ids(buf)
      BY <1>1, <2>3, <2>5, <2>6, <3>2
    <3> QED
      BY <3>1, <3>2
  <2>7. \A m \in Ids(buf) : o # "ok" => m \in unsure'
    BY <1>3, <2>1 DEF Reaches
  <2> QED
    BY <1>1, <2>3, <2>4, <2>5, <2>6, <2>7
<1> QED
  BY <1>2, <1>3 DEF Outcomes, Reaches

LEMMA PostKeeps == ASSUME BInv, NEW o \in Outcomes, Post(o) PROVE BInv'
<1>0. /\ TypeOK /\ FinalIsEmpty /\ InOrder /\ AcceptedBounded /\ GrowthBounded
      /\ Ordered /\ HandledSoFar /\ HandledOnce
      /\ MaxSize \in Nat /\ (MaxSize > 0 => MaxSize >= 1) /\ MaxAdds \in Nat /\ MaxRetries \in Nat
  BY BatcherAssumption DEF BInv
<1>1. pc = "post" /\ UNCHANGED <<in, closed, added, accepted, final, discarded>>
  BY DEF Post, chanVars
<1>2. /\ handled' \in [1 .. MaxAdds -> 0 .. 2] /\ unsure' \subseteq 1 .. MaxAdds
      /\ unsure \subseteq unsure'
      /\ \A m \in 1 .. MaxAdds : handled[m] > 0 => handled'[m] > 0
      /\ \A m \in 1 .. MaxAdds : m \notin Ids(buf) => handled'[m] = handled[m]
      /\ \A m \in Ids(buf) : o = "ok" => handled'[m] > 0
      /\ \A m \in Ids(buf) : o # "ok" /\ handled'[m] > 0 => m \in unsure'
      /\ \A m \in 1 .. MaxAdds : handled'[m] = 2 => m \in unsure'
  BY PostHistory
<1>3. /\ buf \in Seq(Metric) /\ in \in Seq(Metric) /\ gone \in Seq(Metric)
      /\ Len(buf) \in Nat /\ failures \in 0 .. MaxAdds
  BY <1>0, LenProperties DEF TypeOK
<1>4. AcceptedBounded'
  BY <1>0, <1>1 DEF AcceptedBounded
<1>5. Ids(buf) \subseteq 1 .. MaxAdds /\ Ids(gone) \subseteq 1 .. MaxAdds
  BY <1>3, IdsInRange
<1>6. \A m \in 1 .. MaxAdds : (m > added \/ m \in Ids(in)) => handled'[m] = 0
  <2>1. SUFFICES ASSUME NEW m \in 1 .. MaxAdds, m > added \/ m \in Ids(in)
                 PROVE  m \notin Ids(buf)
    BY <1>0, <1>2 DEF HandledSoFar
  <2>2. SUFFICES ASSUME NEW i \in DOMAIN buf, buf[i].id = m
                 PROVE  FALSE
    BY DEF Ids
  <2>3. buf[i].id \in Nat /\ buf[i].id <= added /\ added \in Nat
    BY <1>0, <1>3, IdIsNat DEF Ordered, TypeOK
  <2>4. CASE m > added
    BY <2>2, <2>3, <2>4
  <2>5. CASE m \in Ids(in)
    <3>1. PICK j \in DOMAIN in : in[j].id = m
      BY <2>5 DEF Ids
    <3>2. buf[i].id < in[j].id
      BY <1>0 DEF Ordered
    <3> QED
      BY <2>2, <2>3, <3>1, <3>2
  <2> QED
    BY <2>1, <2>4, <2>5
<1>7. \A m \in Ids(gone) \ discarded : handled'[m] > 0
  BY <1>0, <1>2, <1>5 DEF HandledOnce
<1>8. AfterFlush(final) \in {"select", "exited"} /\ (AfterFlush(final) = "exited" => final)
  BY DEF AfterFlush
<1>9. CASE /\ o = "ok" /\ pc' = AfterFlush(final) /\ attempt' = 0
           /\ buf' = << >> /\ gone' = gone \o buf /\ failures' = 0
  <2>1. /\ << >> \in Seq(Metric) /\ Len(<< >>) = 0 /\ Ids(<< >>) = {} /\ DOMAIN << >> = {}
        /\ gone' \in Seq(Metric) /\ Ids(gone') = Ids(gone) \cup Ids(buf)
        /\ gone' \o << >> = gone'
    BY <1>3, <1>9, EmptySeq, IdsOfEmpty, ConcatProperties, IdsOfConcat, ConcatEmptySeq
  <2>2. attempt' \in 0 .. MaxRetries + 1 /\ ~(attempt' > 0) /\ failures' \in 0 .. MaxAdds
    BY <1>0, <1>9
  <2>3. TypeOK'
    BY <1>0, <1>1, <1>2, <1>8, <1>9, <2>1, <2>2 DEF TypeOK, FinalIsEmpty
  <2>4. DelayHasRetry' /\ FinalIsEmpty' /\ InOrder'
    BY <1>0, <1>1, <1>8, <1>9, <2>1 DEF DelayHasRetry, FinalIsEmpty, InOrder
  <2>5. ExitFlushes' /\ Ordered'
    BY <1>0, <1>1, <1>8, <1>9, <2>1 DEF ExitFlushes, Ordered, FinalIsEmpty
  <2>6. GrowthBounded'
    <3>1. MaxSize > 0 => 0 <= MaxSize + 0 - 1 /\ 0 <= MaxSize + 0 - 0
      BY <1>0, EmptyBound
    <3> QED
      BY <1>9, <2>1, <3>1 DEF GrowthBounded
  <2>7. HandledSoFar'
    BY <1>1, <1>6, <1>9, <2>1 DEF HandledSoFar, Ids
  <2>8. HandledOnce'
    <3>1. \A m \in Ids(gone') \ discarded' : handled'[m] > 0
      BY <1>1, <1>2, <1>7, <1>9, <2>1
    <3> QED
      BY <1>2, <3>1 DEF HandledOnce, Ids
  <2> QED
    BY <1>4, <2>3, <2>4, <2>5, <2>6, <2>7, <2>8 DEF BInv
<1>10. ASSUME o # "ok", UNCHANGED <<buf, gone>> PROVE InOrder' /\ Ordered' /\ HandledSoFar' /\ HandledOnce'
  <2>1. InOrder' /\ Ordered'
    BY <1>0, <1>1, <1>10 DEF InOrder, Ordered
  <2>2. HandledSoFar'
    BY <1>1, <1>2, <1>6, <1>10 DEF HandledSoFar, Ids
  <2>3. HandledOnce'
    BY <1>1, <1>2, <1>7, <1>10 DEF HandledOnce, Ids
  <2> QED
    BY <2>1, <2>2, <2>3
<1>11. CASE /\ o # "ok" /\ attempt <= MaxRetries
            /\ pc' = "delay" /\ UNCHANGED <<buf, attempt, gone, failures>>
  <2>1. TypeOK'
    BY <1>0, <1>1, <1>2, <1>11 DEF TypeOK
  <2>2. DelayHasRetry' /\ FinalIsEmpty' /\ ExitFlushes'
    BY <1>0, <1>1, <1>11 DEF DelayHasRetry, FinalIsEmpty, ExitFlushes
  <2>3. GrowthBounded'
    BY <1>0, <1>1, <1>11 DEF GrowthBounded
  <2> QED
    BY <1>4, <1>10, <1>11, <2>1, <2>2, <2>3 DEF BInv
<1>12. CASE /\ o # "ok" /\ attempt > MaxRetries
            /\ pc' = AfterFlush(final) /\ attempt' = 0
            /\ failures' = (IF failures < MaxAdds THEN failures + 1 ELSE failures)
            /\ UNCHANGED <<buf, gone>>
  <2>1. attempt' \in 0 .. MaxRetries + 1 /\ ~(attempt' > 0) /\ failures' \in 0 .. MaxAdds
    BY <1>0, <1>3, <1>12
  <2>2. TypeOK'
    BY <1>0, <1>1, <1>2, <1>8, <1>12, <2>1 DEF TypeOK, FinalIsEmpty
  <2>3. DelayHasRetry' /\ FinalIsEmpty'
    BY <1>0, <1>1, <1>8, <1>12 DEF DelayHasRetry, FinalIsEmpty
  \* The buffer is part of what was accepted: it is no larger than the count of Adds.
  <2>4. Len(buf) <= MaxAdds
    <3>1. gone \o buf \in Seq(Metric) /\ Len(gone \o buf) = Len(gone) + Len(buf)
      BY <1>3, ConcatProperties
    <3>2. Len(gone \o buf \o in) = Len(gone \o buf) + Len(in)
      BY <1>3, <3>1, ConcatProperties
    <3>3. Len(gone) \in Nat /\ Len(in) \in Nat
      BY <1>3, LenProperties
    <3>4. added \in 0 .. MaxAdds /\ Len(gone \o buf \o in) <= added
      BY <1>0 DEF TypeOK, AcceptedBounded, InOrder
    <3> QED
      BY <1>0, <1>3, <3>1, <3>2, <3>3, <3>4
  <2>5. GrowthBounded'
    <3>1. MaxSize > 0 => Len(buf) <= MaxSize + failures - 0
      BY <1>0, <1>1 DEF GrowthBounded
    <3>2. MaxSize > 0 => Len(buf) <= MaxSize + failures' - 1 /\ Len(buf) <= MaxSize + failures' - 0
      BY <1>0, <1>3, <1>12, <2>4, <3>1
    <3> QED
      BY <1>12, <3>2 DEF GrowthBounded
  <2>6. ExitFlushes'
    <3>1. CASE buf = << >>
      BY <1>0, <1>1, <1>8, <1>12, <3>1 DEF ExitFlushes, FinalIsEmpty
    <3>2. CASE buf # << >>
      <4>1. Len(buf) > 0
        BY <1>3, <3>2, EmptySeq
      <4>2. failures' > 0
        BY <1>0, <1>3, <1>12, <2>4, <4>1
      <4> QED
        BY <1>0, <1>1, <1>8, <1>12, <4>2 DEF ExitFlushes, FinalIsEmpty
    <3> QED
      BY <3>1, <3>2
  <2> QED
    BY <1>4, <1>10, <1>12, <2>2, <2>3, <2>5, <2>6 DEF BInv
<1> QED
  BY <1>9, <1>11, <1>12 DEF Post

----------------------------------------------------------------------------
(* The theorems.                                                           *)

\* Every step of the batcher keeps the invariant.
THEOREM BatcherInvariant == Spec => []BInv
<1>1. BInv /\ [Next]_vars => BInv'
  <2> SUFFICES ASSUME BInv, [Next]_vars PROVE BInv'
    OBVIOUS
  <2>1. CASE Add
    BY <2>1, AddKeeps
  <2>2. CASE Close
    BY <2>2, CloseKeeps
  <2>3. CASE Receive
    BY <2>3, ReceiveKeeps
  <2>4. CASE Tick
    BY <2>4, TickKeeps
  <2>5. CASE FindClosed
    BY <2>5, FindClosedKeeps
  <2>6. CASE Retry
    BY <2>6, RetryKeeps
  <2>7. ASSUME NEW o \in Outcomes, Post(o) PROVE BInv'
    BY <2>7, PostKeeps
  <2>8. CASE UNCHANGED vars
    BY <2>8 DEF vars, chanVars, runVars, history, BInv, TypeOK, DelayHasRetry, FinalIsEmpty,
         InOrder, AcceptedBounded, GrowthBounded, ExitFlushes, Ordered, HandledSoFar,
         HandledOnce, Ids
  <2> QED
    BY <2>1, <2>2, <2>3, <2>4, <2>5, <2>6, <2>7, <2>8 DEF Next, Run
<1> QED
  BY <1>1, InitInv, PTL DEF Spec

\* The variables of the batcher keep their types.
THEOREM TypeCorrect == Spec => []TypeOK
<1>1. BInv => TypeOK
  BY DEF BInv
<1> QED
  BY <1>1, BatcherInvariant, PTL

\* batcher.go:44-101: what Add accepted leaves the buffer once, in its order.
THEOREM NothingLostOrOvertaken == Spec => []InOrder
<1>1. BInv => InOrder
  BY DEF BInv
<1> QED
  BY <1>1, BatcherInvariant, PTL

\* batcher.go:57-85: what left without being discarded was handled, and more than once
\* only after a reply was lost.
THEOREM LostReplyDoubles == Spec => []HandledOnce
<1>1. BInv => HandledOnce
  BY DEF BInv
<1> QED
  BY <1>1, BatcherInvariant, PTL

\* batcher.go:80-99: the buffer outgrows its size by one metric for each failed flush.
THEOREM GrowthIsBounded == Spec => []GrowthBounded
<1>1. BInv => GrowthBounded
  BY DEF BInv
<1> QED
  BY <1>1, BatcherInvariant, PTL

\* batcher.go:87-93: Run returns with the channel empty, and with metrics in the buffer
\* only after a failed flush.
THEOREM ExitIsFlushed == Spec => []ExitFlushes
<1>1. BInv => ExitFlushes
  BY DEF BInv
<1> QED
  BY <1>1, BatcherInvariant, PTL
=============================================================================
