-------------------------- MODULE DecoyPoolProofs --------------------------
(***************************************************************************)
(* Proofs about DecoyPool, for every pool, number of handlers, window,     *)
(* minimum of samples and backoff that satisfy PoolAssumption: a decoy is  *)
(* out of rotation only while its window says so.                          *)
(***************************************************************************)
EXTENDS DecoyPool, TLAPS

\* The least and the full number of samples, in parts of 1/Scale.
Floor == MinSamples * Scale
Full  == Window * Scale

LEMMA Bounds ==
  /\ Scale \in Nat \ {0}
  /\ Floor \in Nat
  /\ Full \in Nat
  /\ 2 * Floor <= Full
  /\ Scale <= Full
  /\ (Window + 1) * Scale = Full + Scale
<1>1. Window \in Nat /\ MinSamples \in Nat /\ Scale \in Nat \ {0}
  BY PoolAssumption
<1>2. Floor \in Nat /\ Full \in Nat
  BY <1>1 DEF Floor, Full
<1>3. (Window + 1) * Scale = Full + Scale
  BY <1>1 DEF Full
<1>4. (2 * MinSamples) * Scale <= Window * Scale
  <2>1. PICK d \in Nat : Window = 2 * MinSamples + d
    <3>1. Window - 2 * MinSamples \in Nat
      BY <1>1, PoolAssumption
    <3> QED BY <1>1, <3>1
  <2>2. Window * Scale = (2 * MinSamples) * Scale + d * Scale
    BY <1>1, <2>1
  <2>3. d * Scale \in Nat /\ (2 * MinSamples) * Scale \in Nat
    BY <1>1, <2>1
  <2> QED BY <2>2, <2>3
<1>5. (2 * MinSamples) * Scale = 2 * Floor
  BY <1>1 DEF Floor
<1>6. Scale <= Window * Scale
  <2>1. Window - 1 \in Nat /\ Window * Scale = (Window - 1) * Scale + Scale
    BY <1>1, PoolAssumption
  <2>2. (Window - 1) * Scale \in Nat
    BY <1>1, <2>1
  <2> QED BY <1>1, <2>1, <2>2
<1> QED BY <1>1, <1>2, <1>3, <1>4, <1>5, <1>6 DEF Full

LEMMA Halving ==
  ASSUME NEW x \in Nat
  PROVE  x \div 2 \in Nat /\ 2 * (x \div 2) <= x /\ x <= 2 * (x \div 2) + 1
  BY SMT

\* One sample more stays within the window and one, and never falls under the
\* minimum once it was reached; what was less than half of the samples stays so
\* when the new one is a failure.
LEMMA SampledBounds ==
  ASSUME NEW a \in 0 .. Full + Scale, NEW c \in 0 .. Full + Scale,
         NEW full \in BOOLEAN, full <=> a >= Full
  PROVE  /\ Sampled(a, full, Scale) \in 0 .. Full + Scale
         /\ Sampled(c, full, 0) \in 0 .. Full + Scale
         /\ a >= Floor => Sampled(a, full, Scale) >= Floor
         /\ 2 * c < a => 2 * Sampled(c, full, 0) < Sampled(a, full, Scale)
<1>1. a \in Nat /\ c \in Nat /\ Full \in Nat /\ Scale \in Nat \ {0} /\ Floor \in Nat
  BY Bounds
<1>2. CASE full
  <2> DEFINE p == a \div 2
             q == c \div 2
  <2>1. /\ p \in Nat /\ 2 * p <= a /\ a <= 2 * p + 1
        /\ q \in Nat /\ 2 * q <= c /\ c <= 2 * q + 1
    BY <1>1, Halving
  <2>2. Sampled(a, full, Scale) = p + Scale /\ Sampled(c, full, 0) = q + 0
    BY <1>2 DEF Sampled
  <2>3. a >= Full
    BY <1>2
  <2> HIDE DEF p, q
  <2> QED BY <1>1, <2>1, <2>2, <2>3, Bounds
<1>3. CASE ~full
  <2>1. Sampled(a, full, Scale) = a + Scale /\ Sampled(c, full, 0) = c + 0
    BY <1>3 DEF Sampled
  <2>2. a < Full
    BY <1>1, <1>3
  <2> QED BY <1>1, <2>1, <2>2, Bounds
<1> QED BY <1>2, <1>3

\* There are never more confirmations than samples.
ConfirmsBounded == \A n \in Decoys : confirms[n] <= attempts[n]

LEMMA ConfirmBounds ==
  ASSUME NEW a \in 0 .. Full + Scale, NEW c \in 0 .. a,
         NEW full \in BOOLEAN, full <=> a >= Full,
         NEW more \in {0, Scale}
  PROVE  /\ Sampled(c, full, more) \in 0 .. Full + Scale
         /\ Sampled(c, full, more) <= Sampled(a, full, Scale)
<1>1. a \in Nat /\ c \in Nat /\ Full \in Nat /\ Scale \in Nat \ {0} /\ more \in 0 .. Scale
  BY Bounds
<1>2. CASE full
  <2> DEFINE p == a \div 2
             q == c \div 2
  <2>1. /\ p \in Nat /\ 2 * p <= a /\ a <= 2 * p + 1
        /\ q \in Nat /\ 2 * q <= c /\ c <= 2 * q + 1
    BY <1>1, Halving
  <2>2. Sampled(a, full, Scale) = p + Scale /\ Sampled(c, full, more) = q + more
    BY <1>2 DEF Sampled
  <2> HIDE DEF p, q
  <2> QED BY <1>1, <2>1, <2>2, Bounds
<1>3. CASE ~full
  <2>1. Sampled(a, full, Scale) = a + Scale /\ Sampled(c, full, more) = c + more
    BY <1>3 DEF Sampled
  <2>2. a < Full
    BY <1>1, <1>3
  <2> QED BY <1>1, <2>1, <2>2
<1> QED BY <1>2, <1>3

\* A backoff, once begun, is at least the shortest one.
BackoffSet == \A n \in Decoys : backoff[n] \in {0} \cup BackoffMin .. BackoffMax

IInv ==
  /\ TypeOK
  /\ ConfirmsBounded
  /\ BackoffSet
  /\ CooldownEarned

LEMMA InitIInv == Init => IInv
  BY Bounds, PoolAssumption
  DEF Init, IInv, TypeOK, ConfirmsBounded, BackoffSet, CooldownEarned

LEMMA RecordIInv ==
  ASSUME IInv, NEW h \in Handlers, Record(h)
  PROVE  IInv'
<1> DEFINE n == using[h]
           full == attempts[n] >= Window * Scale
           more == IF passed[h] THEN Scale ELSE 0
<1>1. n \in Decoys
  BY DEF Record, IInv, TypeOK
<1>2. /\ attempts[n] \in 0 .. Full + Scale
      /\ confirms[n] \in 0 .. Full + Scale
      /\ confirms[n] \in 0 .. attempts[n]
      /\ full \in BOOLEAN
      /\ full <=> attempts[n] >= Full
      /\ more \in {0, Scale}
  BY <1>1, Bounds DEF IInv, TypeOK, ConfirmsBounded, Full
<1>3. /\ attempts' = [attempts EXCEPT ![n] = Sampled(attempts[n], full, Scale)]
      /\ confirms' = [confirms EXCEPT ![n] = Sampled(confirms[n], full, more)]
  BY DEF Record
<1>4. /\ attempts' \in [Decoys -> 0 .. (Window + 1) * Scale]
      /\ confirms' \in [Decoys -> 0 .. (Window + 1) * Scale]
      /\ ConfirmsBounded'
  <2>1. /\ Sampled(attempts[n], full, Scale) \in 0 .. (Window + 1) * Scale
        /\ Sampled(confirms[n], full, more) \in 0 .. (Window + 1) * Scale
        /\ Sampled(confirms[n], full, more) <= Sampled(attempts[n], full, Scale)
    <3> HIDE DEF full, more, n
    <3> QED BY <1>2, SampledBounds, ConfirmBounds, Bounds
  <2> HIDE DEF full, more, n
  <2> QED BY <1>1, <1>3, <2>1 DEF IInv, TypeOK, ConfirmsBounded
<1>5. \A m \in Decoys \ {n} : /\ attempts'[m] = attempts[m]
                              /\ confirms'[m] = confirms[m]
                              /\ dropped'[m] = dropped[m]
                              /\ left'[m] = left[m]
                              /\ backoff'[m] = backoff[m]
  BY <1>1 DEF Record, Confirmed, Failed, IInv, TypeOK
<1>6. /\ using' \in [Handlers -> Decoys \cup {None}]
      /\ passed' \in [Handlers -> BOOLEAN]
      /\ passing' \subseteq Decoys
  BY DEF Record, IInv, TypeOK
<1>7. /\ attempts'[n] = Sampled(attempts[n], full, Scale)
      /\ confirms'[n] = Sampled(confirms[n], full, more)
  BY <1>1, <1>3 DEF IInv, TypeOK
<1>8. CASE passed[h]
  <2>1. Confirmed(n)
    BY <1>8 DEF Record
  <2>2. /\ dropped' \in [Decoys -> BOOLEAN]
        /\ left' \in [Decoys -> 0 .. BackoffMax]
        /\ backoff' \in [Decoys -> 0 .. BackoffMax]
        /\ streak' \in [Decoys -> 0 .. MaxStreak]
    <3>1. 0 \in 0 .. BackoffMax /\ 0 \in 0 .. MaxStreak
      BY PoolAssumption
    <3>2. dropped' \in [Decoys -> BOOLEAN]
      BY <2>1 DEF Confirmed, IInv, TypeOK
    <3>3. left' \in [Decoys -> 0 .. BackoffMax] /\ backoff' \in [Decoys -> 0 .. BackoffMax]
      BY <2>1, <1>1, <3>1 DEF Confirmed, IInv, TypeOK
    <3>4. streak' \in [Decoys -> 0 .. MaxStreak]
      BY <2>1, <3>1 DEF Confirmed, IInv, TypeOK
    <3> QED BY <3>2, <3>3, <3>4
  <2>3. ~dropped'[n]
    BY <2>1, <1>1 DEF Confirmed, IInv, TypeOK
  <2>4. CooldownEarned'
    BY <1>5, <2>3 DEF CooldownEarned, IInv
  <2>5. BackoffSet'
    BY <2>1, <1>1 DEF Confirmed, BackoffSet, IInv, TypeOK
  <2> QED BY <1>4, <1>6, <2>2, <2>4, <2>5 DEF IInv, TypeOK
<1>9. CASE ~passed[h]
  <2>1. Failed(n)
    BY <1>9 DEF Record
  <2>2. /\ more = 0
        /\ attempts[n] >= Floor => attempts'[n] >= Floor
        /\ 2 * confirms[n] < attempts[n] => 2 * confirms'[n] < attempts'[n]
    <3>1. more = 0
      BY <1>9
    <3> HIDE DEF full, more, n
    <3> QED BY <3>1, <1>2, <1>7, SampledBounds
  <2>3. streak' \in [Decoys -> 0 .. MaxStreak]
    <3>1. streak' = [streak EXCEPT ![n] = IF @ < MaxStreak THEN @ + 1 ELSE @]
      BY <2>1 DEF Failed
    <3>2. streak \in [Decoys -> 0 .. MaxStreak] /\ MaxStreak \in Nat
      BY PoolAssumption DEF IInv, TypeOK
    <3>3. (IF streak[n] < MaxStreak THEN streak[n] + 1 ELSE streak[n]) \in 0 .. MaxStreak
      BY <1>1, <3>2
    <3> QED BY <1>1, <3>1, <3>2, <3>3
  <2>4. CASE attempts'[n] < MinSamples * Scale \/ 2 * confirms'[n] >= attempts'[n]
    <3>1. UNCHANGED <<dropped, left, backoff>>
      BY <2>1, <2>4 DEF Failed
    <3>2. attempts'[n] \in Nat /\ confirms'[n] \in Nat
      BY <1>1, <1>4, Bounds
    <3>3. ~dropped[n]
      BY <1>1, <1>2, <2>2, <2>4, <3>2, Bounds DEF IInv, CooldownEarned, Floor
    <3>4. CooldownEarned'
      BY <1>5, <3>1, <3>3 DEF CooldownEarned, IInv
    <3> QED BY <1>4, <1>6, <2>3, <3>1, <3>4 DEF IInv, TypeOK, BackoffSet
  <2>5. CASE ~(attempts'[n] < MinSamples * Scale \/ 2 * confirms'[n] >= attempts'[n])
    <3>1. /\ backoff' = [backoff EXCEPT ![n] = Longer(backoff[n])]
          /\ dropped' = [dropped EXCEPT ![n] = TRUE]
          /\ left' = [left EXCEPT ![n] = backoff'[n]]
      BY <2>1, <2>5 DEF Failed
    <3>2. Longer(backoff[n]) \in BackoffMin .. BackoffMax
      <4>1. backoff[n] \in {0} \cup BackoffMin .. BackoffMax
        BY <1>1 DEF IInv, BackoffSet
      <4>2. BackoffMin \in Nat /\ BackoffMax \in Nat /\ BackoffMin <= BackoffMax
        BY PoolAssumption
      <4> QED BY <4>1, <4>2 DEF Longer
    <3>3. backoff'[n] = Longer(backoff[n]) /\ dropped'[n] /\ left'[n] = backoff'[n]
      BY <1>1, <3>1 DEF IInv, TypeOK
    <3>4. /\ dropped' \in [Decoys -> BOOLEAN]
          /\ left' \in [Decoys -> 0 .. BackoffMax]
          /\ backoff' \in [Decoys -> 0 .. BackoffMax]
      <4>1. /\ dropped \in [Decoys -> BOOLEAN]
            /\ left \in [Decoys -> 0 .. BackoffMax]
            /\ backoff \in [Decoys -> 0 .. BackoffMax]
        BY DEF IInv, TypeOK
      <4>2. Longer(backoff[n]) \in 0 .. BackoffMax
        BY <3>2, PoolAssumption
      <4>3. backoff' \in [Decoys -> 0 .. BackoffMax] /\ backoff'[n] \in 0 .. BackoffMax
        BY <1>1, <3>1, <4>1, <4>2
      <4> QED BY <1>1, <3>1, <4>1, <4>3
    <3>5. BackoffSet'
      BY <1>1, <1>5, <3>2, <3>3 DEF IInv, BackoffSet
    <3>6. attempts'[n] \in Nat /\ confirms'[n] \in Nat /\ MinSamples * Scale \in Nat
      BY <1>1, <1>4, Bounds DEF Floor
    <3>7. CooldownEarned'
      <4> SUFFICES ASSUME NEW m \in Decoys, dropped'[m]
                   PROVE  /\ attempts'[m] >= MinSamples * Scale
                          /\ 2 * confirms'[m] < attempts'[m]
                          /\ backoff'[m] >= BackoffMin
                          /\ left'[m] <= backoff'[m]
        BY DEF CooldownEarned
      <4>1. CASE m = n
        <5>1. attempts'[n] >= MinSamples * Scale /\ 2 * confirms'[n] < attempts'[n]
          BY <2>5, <3>6
        <5>2. backoff'[n] >= BackoffMin /\ left'[n] <= backoff'[n]
          BY <3>2, <3>3, PoolAssumption
        <5> QED BY <4>1, <5>1, <5>2
      <4>2. CASE m # n
        BY <4>2, <1>5 DEF IInv, CooldownEarned
      <4> QED BY <4>1, <4>2
    <3> QED BY <1>4, <1>6, <2>3, <3>4, <3>5, <3>7 DEF IInv, TypeOK
  <2> QED BY <2>4, <2>5
<1> QED BY <1>8, <1>9

LEMMA StepIInv == IInv /\ [Next]_vars => IInv'
<1> SUFFICES ASSUME IInv, [Next]_vars PROVE IInv'
  OBVIOUS
<1>1. ASSUME NEW h \in Handlers, NEW n \in Decoys, Pick(h, n) PROVE IInv'
  <2>1. UNCHANGED <<health, passing>>
    BY <1>1 DEF Pick
  <2>2. using' \in [Handlers -> Decoys \cup {None}] /\ passed' \in [Handlers -> BOOLEAN]
    BY <1>1 DEF Pick, IInv, TypeOK
  <2> QED
    BY <2>1, <2>2 DEF health, IInv, TypeOK, ConfirmsBounded, BackoffSet, CooldownEarned
<1>2. ASSUME NEW h \in Handlers, Abandon(h) PROVE IInv'
  BY <1>2
  DEF Abandon, health, IInv, TypeOK, ConfirmsBounded, BackoffSet, CooldownEarned
<1>3. ASSUME NEW h \in Handlers, Record(h) PROVE IInv'
  BY <1>3, RecordIInv
<1>4. CASE Tick
  <2>1. UNCHANGED <<attempts, confirms, dropped, backoff, streak, using, passed, passing>>
    BY <1>4 DEF Tick
  <2>2. left' = [n \in Decoys |-> IF left[n] > 0 THEN left[n] - 1 ELSE 0]
    BY <1>4 DEF Tick
  <2>3. \A n \in Decoys : left[n] \in 0 .. BackoffMax /\ BackoffMax \in Nat
    BY PoolAssumption DEF IInv, TypeOK
  <2>4. \A n \in Decoys : left'[n] \in 0 .. BackoffMax /\ left'[n] <= left[n]
    BY <2>2, <2>3
  <2>5. left' \in [Decoys -> 0 .. BackoffMax]
    BY <2>2, <2>4
  <2>6. CooldownEarned'
    <3> SUFFICES ASSUME NEW n \in Decoys, dropped[n]
                 PROVE  left'[n] <= backoff[n]
      BY <2>1 DEF IInv, CooldownEarned
    <3>1. left[n] <= backoff[n] /\ backoff[n] \in Int
      BY PoolAssumption DEF IInv, TypeOK, CooldownEarned
    <3> QED BY <3>1, <2>3, <2>4
  <2> QED BY <2>1, <2>5, <2>6 DEF IInv, TypeOK, ConfirmsBounded, BackoffSet
<1>5. CASE Relist
  BY <1>5
  DEF Relist, health, IInv, TypeOK, ConfirmsBounded, BackoffSet, CooldownEarned
<1>6. CASE UNCHANGED vars
  BY <1>6
  DEF vars, health, IInv, TypeOK, ConfirmsBounded, BackoffSet, CooldownEarned
<1> QED
  BY <1>1, <1>2, <1>3, <1>4, <1>5, <1>6 DEF Next

\* In every behaviour of the pool, however the handlers' records interleave and
\* the window is halved, a dropped decoy has enough samples, more than half of
\* them failures, and a cooldown no longer than its backoff (decoypool.go:97-134).
THEOREM CooldownsAreEarned == Spec => []CooldownEarned
<1>1. IInv => CooldownEarned
  BY DEF IInv
<1> QED BY <1>1, InitIInv, StepIInv, PTL DEF Spec

\* The window bounds the samples and the ceiling the backoff.
THEOREM PoolTypeCorrect == Spec => []TypeOK
<1>1. IInv => TypeOK
  BY DEF IInv
<1> QED BY <1>1, InitIInv, StepIInv, PTL DEF Spec
-----------------------------------------------------------------------------
(* A decoy that stops passing.  While its failures in a row are all in the *)
(* window they are a part of it that only grows; after a halving what      *)
(* counts is the lead of the confirmations over the failures, which every  *)
(* failure shortens by one sample, and a halving never lengthens.          *)

Half == (Window \div 2) * Scale

\* Of a attempts c were confirmed, and x is the weight of the failures in a row.
Fading(a, c, x) ==
  /\ a < Full + Scale
  /\ a >= x \/ a >= Half
  /\ \/ 2 * c < a
     \/ a - c >= x
     \/ 2 * (2 * c - a) <= Full + Scale - 2 * x

LEMMA HalfWindow == Window \in Nat /\ Window \div 2 \in Nat
<1>1. Window \in Nat
  BY PoolAssumption
<1> QED BY <1>1

LEMMA EvenFull ==
  ASSUME Window % 2 = 0
  PROVE  Half \in Nat /\ Full = 2 * Half
<1>1. Window \in Nat /\ Scale \in Nat
  BY PoolAssumption
<1>2. Window \div 2 \in Nat /\ Window = 2 * (Window \div 2)
  BY <1>1
<1> DEFINE w == Window \div 2
<1>3. w \in Nat /\ Window = 2 * w
  BY <1>2
<1> HIDE DEF w
<1>4. w * Scale \in Nat /\ (2 * w) * Scale = 2 * (w * Scale)
  BY <1>1, <1>3
<1> QED BY <1>3, <1>4 DEF Half, Full, w

\* A failure makes them one sample more.
LEMMA FailureFades ==
  ASSUME Window % 2 = 0,
         NEW a \in Nat, NEW c \in 0 .. a, NEW x \in Nat, Fading(a, c, x),
         NEW full \in BOOLEAN, full <=> a >= Full
  PROVE  Fading(Sampled(a, full, Scale), Sampled(c, full, 0), x + Scale)
<1>1. Half \in Nat /\ Full = 2 * Half /\ Scale \in Nat \ {0} /\ Scale <= Full
  BY EvenFull, Bounds
<1>2. CASE full
  <2> DEFINE p == a \div 2
             q == c \div 2
  <2>1. /\ p \in Nat /\ 2 * p <= a /\ a <= 2 * p + 1
        /\ q \in Nat /\ 2 * q <= c /\ c <= 2 * q + 1
    BY Halving
  <2>2. Sampled(a, full, Scale) = p + Scale /\ Sampled(c, full, 0) = q + 0
    BY <1>2 DEF Sampled
  <2>3. a >= Full /\ c \in Nat /\ c <= a
    BY <1>2
  <2> HIDE DEF p, q
  <2>4. p + Scale < Full + Scale /\ p + Scale >= Half
    BY <1>1, <2>1, <2>3 DEF Fading
  <2>5. \/ 2 * q < p + Scale
        \/ 2 * (2 * q - (p + Scale)) <= Full + Scale - 2 * (x + Scale)
    BY <1>1, <2>1, <2>3 DEF Fading
  <2> QED BY <1>1, <2>1, <2>2, <2>4, <2>5 DEF Fading
<1>3. CASE ~full
  <2>1. Sampled(a, full, Scale) = a + Scale /\ Sampled(c, full, 0) = c + 0
    BY <1>3 DEF Sampled
  <2>2. a < Full /\ c \in Nat /\ c <= a
    BY <1>1, <1>3
  <2> QED BY <1>1, <2>1, <2>2 DEF Fading
<1> QED BY <1>2, <1>3

\* Half a window of failures and one more outweigh the rest, and are enough to
\* be judged by.
LEMMA FadedIsJudged ==
  ASSUME Window % 2 = 0,
         NEW a \in Nat, NEW c \in 0 .. a, NEW x \in Nat, x >= Half + Scale, Fading(a, c, x)
  PROVE  a >= MinSamples * Scale /\ 2 * c < a
<1>1. /\ Half \in Nat /\ Full = 2 * Half /\ Scale \in Nat \ {0}
      /\ Floor \in Nat /\ 2 * Floor <= Full
  BY EvenFull, Bounds
<1>2. c \in Nat /\ c <= a
  OBVIOUS
<1>3. a >= Floor /\ 2 * c < a
  BY <1>1, <1>2 DEF Fading
<1> QED BY <1>3 DEF Floor

FadeInv ==
  \A n \in Decoys :
    /\ Fading(attempts[n], confirms[n], streak[n] * Scale)
    /\ streak[n] >= Window \div 2 + 1 => dropped[n]

LEMMA InitFadeInv ==
  ASSUME Window % 2 = 0
  PROVE  Init => FadeInv
<1>1. /\ Half \in Nat /\ Full = 2 * Half /\ Scale \in Nat \ {0} /\ 0 * Scale = 0
      /\ Window \div 2 \in Nat
  BY EvenFull, Bounds, HalfWindow
<1> SUFFICES ASSUME Init, NEW n \in Decoys
             PROVE  /\ Fading(attempts[n], confirms[n], streak[n] * Scale)
                    /\ streak[n] >= Window \div 2 + 1 => dropped[n]
  BY DEF FadeInv
<1>2. attempts[n] = 0 /\ confirms[n] = 0 /\ streak[n] = 0
  BY DEF Init
<1> QED BY <1>1, <1>2 DEF Fading

LEMMA RecordFadeInv ==
  ASSUME Window % 2 = 0, IInv, FadeInv, NEW h \in Handlers, Record(h)
  PROVE  FadeInv'
<1> DEFINE n == using[h]
           full == attempts[n] >= Window * Scale
           more == IF passed[h] THEN Scale ELSE 0
           x == streak[n] * Scale
<1>1. n \in Decoys /\ IInv'
  BY RecordIInv DEF Record, IInv, TypeOK
<1>2. /\ attempts[n] \in Nat /\ confirms[n] \in 0 .. attempts[n]
      /\ attempts'[n] \in Nat /\ confirms'[n] \in 0 .. attempts'[n]
      /\ attempts[n] \in 0 .. Full + Scale
      /\ full \in BOOLEAN /\ (full <=> attempts[n] >= Full)
      /\ streak[n] \in Nat /\ MaxStreak \in Nat /\ Scale \in Nat \ {0}
  <2>1. /\ attempts[n] \in 0 .. Full + Scale /\ attempts'[n] \in 0 .. Full + Scale
        /\ confirms[n] \in 0 .. Full + Scale /\ confirms'[n] \in 0 .. Full + Scale
        /\ confirms[n] <= attempts[n] /\ confirms'[n] <= attempts'[n]
        /\ streak[n] \in 0 .. MaxStreak
    BY <1>1, Bounds DEF IInv, TypeOK, ConfirmsBounded
  <2> QED BY <2>1, Bounds, PoolAssumption DEF Full
<1>3. /\ attempts'[n] = Sampled(attempts[n], full, Scale)
      /\ confirms'[n] = Sampled(confirms[n], full, more)
  BY <1>1 DEF Record, IInv, TypeOK
<1>4. \A m \in Decoys \ {n} : /\ attempts'[m] = attempts[m]
                              /\ confirms'[m] = confirms[m]
                              /\ dropped'[m] = dropped[m]
                              /\ streak'[m] = streak[m]
  BY <1>1 DEF Record, Confirmed, Failed, IInv, TypeOK
<1>5. x \in Nat /\ Fading(attempts[n], confirms[n], x)
  BY <1>1, <1>2 DEF FadeInv
<1>6. /\ Fading(attempts'[n], confirms'[n], streak'[n] * Scale)
      /\ streak'[n] >= Window \div 2 + 1 => dropped'[n]
  <2>1. CASE passed[h]
    <3>1. streak'[n] = 0
      BY <1>1, <2>1 DEF Record, Confirmed, IInv, TypeOK
    <3>2. /\ Half \in Nat /\ Full = 2 * Half /\ Scale <= Full /\ 0 * Scale = 0
          /\ Window \div 2 \in Nat
      <4>1. Half \in Nat /\ Full = 2 * Half
        BY EvenFull
      <4>2. Scale <= Full /\ 0 * Scale = 0
        BY <1>2, Bounds
      <4> QED BY <4>1, <4>2, HalfWindow
    <3>3. attempts'[n] < Full + Scale
      <4> DEFINE p == attempts[n] \div 2
      <4>1. p \in Nat /\ 2 * p <= attempts[n]
        BY <1>2, Halving
      <4>2. attempts'[n] = IF full THEN p + Scale ELSE attempts[n] + Scale
        BY <1>3 DEF Sampled
      <4>3. attempts[n] < Full + Scale
        BY <1>5 DEF Fading
      <4> HIDE DEF p, n, full, more, x
      <4> QED BY <1>2, <3>2, <4>1, <4>2, <4>3
    <3>4. Fading(attempts'[n], confirms'[n], 0)
      <4> HIDE DEF n, full, more, x
      <4> QED BY <1>2, <3>3 DEF Fading
    <3>5. streak'[n] * Scale = 0 /\ ~(streak'[n] >= Window \div 2 + 1)
      BY <3>1, <3>2
    <3> QED BY <3>4, <3>5
  <2>2. CASE ~passed[h]
    <3>1. Failed(n) /\ more = 0
      BY <2>2 DEF Record
    <3>2. Fading(attempts'[n], confirms'[n], x + Scale)
      <4> HIDE DEF n, full, more, x
      <4> QED BY <1>2, <1>3, <1>5, <3>1, FailureFades
    <3>3. streak'[n] = IF streak[n] < MaxStreak THEN streak[n] + 1 ELSE streak[n]
      BY <1>1, <3>1 DEF Failed, IInv, TypeOK
    <3>4. /\ streak'[n] \in Nat /\ streak'[n] * Scale \in Nat
          /\ streak'[n] * Scale <= x + Scale
      <4>1. CASE streak'[n] = streak[n] + 1
        <5>1. (streak[n] + 1) * Scale = x + Scale
          BY <1>2
        <5> QED BY <1>2, <1>5, <4>1, <5>1
      <4>2. CASE streak'[n] = streak[n]
        BY <1>2, <1>5, <4>2
      <4> QED BY <3>3, <4>1, <4>2
    <3> DEFINE y == streak'[n] * Scale
    <3>5. Fading(attempts'[n], confirms'[n], y)
      <4>1. y \in Nat /\ y <= x + Scale
        BY <3>4
      <4>2. Full \in Nat /\ Half \in Nat
        BY EvenFull, Bounds
      <4> HIDE DEF n, full, more, x, y
      <4> QED BY <1>2, <1>5, <3>2, <4>1, <4>2 DEF Fading
    <3>6. ASSUME streak'[n] >= Window \div 2 + 1
          PROVE  dropped'[n]
      <4>1. y >= Half + Scale
        <5> DEFINE w == Window \div 2
                   d == streak'[n] - (w + 1)
        <5>1. w \in Nat /\ d \in Nat /\ streak'[n] = w + 1 + d
          <6>1. w \in Nat /\ streak'[n] \in Nat /\ streak'[n] >= w + 1
            BY <3>4, <3>6, HalfWindow
          <6> HIDE DEF w, n
          <6> QED BY <6>1
        <5> HIDE DEF w, d
        <5>2. (w + 1 + d) * Scale = w * Scale + Scale + d * Scale /\ d * Scale \in Nat
              /\ w * Scale \in Nat
          BY <1>2, <5>1
        <5>3. y = w * Scale + Scale + d * Scale
          BY <5>1, <5>2
        <5> QED BY <1>2, <5>2, <5>3 DEF Half, w
      <4>2. attempts'[n] >= MinSamples * Scale /\ 2 * confirms'[n] < attempts'[n]
        <5>1. y \in Nat
          BY <3>4
        <5> HIDE DEF n, full, more, x, y
        <5> QED BY <1>2, <3>5, <4>1, <5>1, FadedIsJudged
      <4>3. /\ attempts'[n] \in Nat /\ confirms'[n] \in Nat /\ MinSamples * Scale \in Nat
        BY <1>2, Bounds DEF Floor
      <4>4. ~(attempts'[n] < MinSamples * Scale \/ 2 * confirms'[n] >= attempts'[n])
        <5> HIDE DEF n
        <5> QED BY <4>2, <4>3
      <4>5. dropped' = [dropped EXCEPT ![n] = TRUE] /\ dropped \in [Decoys -> BOOLEAN]
        BY <3>1, <4>4 DEF Failed, IInv, TypeOK
      <4> HIDE DEF n
      <4> QED BY <1>1, <4>5
    <3> QED BY <3>5, <3>6
  <2> QED BY <2>1, <2>2
<1> QED BY <1>4, <1>6 DEF FadeInv

LEMMA StepFadeInv ==
  ASSUME Window % 2 = 0
  PROVE  IInv /\ FadeInv /\ [Next]_vars => FadeInv'
<1> SUFFICES ASSUME IInv, FadeInv, [Next]_vars PROVE FadeInv'
  OBVIOUS
<1>1. ASSUME UNCHANGED <<attempts, confirms, dropped, streak>> PROVE FadeInv'
  BY <1>1 DEF FadeInv, Fading
<1>2. ASSUME NEW h \in Handlers, NEW n \in Decoys, Pick(h, n) PROVE FadeInv'
  BY <1>1, <1>2 DEF Pick, health
<1>3. ASSUME NEW h \in Handlers, Abandon(h) PROVE FadeInv'
  BY <1>1, <1>3 DEF Abandon, health
<1>4. ASSUME NEW h \in Handlers, Record(h) PROVE FadeInv'
  BY <1>4, RecordFadeInv
<1>5. CASE Tick \/ Relist \/ UNCHANGED vars
  BY <1>1, <1>5 DEF Tick, Relist, vars, health
<1> QED BY <1>2, <1>3, <1>4, <1>5 DEF Next

\* Half a window of failures in a row and one more drop a decoy, whatever its
\* past, with the window halved as often as it may be; the window is even, as
\* decoyWindow is (decoypool.go:15-17, 97-134).
THEOREM FadesAfterHalfWindow ==
  ASSUME Window % 2 = 0
  PROVE  Spec => []FadesInHalfWindow
<1>1. FadeInv => FadesInHalfWindow
  BY DEF FadeInv, FadesInHalfWindow
<1>2. IInv /\ FadeInv /\ [Next]_vars => FadeInv'
  BY StepFadeInv
<1>3. Init => FadeInv
  BY InitFadeInv
<1> QED BY <1>1, <1>2, <1>3, InitIInv, StepIInv, PTL DEF Spec
=============================================================================
