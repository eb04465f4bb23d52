----------------------------- MODULE DecoyPool -----------------------------
(***************************************************************************)
(* The rotation of decoy names (internal/forwarder/decoypool.go) as the    *)
(* connection handlers use it: each picks a decoy, injects it, and records *)
(* some time later whether it was confirmed.  In between, others pick and  *)
(* record, the censor changes its list, and time passes.                   *)
(*                                                                         *)
(* attempts and confirms are floats in the code, halved when the window is *)
(* full; here they count in parts of 1/Scale, and a smaller rest is        *)
(* dropped.  disabledUntil is kept as the flag that it was set and the     *)
(* time left until then.                                                   *)
(***************************************************************************)
EXTENDS Integers, Sequences

CONSTANTS
  Names,       \* the pool, a sequence without repetitions
  Handlers,    \* connections that may be at it at once
  Window, MinSamples,       \* decoyWindow, decoyMinSamples
  BackoffMin, BackoffMax,   \* in ticks of the clock
  Scale,
  None,        \* no decoy
  MaxStreak    \* bound: failures in a row that are counted

Decoys == {Names[i] : i \in 1 .. Len(Names)}

ASSUME PoolAssumption ==
  /\ Names \in Seq(Decoys)
  /\ {Window, MinSamples, BackoffMin, BackoffMax, Scale, MaxStreak} \subseteq Nat \ {0}
  /\ 2 * MinSamples <= Window
  /\ BackoffMin <= BackoffMax
  /\ None \notin Decoys

VARIABLES
  attempts, confirms,  \* decoyHealth, in parts of 1/Scale
  dropped,             \* disabledUntil is set
  left,                \* how long until disabledUntil
  backoff,
  using,               \* the decoy each handler picked and has not recorded
  passed,              \* whether the censor let that one through
  passing,             \* the decoys the censor lets through now
  streak               \* history: failures recorded in a row

health == <<attempts, confirms, dropped, left, backoff, streak>>
vars   == <<health, using, passed, passing>>

TypeOK ==
  /\ attempts \in [Decoys -> 0 .. (Window + 1) * Scale]
  /\ confirms \in [Decoys -> 0 .. (Window + 1) * Scale]
  /\ dropped \in [Decoys -> BOOLEAN]
  /\ left \in [Decoys -> 0 .. BackoffMax]
  /\ backoff \in [Decoys -> 0 .. BackoffMax]
  /\ using \in [Handlers -> Decoys \cup {None}]
  /\ passed \in [Handlers -> BOOLEAN]
  /\ passing \subseteq Decoys
  /\ streak \in [Decoys -> 0 .. MaxStreak]

Init ==
  /\ attempts = [n \in Decoys |-> 0]
  /\ confirms = [n \in Decoys |-> 0]
  /\ dropped = [n \in Decoys |-> FALSE]
  /\ left = [n \in Decoys |-> 0]
  /\ backoff = [n \in Decoys |-> 0]
  /\ using = [h \in Handlers |-> None]
  /\ passed = [h \in Handlers |-> FALSE]
  /\ passing \in SUBSET Decoys
  /\ streak = [n \in Decoys |-> 0]

\* Mutant of Active: a dropped decoy comes back only by a confirmation.
NotDropped == {n \in Decoys : ~dropped[n]}

Active == {n \in Decoys : left[n] = 0}

\* The first of the decoys whose cooldown ends soonest.
Soonest ==
  LET i == CHOOSE i \in 1 .. Len(Names) :
             \A j \in 1 .. Len(Names) :
               left[Names[i]] < left[Names[j]]
                 \/ (left[Names[i]] = left[Names[j]] /\ i <= j)
  IN Names[i]

\* A handler picks n and injects it; the censor may let it through, and the
\* confirmation may still be lost on the way.
Pick(h, n) ==
  /\ using[h] = None
  /\ IF Active # {} THEN n \in Active ELSE n = Soonest
  /\ using' = [using EXCEPT ![h] = n]
  /\ \E ok \in BOOLEAN : /\ ok => n \in passing
                         /\ passed' = [passed EXCEPT ![h] = ok]
  /\ UNCHANGED <<health, passing>>

\* The dial fails, or the hello is too large: the decoy is not judged.
Abandon(h) ==
  /\ using[h] # None
  /\ using' = [using EXCEPT ![h] = None]
  /\ passed' = [passed EXCEPT ![h] = FALSE]
  /\ UNCHANGED <<health, passing>>

\* Mutant of Sampled: the confirmations are not halved.
SampledApart(old, full, more) ==
  (IF full /\ more # 0 THEN old \div 2 ELSE old) + more

\* One sample more, after halving what a full window holds.
Sampled(old, full, more) == (IF full THEN old \div 2 ELSE old) + more

Longer(b) ==
  IF b = 0 THEN BackoffMin ELSE IF 2 * b > BackoffMax THEN BackoffMax ELSE 2 * b

\* Mutant of Confirmed: only a re-probe after the cooldown counts.
ConfirmedLate(n) ==
  /\ dropped' = [dropped EXCEPT ![n] = @ /\ left[n] > 0]
  /\ backoff' = [backoff EXCEPT ![n] = IF dropped'[n] THEN @ ELSE 0]
  /\ streak' = [streak EXCEPT ![n] = 0]
  /\ UNCHANGED left

\* A confirmation puts the decoy back, during its cooldown too.
Confirmed(n) ==
  /\ dropped' = [dropped EXCEPT ![n] = FALSE]
  /\ left' = [left EXCEPT ![n] = IF dropped[n] THEN 0 ELSE @]
  /\ backoff' = [backoff EXCEPT ![n] = IF dropped[n] THEN 0 ELSE @]
  /\ streak' = [streak EXCEPT ![n] = 0]

\* Mutant of Failed: a decoy is dropped only once.
FailedOnce(n) ==
  /\ IF attempts'[n] < MinSamples * Scale \/ 2 * confirms'[n] >= attempts'[n] \/ dropped[n]
     THEN UNCHANGED <<dropped, left, backoff>>
     ELSE /\ backoff' = [backoff EXCEPT ![n] = Longer(@)]
          /\ dropped' = [dropped EXCEPT ![n] = TRUE]
          /\ left' = [left EXCEPT ![n] = backoff'[n]]
  /\ streak' = [streak EXCEPT ![n] = IF @ < MaxStreak THEN @ + 1 ELSE @]

\* A failure drops the decoy if it was judged by enough samples, more than half
\* of them failures.
Failed(n) ==
  /\ IF attempts'[n] < MinSamples * Scale \/ 2 * confirms'[n] >= attempts'[n]
     THEN UNCHANGED <<dropped, left, backoff>>
     ELSE /\ backoff' = [backoff EXCEPT ![n] = Longer(@)]
          /\ dropped' = [dropped EXCEPT ![n] = TRUE]
          /\ left' = [left EXCEPT ![n] = backoff'[n]]
  /\ streak' = [streak EXCEPT ![n] = IF @ < MaxStreak THEN @ + 1 ELSE @]

Record(h) ==
  LET n == using[h]
      full == attempts[n] >= Window * Scale
  IN /\ n # None
     /\ attempts' = [attempts EXCEPT ![n] = Sampled(@, full, Scale)]
     /\ confirms' = [confirms EXCEPT ![n] = Sampled(@, full, IF passed[h] THEN Scale ELSE 0)]
     /\ IF passed[h] THEN Confirmed(n) ELSE Failed(n)
     /\ using' = [using EXCEPT ![h] = None]
     /\ passed' = [passed EXCEPT ![h] = FALSE]
     /\ UNCHANGED passing

\* The cooldowns run down.
Tick ==
  /\ \E n \in Decoys : left[n] > 0
  /\ left' = [n \in Decoys |-> IF left[n] > 0 THEN left[n] - 1 ELSE 0]
  /\ UNCHANGED <<attempts, confirms, dropped, backoff, streak, using, passed, passing>>

\* The censor changes its list.
Relist ==
  /\ passing' \in SUBSET Decoys
  /\ passing' # passing
  /\ UNCHANGED <<health, using, passed>>

Next ==
  \/ \E h \in Handlers : \/ \E n \in Decoys : Pick(h, n)
                         \/ Abandon(h)
                         \/ Record(h)
  \/ Tick
  \/ Relist

Spec == Init /\ [][Next]_vars

\* The pick among the active is random: none of them is passed over for ever.
\* Connections keep coming, and not every dial of a decoy fails.
Picks(n) == \E h \in Handlers : Pick(h, n)
Records(n) == \E h \in Handlers : using[h] = n /\ Record(h)

Fairness ==
  /\ WF_vars(Tick)
  /\ \A n \in Decoys : SF_vars(Picks(n)) /\ SF_vars(Records(n))

FairSpec == Spec /\ Fairness

-----------------------------------------------------------------------------
(* Properties.                                                             *)

\* A decoy is out of rotation only while what its window remembers says so:
\* enough samples and more failures than confirmations, through every halving
\* and in whatever order the handlers record (decoypool.go:26-29).
CooldownEarned ==
  \A n \in Decoys :
    dropped[n] => /\ attempts[n] >= MinSamples * Scale
                  /\ 2 * confirms[n] < attempts[n]
                  /\ backoff[n] >= BackoffMin
                  /\ left[n] <= backoff[n]

\* However good its past, a decoy that stops passing is out of rotation after
\* half a window of failures and one more ("recency bias", decoypool.go:16).
FadesInHalfWindow ==
  \A n \in Decoys : streak[n] >= Window \div 2 + 1 => dropped[n]

\* "Taken out of rotation, then re-probed after the cooldown": every decoy is
\* tried again and again, a lone one or one in bad company too.
EveryDecoyProbed ==
  \A n \in Decoys : []<>(\E h \in Handlers : using[h] = n)

\* A decoy the censor has blocked for good is in cooldown again after every
\* probe, not only after the first.
BlockedDecoyCools ==
  \A n \in Decoys : <>[](n \notin passing) => []<>(left[n] > 0)
=============================================================================
