------------------------- MODULE ChatHistoryProofs -------------------------
(***************************************************************************)
(* Theorems of ChatHistory, for any limits, any number of accounts and     *)
(* messages, and any time.                                                 *)
(*                                                                         *)
(* An account that goes one message over the limit of a span is muted      *)
(* until the span is over, and an account that is muted keeps nothing in   *)
(* the history, unless its mute cannot be read, which is counted: that is  *)
(* why the flood ends (FloodIsMuted).  What was                            *)
(* broadcast is in the history as messages that count (HeardIsKept), so    *)
(* that Few of them in Short seconds make the next one spam.               *)
(*                                                                         *)
(* The loop of get_messages is right after every turn (RightFrom): it has  *)
(* found all that was asked for among what it has seen, or enough, and     *)
(* when it stops early, what comes before is too old.                      *)
(***************************************************************************)
EXTENDS ChatHistory, SequenceTheorems, FiniteSetTheorems, WellFoundedInduction, TLAPS

\* The messages of a in a span of Long seconds.
SentWithin(a, t) == {n \in SentSince(a, t) : history[n].at <= t + Long}

\* No message is from the future.
HistoryIsPast == \A n \in 1 .. Len(history) : history[n].at <= now

\* The mute that the last message over the limit brought lasts until the span is
\* over.
MutedUntil(a, t) == muted[a] # Nothing /\ (muted[a] = Forever \/ muted[a] >= t)

Unflooded(a, t) ==
    \/ Cardinality(SentWithin(a, t)) <= Many + excuses[a]
    \/ /\ Cardinality(SentWithin(a, t)) <= Many + 1 + excuses[a]
       /\ MutedUntil(a, t + Long)

FloodIsMuted == \A a \in Accounts, t \in Nat : Unflooded(a, t)

\* Every message that was broadcast is in the history, and counted.
Kept(a, g) ==
    /\ \A n \in 1 .. Len(heard[a]) :
          /\ g[n] \in 1 .. Len(history)
          /\ history[g[n]].account = a
          /\ history[g[n]].at = heard[a][n]
          /\ ~history[g[n]].spam
    /\ \A m, n \in 1 .. Len(heard[a]) : m < n => g[m] < g[n]

HeardIsKept ==
    \A a \in Accounts :
        \E g \in [1 .. Len(heard[a]) -> 1 .. Len(history)] : Kept(a, g)

\* They were broadcast in the order of time, and none in the future.
HeardInOrder ==
    \A a \in Accounts :
        /\ \A n \in 1 .. Len(heard[a]) : heard[a][n] <= now
        /\ \A m, n \in 1 .. Len(heard[a]) : m <= n => heard[a][m] <= heard[a][n]

IInv ==
    /\ TypeOK /\ HistoryIsPast
    /\ MuteIsEarned /\ FloodIsMuted
    /\ HeardIsKept /\ HeardInOrder /\ HeardRarely

-----------------------------------------------------------------------------
(* The history *)

LEMMA HistoryFacts ==
  ASSUME TypeOK
  PROVE  /\ Len(history) \in Nat
         /\ IsFiniteSet(1 .. Len(history))
         /\ \A n \in 1 .. Len(history) :
               /\ history[n] \in Message
               /\ history[n].at \in Nat
               /\ history[n].spam \in BOOLEAN
<1>1. history \in Seq(Message)
  BY DEF TypeOK
<1>2. Len(history) \in Nat
  BY <1>1, LenProperties
<1>3. IsFiniteSet(1 .. Len(history))
  BY <1>2, FS_Interval
<1>4. \A n \in 1 .. Len(history) : history[n] \in Message
  BY <1>1, ElementOfSeq
<1>5. QED BY <1>2, <1>3, <1>4 DEF Message

\* Any selection of messages is finite.
LEMMA SelectionsAreFinite ==
  ASSUME TypeOK, NEW M \in SUBSET (1 .. Len(history))
  PROVE  IsFiniteSet(M) /\ Cardinality(M) \in Nat
<1>1. IsFiniteSet(M)
  BY HistoryFacts, FS_Subset
<1>2. QED BY <1>1, FS_CardinalityType

\* A message is kept at the end, with the time and what the limits say of it.
LEMMA KeepFacts ==
  ASSUME TypeOK, NEW a \in Accounts, Keep(a)
  PROVE  /\ history' \in Seq(Message)
         /\ Len(history') = Len(history) + 1
         /\ \A n \in 1 .. Len(history) : history'[n] = history[n]
         /\ history'[Len(history) + 1].account = a
         /\ history'[Len(history) + 1].at = now
         /\ history'[Len(history) + 1].spam <=> IsSpam(a)
<1> DEFINE m == [account |-> a, at |-> now, spam |-> IsSpam(a)]
<1>1. IsSpam(a) \in BOOLEAN
  BY DEF IsSpam
<1>2. m \in Message
  BY <1>1 DEF Message, TypeOK
<1>3. /\ history \in Seq(Message)
      /\ history' = Append(history, m)
  BY DEF TypeOK, Keep
<1> HIDE DEF m
<1>4. /\ history' \in Seq(Message)
      /\ Len(history') = Len(history) + 1
      /\ \A n \in 1 .. Len(history) : history'[n] = history[n]
      /\ history'[Len(history) + 1] = m
  BY <1>2, <1>3, AppendProperties
<1>5. m.account = a /\ m.at = now /\ (m.spam <=> IsSpam(a))
  BY <1>1 DEF m
<1>6. QED BY <1>4, <1>5

\* Which messages of an account are in a span of time, once one more is kept.
LEMMA SentAfterKeep ==
  ASSUME TypeOK, NEW a \in Accounts, Keep(a), NEW b \in Accounts, NEW t \in Int
  PROVE  /\ SentSince(b, t)' = IF b = a /\ now >= t
                               THEN SentSince(b, t) \cup {Len(history) + 1}
                               ELSE SentSince(b, t)
         /\ SentWithin(b, t)' = IF b = a /\ now >= t /\ now <= t + Long
                                THEN SentWithin(b, t) \cup {Len(history) + 1}
                                ELSE SentWithin(b, t)
<1> DEFINE N == Len(history)
<1>1. /\ N \in Nat
      /\ Len(history') = N + 1
      /\ \A n \in 1 .. N : history'[n] = history[n]
      /\ history'[N + 1].account = a
      /\ history'[N + 1].at = now
  BY HistoryFacts, KeepFacts
<1>2. 1 .. Len(history') = (1 .. N) \cup {N + 1}
  BY <1>1
<1>3. SentSince(b, t)' = {n \in (1 .. N) \cup {N + 1} :
                            history'[n].account = b /\ history'[n].at >= t}
  BY <1>2 DEF SentSince
<1> HIDE DEF N
<1>4. SentSince(b, t)' = IF b = a /\ now >= t THEN SentSince(b, t) \cup {N + 1} ELSE SentSince(b, t)
  BY <1>1, <1>3 DEF SentSince, N
<1>5. SentWithin(b, t)' = {n \in SentSince(b, t)' : history'[n].at <= t + Long}
  BY DEF SentWithin
<1>6. \A n \in SentSince(b, t) : history'[n] = history[n]
  BY <1>1 DEF SentSince, N
<1>7. SentWithin(b, t)' = IF b = a /\ now >= t /\ now <= t + Long
                          THEN SentWithin(b, t) \cup {N + 1} ELSE SentWithin(b, t)
  BY <1>1, <1>4, <1>5, <1>6 DEF SentWithin
<1>8. QED BY <1>4, <1>7 DEF N

-----------------------------------------------------------------------------
(* Types, and the time of the messages *)

LEMMA TypeStep == TypeOK /\ HistoryIsPast /\ [Next]_vars => TypeOK' /\ HistoryIsPast'
<1> SUFFICES ASSUME TypeOK, HistoryIsPast, [Next]_vars
             PROVE  TypeOK' /\ HistoryIsPast'
  OBVIOUS
<1> USE ChatAssumption
<1>1. ASSUME NEW a \in Accounts, NEW kind \in Kinds, Say(a, kind)
      PROVE  TypeOK' /\ HistoryIsPast'
  <2>1. Keep(a) /\ now' = now
    BY <1>1 DEF Say, SayExcessive, SayIgnored, SayHeard
  <2>2. /\ Len(history) \in Nat
        /\ history' \in Seq(Message)
        /\ Len(history') = Len(history) + 1
        /\ \A n \in 1 .. Len(history) : history'[n] = history[n]
        /\ history'[Len(history) + 1].at = now
    BY <2>1, HistoryFacts, KeepFacts
  <2>3. HistoryIsPast'
    <3> SUFFICES ASSUME NEW n \in 1 .. Len(history') PROVE history'[n].at <= now
      BY <2>1 DEF HistoryIsPast
    <3>1. n \in 1 .. Len(history) \/ n = Len(history) + 1
      BY <2>2
    <3>2. now <= now
      BY DEF TypeOK
    <3>3. QED BY <2>2, <3>1, <3>2 DEF HistoryIsPast
  <2>4. \A i, j \in 1 .. Len(history') : i < j => history'[i].at <= history'[j].at
    <3> SUFFICES ASSUME NEW i \in 1 .. Len(history'), NEW j \in 1 .. Len(history'), i < j
                 PROVE  history'[i].at <= history'[j].at
      OBVIOUS
    <3>1. i \in 1 .. Len(history) /\ history'[i] = history[i]
      BY <2>2
    <3>2. CASE j \in 1 .. Len(history)
      BY <2>2, <3>1, <3>2 DEF TypeOK
    <3>3. CASE j = Len(history) + 1
      BY <2>2, <3>1, <3>3 DEF HistoryIsPast
    <3>4. QED BY <2>2, <3>2, <3>3
  <2>5. muted' \in [Accounts -> Nat \cup {Forever, Nothing}]
    <3>1. muted' = muted \/ muted' = [muted EXCEPT ![a] = now + MuteFor]
      BY <1>1 DEF Say, SayExcessive, SayIgnored, SayHeard
    <3>2. now + MuteFor \in Nat
      BY DEF TypeOK
    <3>3. QED BY <3>1, <3>2 DEF TypeOK
  <2>6. earned' \in [Accounts -> Nat \cup {Nothing}]
    BY <1>1 DEF TypeOK, Say, SayExcessive, SayIgnored, SayHeard
  <2>7. excuses' \in [Accounts -> Nat]
    <3>1. excuses' = excuses \/ excuses' = [excuses EXCEPT ![a] = @ + 1]
      BY <1>1 DEF Say, SayExcessive, SayIgnored, SayHeard, PassesMute, Excuse
    <3>2. excuses[a] + 1 \in Nat
      BY DEF TypeOK
    <3>3. QED BY <3>1, <3>2 DEF TypeOK
  <2>8. heard' \in [Accounts -> Seq(Nat)]
    <3>1. heard \in [Accounts -> Seq(Nat)] /\ now \in Nat
      BY DEF TypeOK
    <3>2. Append(heard[a], now) \in Seq(Nat)
      BY <3>1, AppendProperties
    <3>3. heard' = heard \/ heard' = [heard EXCEPT ![a] = Append(@, now)]
      BY <1>1 DEF Say, SayExcessive, SayIgnored, SayHeard
    <3>4. QED BY <3>1, <3>2, <3>3
  <2>9. QED BY <2>1, <2>2, <2>3, <2>4, <2>5, <2>6, <2>7, <2>8 DEF TypeOK
<1>2. ASSUME NEW a \in Accounts, Moderate(a) PROVE TypeOK' /\ HistoryIsPast'
  BY <1>2 DEF Moderate, Excuse, TypeOK, HistoryIsPast
<1>3. CASE Tick
  BY <1>3, HistoryFacts DEF Tick, TypeOK, HistoryIsPast
<1>4. CASE UNCHANGED vars
  BY <1>4 DEF vars, TypeOK, HistoryIsPast
<1>5. QED BY <1>1, <1>2, <1>3, <1>4 DEF Next

-----------------------------------------------------------------------------
(* The automatic mute *)

LEMMA EarnedStep ==
  TypeOK /\ HistoryIsPast /\ MuteIsEarned /\ [Next]_vars => MuteIsEarned'
<1> SUFFICES ASSUME TypeOK, HistoryIsPast, MuteIsEarned, [Next]_vars
             PROVE  MuteIsEarned'
  OBVIOUS
<1> SUFFICES ASSUME NEW b \in Accounts, NEW e \in Nat, earned'[b] = e
             PROVE  Cardinality({n \in SentSince(b, e - Long)' : history'[n].at <= e}) > Many
  <2>1. TypeOK'
    BY TypeStep
  <2>2. \A b \in Accounts : earned'[b] # Nothing => earned'[b] \in Nat
    BY <2>1 DEF TypeOK
  <2>3. QED BY <2>2 DEF MuteIsEarned
<1> USE ChatAssumption
<1> DEFINE Span == {n \in SentSince(b, e - Long) : history[n].at <= e}
\* The mute is there already.
<1>1. ASSUME earned[b] = e, history' = history PROVE Cardinality(Span') > Many
  BY <1>1 DEF MuteIsEarned, SentSince
<1>2. ASSUME NEW a \in Accounts, Keep(a) PROVE
        /\ IsFiniteSet(Span') /\ Cardinality(Span) \in Nat /\ Cardinality(Span') \in Nat
        /\ Cardinality(Span) <= Cardinality(Span')
  <2>1. e - Long + Long = e /\ e - Long \in Int
    OBVIOUS
  <2>2. Span = SentWithin(b, e - Long)
    BY <2>1 DEF SentWithin
  <2>3. Span' = SentWithin(b, e - Long)'
    BY <2>1 DEF SentWithin
  <2>4. Span \subseteq Span'
    BY <1>2, <2>1, <2>2, <2>3, SentAfterKeep
  <2>5. Span \subseteq 1 .. Len(history) /\ Span' \subseteq 1 .. Len(history')
    BY DEF SentSince
  <2>6. Len(history') \in Nat
    BY <1>2, KeepFacts, LenProperties
  <2> HIDE DEF Span
  <2>7. IsFiniteSet(1 .. Len(history'))
    BY <2>6, FS_Interval
  <2>8. IsFiniteSet(Span')
    BY <2>5, <2>7, FS_Subset
  <2>9. Cardinality(Span) <= Cardinality(Span')
    BY <2>4, <2>8, FS_Subset
  <2>10. QED BY <2>4, <2>8, <2>9, FS_Subset, FS_CardinalityType
<1>3. ASSUME NEW a \in Accounts, NEW kind \in Kinds, Say(a, kind)
      PROVE  Cardinality(Span') > Many
  <2>1. Keep(a)
    BY <1>3 DEF Say, SayExcessive, SayIgnored, SayHeard
  <2>2. CASE earned[b] = e
    <3>1. Cardinality(Span) > Many
      BY <2>2 DEF MuteIsEarned
    <3> HIDE DEF Span
    <3>2. QED BY <1>2, <2>1, <3>1
  <2>3. CASE earned[b] # e
    <3>1. b = a /\ e = now /\ IsExcessiveSpam(a)
      BY <1>3, <2>3 DEF Say, SayExcessive, SayIgnored, SayHeard, PassesMute, Excuse, TypeOK
    <3>2. Cardinality(SentSince(b, e - Long)) >= Many
      BY <3>1 DEF IsExcessiveSpam
    <3>3. Span = SentSince(b, e - Long)
      BY <3>1 DEF HistoryIsPast, SentSince
    <3>4. Span' = Span \cup {Len(history) + 1}
      <4>1. e - Long + Long = e /\ e - Long \in Int /\ now >= e - Long /\ now <= e
        BY <3>1 DEF TypeOK
      <4>2. Span = SentWithin(b, e - Long) /\ Span' = SentWithin(b, e - Long)'
        BY <4>1 DEF SentWithin
      <4>3. QED BY <2>1, <3>1, <4>1, <4>2, SentAfterKeep
    <3>5. Span \subseteq 1 .. Len(history) /\ Len(history) + 1 \notin Span
      BY HistoryFacts DEF SentSince
    <3> HIDE DEF Span
    <3>6. IsFiniteSet(Span) /\ Cardinality(Span) \in Nat
      BY <3>5, SelectionsAreFinite
    <3>7. Cardinality(Span') = Cardinality(Span) + 1
      BY <3>4, <3>5, <3>6, FS_AddElement
    <3>8. QED BY <3>2, <3>3, <3>6, <3>7
  <2>4. QED BY <2>2, <2>3
<1>4. ASSUME NEW a \in Accounts, Moderate(a) PROVE Cardinality(Span') > Many
  BY <1>1, <1>4 DEF Moderate, Excuse, TypeOK
<1>5. CASE Tick \/ UNCHANGED vars
  BY <1>1, <1>5 DEF Tick, vars
<1>6. QED BY <1>3, <1>4, <1>5 DEF Next

-----------------------------------------------------------------------------
(* The flood *)

\* What Unflooded counts.
LEMMA SpansAreFinite ==
  ASSUME TypeOK, NEW a, NEW t
  PROVE  /\ IsFiniteSet(SentSince(a, t)) /\ Cardinality(SentSince(a, t)) \in Nat
         /\ IsFiniteSet(SentWithin(a, t)) /\ Cardinality(SentWithin(a, t)) \in Nat
         /\ Len(history) + 1 \notin SentWithin(a, t)
<1>1. SentSince(a, t) \in SUBSET (1 .. Len(history))
  BY DEF SentSince
<1>2. SentWithin(a, t) \in SUBSET (1 .. Len(history))
  BY <1>1 DEF SentWithin
<1>3. Len(history) + 1 \notin 1 .. Len(history)
  BY HistoryFacts
<1>4. QED BY <1>1, <1>2, <1>3, SelectionsAreFinite

LEMMA FloodStep ==
  TypeOK /\ HistoryIsPast /\ FloodIsMuted /\ [Next]_vars => FloodIsMuted'
<1> SUFFICES ASSUME TypeOK, HistoryIsPast, FloodIsMuted, [Next]_vars
             PROVE  FloodIsMuted'
  OBVIOUS
<1> SUFFICES ASSUME NEW b \in Accounts, NEW t \in Nat PROVE Unflooded(b, t)'
  BY DEF FloodIsMuted
<1> DEFINE C == Cardinality(SentWithin(b, t))
<1>0. /\ Unflooded(b, t) /\ C \in Nat
      /\ Many \in Nat /\ Long \in Nat /\ MuteFor \in Nat /\ MuteFor >= Long
      /\ now \in Nat /\ excuses[b] \in Nat
      /\ muted[b] \in Nat \cup {Forever, Nothing}
      /\ Forever \notin Nat /\ Nothing \notin Nat
  BY SpansAreFinite, ChatAssumption DEF FloodIsMuted, TypeOK
<1>a. ASSUME history' = history PROVE C' = C
  BY <1>a DEF SentWithin, SentSince
<1>b. ASSUME C' = C, excuses'[b] = excuses[b], muted'[b] = muted[b] PROVE Unflooded(b, t)'
  BY <1>0, <1>b DEF Unflooded, MutedUntil
<1>1. ASSUME NEW a \in Accounts, NEW kind \in Kinds, Say(a, kind)
      PROVE  Unflooded(b, t)'
  <2> DEFINE falls == b = a /\ now >= t /\ now <= t + Long
  <2>1. Keep(a)
    BY <1>1 DEF Say, SayExcessive, SayIgnored, SayHeard
  <2>2. SentWithin(b, t)' = IF falls THEN SentWithin(b, t) \cup {Len(history) + 1}
                            ELSE SentWithin(b, t)
    BY <2>1, SentAfterKeep
  <2>3. C' = IF falls THEN C + 1 ELSE C
    <3>1. CASE falls
      <4>1. SentWithin(b, t)' = SentWithin(b, t) \cup {Len(history) + 1}
        BY <2>2, <3>1
      <4>2. /\ IsFiniteSet(SentWithin(b, t))
            /\ Len(history) + 1 \notin SentWithin(b, t)
        BY SpansAreFinite
      <4>3. Cardinality(SentWithin(b, t)') = C + 1
        BY <4>1, <4>2, FS_AddElement
      <4>4. QED BY <3>1, <4>3
    <3>2. CASE ~falls
      BY <2>2, <3>2
    <3>3. QED BY <3>1, <3>2
  <2>4. /\ excuses'[b] \in Nat /\ excuses[b] <= excuses'[b]
        /\ b # a => excuses'[b] = excuses[b] /\ muted'[b] = muted[b]
    BY <1>0, <1>1 DEF Say, SayExcessive, SayIgnored, SayHeard, PassesMute, Excuse, TypeOK
\* A message that goes on despite a mute is excused; a new mute lasts as long as
\* one that a span with the message in it needs.
  <2>5a. CASE IsMuted(a)
    <3>1. /\ b = a => excuses'[b] = excuses[b] + 1
          /\ b = a => muted'[b] = muted[b] \/ muted'[b] = now + MuteFor
      BY <1>0, <1>1, <2>5a DEF Say, SayExcessive, SayIgnored, SayHeard, PassesMute, Excuse, TypeOK
    <3> HIDE DEF C
    <3>2. CASE b = a
      <4>1. CASE ~falls
        <5>1. C' <= Many + excuses'[b]
          BY <1>0, <2>3, <3>1, <3>2, <4>1 DEF Unflooded, C
        <5> QED BY <5>1 DEF Unflooded, C
      <4>2. CASE falls /\ C <= Many + excuses[b]
        <5>1. C' <= Many + excuses'[b]
          BY <1>0, <2>3, <3>1, <3>2, <4>2
        <5> QED BY <5>1 DEF Unflooded, C
      <4>3. CASE falls /\ ~(C <= Many + excuses[b])
        <5>1. C <= Many + 1 + excuses[b] /\ MutedUntil(b, t + Long)
          BY <4>3, <1>0 DEF Unflooded, C
        <5>2. C' <= Many + 1 + excuses'[b]
          BY <1>0, <2>3, <3>1, <3>2, <4>3, <5>1
        <5>3. now + MuteFor \in Nat /\ now + MuteFor >= t + Long
          BY <1>0, <4>3
        <5>4. MutedUntil(b, t + Long)'
          BY <1>0, <3>1, <3>2, <5>1, <5>3 DEF MutedUntil
        <5> QED BY <5>2, <5>4 DEF Unflooded, C
      <4> QED BY <4>1, <4>2, <4>3
    <3>3. QED BY <1>b, <2>3, <2>4, <3>2
  <2> SUFFICES ASSUME ~IsMuted(a) PROVE Unflooded(b, t)'
    BY <2>5a
\* An account that is not muted has not reached the limit of a span that lasts.
  <2>5. falls => C <= Many + excuses[b]
    BY <1>0 DEF Unflooded, MutedUntil, IsMuted
  <2>6. CASE SayExcessive(a)
    <3>1. CASE excuses'[a] = excuses[a]
      <4>1. muted' = [muted EXCEPT ![a] = now + MuteFor]
        BY <1>0, <2>6, <3>1 DEF SayExcessive, Excuse, TypeOK
      <4>2. b = a => muted'[b] = now + MuteFor
        BY <4>1 DEF TypeOK
\* A span that begins after now has no messages yet.
      <4>3. t > now => C = 0
        <5>1. ASSUME t > now PROVE SentWithin(b, t) = {}
          BY <1>0, <5>1, HistoryFacts DEF SentWithin, SentSince, HistoryIsPast
        <5>2. QED BY <5>1, FS_EmptySet
      <4> HIDE DEF C
      <4>4. CASE b = a
        <5>1. muted'[b] = now + MuteFor /\ excuses'[b] = excuses[b]
          BY <3>1, <4>2, <4>4
        <5>2. C <= Many + 1 + excuses[b]
          BY <1>0 DEF Unflooded, C
        <5>3. t > now => C' <= Many + excuses'[b]
          BY <1>0, <2>3, <4>3, <5>1
        <5>4. t <= now => C' <= Many + 1 + excuses'[b]
          BY <1>0, <2>3, <2>5, <5>1, <5>2
        <5>5. t <= now => muted'[b] \in Nat /\ muted'[b] >= t + Long
          BY <1>0, <5>1
        <5>6. QED BY <1>0, <5>3, <5>4, <5>5 DEF Unflooded, MutedUntil, C
      <4>5. QED BY <1>b, <2>3, <2>4, <4>4
    <3>2. CASE excuses'[a] # excuses[a]
      <4>1. excuses'[a] = excuses[a] + 1 /\ muted' = muted
        BY <2>6, <3>2 DEF SayExcessive, PassesMute, Excuse, TypeOK
      <4> HIDE DEF C
      <4>2. CASE b = a
        <5>1. C <= Many + 1 + excuses[b]
          BY <1>0 DEF Unflooded, C
        <5>2. C' <= Many + excuses'[b]
          BY <1>0, <2>3, <2>5, <4>1, <4>2, <5>1
        <5>3. QED BY <5>2 DEF Unflooded, C
      <4>3. QED BY <1>b, <2>3, <2>4, <4>2
    <3>3. QED BY <3>1, <3>2
  <2>7. CASE ~IsExcessiveSpam(a) /\ excuses' = excuses /\ muted' = muted
    <3>1. falls => C < Many
      <4> SUFFICES ASSUME falls PROVE C < Many
        OBVIOUS
      <4>1. SentWithin(b, t) \subseteq SentSince(a, now - Long)
        BY <1>0, HistoryFacts DEF SentWithin, SentSince
      <4>2. Cardinality(SentSince(a, now - Long)) < Many
        BY <1>0, <2>7, SpansAreFinite DEF IsExcessiveSpam
      <4>3. C <= Cardinality(SentSince(a, now - Long))
        BY <4>1, SpansAreFinite, FS_Subset
      <4>4. QED BY <1>0, <4>2, <4>3, SpansAreFinite
    <3> HIDE DEF C
    <3>2. CASE falls
      <4>1. C' <= Many + excuses'[b]
        BY <1>0, <2>3, <2>4, <3>1, <3>2
      <4>2. QED BY <4>1 DEF Unflooded, C
    <3>3. QED BY <1>b, <2>3, <2>7, <3>2
  <2>8. QED BY <1>1, <2>6, <2>7 DEF Say, SayIgnored, SayHeard, PassesMute
<1>2. ASSUME NEW a \in Accounts, Moderate(a) PROVE Unflooded(b, t)'
  <2>1. history' = history /\ excuses'[a] = excuses[a] + 1
    BY <1>2 DEF Moderate, Excuse, TypeOK
  <2>2. b # a => excuses'[b] = excuses[b] /\ muted'[b] = muted[b]
    BY <1>2 DEF Moderate, Excuse, TypeOK
  <2>3. C' = C
    BY <1>a, <2>1
  <2>4. b = a => C' <= Many + excuses'[b]
    BY <1>0, <2>1, <2>3 DEF Unflooded
  <2>5. QED BY <1>b, <2>2, <2>3, <2>4 DEF Unflooded
<1>3. CASE Tick \/ UNCHANGED vars
  BY <1>3, <1>a, <1>b DEF Tick, vars
<1>4. QED BY <1>1, <1>2, <1>3 DEF Next

LEMMA FloodIsMutedStops == TypeOK /\ FloodIsMuted => FloodIsStopped
<1> SUFFICES ASSUME TypeOK, FloodIsMuted, NEW a \in Accounts, NEW t \in 0 .. now
             PROVE  Cardinality(SentWithin(a, t)) <= Many + 1 + excuses[a]
  BY DEF FloodIsStopped, SentWithin
<1>1. t \in Nat /\ Many \in Nat /\ excuses[a] \in Nat /\ Cardinality(SentWithin(a, t)) \in Nat
  BY ChatAssumption, SpansAreFinite DEF TypeOK
<1>2. QED BY <1>1 DEF FloodIsMuted, Unflooded

-----------------------------------------------------------------------------
(* What is broadcast *)

LEMMA HeardFacts ==
  ASSUME TypeOK, NEW a \in Accounts
  PROVE  /\ Len(heard[a]) \in Nat
         /\ \A n \in 1 .. Len(heard[a]) : heard[a][n] \in Nat
<1>1. heard[a] \in Seq(Nat)
  BY DEF TypeOK
<1>2. QED BY <1>1, LenProperties, ElementOfSeq

\* A message is only broadcast when, in the last Short seconds, fewer than Few of
\* the account's messages counted: the Few messages broadcast before would have.
LEMMA QuietBefore ==
  ASSUME TypeOK, HeardIsKept, HeardInOrder, NEW a \in Accounts, ~IsSpam(a),
         Len(heard[a]) >= Few
  PROVE  now - heard[a][Len(heard[a]) + 1 - Few] > Short
<1> USE ChatAssumption
<1> DEFINE L == Len(heard[a])
           first == L + 1 - Few
<1>1. /\ L \in Nat /\ now \in Nat /\ first \in 1 .. L
      /\ \A n \in 1 .. L : heard[a][n] \in Nat
  BY HeardFacts DEF TypeOK
<1> SUFFICES ASSUME now - heard[a][first] <= Short PROVE FALSE
  BY <1>1
<1>2. PICK g \in [1 .. L -> 1 .. Len(history)] : Kept(a, g)
  BY DEF HeardIsKept
<1>3. \A n \in first .. L : n \in 1 .. L /\ heard[a][n] >= now - Short
  <2> SUFFICES ASSUME NEW n \in first .. L
               PROVE  n \in 1 .. L /\ heard[a][n] >= now - Short
    OBVIOUS
  <2>1. n \in 1 .. L /\ first <= n
    BY <1>1
  <2>2. heard[a][first] <= heard[a][n]
    BY <1>1, <2>1 DEF HeardInOrder
  <2>3. heard[a][first] \in Nat /\ heard[a][n] \in Nat
    BY <1>1, <2>1
  <2>4. QED BY <1>1, <2>1, <2>2, <2>3
<1> DEFINE f == [n \in first .. L |-> g[n]]
<1>4. f \in Injection(first .. L, CountedSince(a, now - Short))
  <2>1. f \in [first .. L -> CountedSince(a, now - Short)]
    BY <1>1, <1>2, <1>3 DEF Kept, CountedSince, SentSince
  <2>2. \A m, n \in first .. L : f[m] = f[n] => m = n
    <3> SUFFICES ASSUME NEW m \in first .. L, NEW n \in first .. L, g[m] = g[n], m # n
                 PROVE  FALSE
      OBVIOUS
    <3>1. m \in 1 .. L /\ n \in 1 .. L /\ (m < n \/ n < m)
      BY <1>1, <1>3
    <3>2. g[m] \in Int
      BY <1>2, <3>1, HistoryFacts
    <3>3. g[m] < g[n] \/ g[n] < g[m]
      BY <1>2, <3>1 DEF Kept
    <3>4. QED BY <3>2, <3>3
  <2> HIDE DEF f
  <2>3. QED BY <2>1, <2>2 DEF Injection, IsInjective
<1>5. CountedSince(a, now - Short) \in SUBSET (1 .. Len(history))
  BY DEF CountedSince, SentSince
<1>6. /\ IsFiniteSet(CountedSince(a, now - Short))
      /\ Cardinality(CountedSince(a, now - Short)) \in Nat
  BY <1>5, SelectionsAreFinite
<1> HIDE DEF f
<1>7. Cardinality(first .. L) <= Cardinality(CountedSince(a, now - Short))
  BY <1>4, <1>6, FS_Injection
<1>8. Cardinality(first .. L) = Few
  <2>1. first \in Int /\ L \in Int /\ ~(first > L) /\ L - first + 1 = Few
    BY <1>1
  <2> HIDE DEF first, L
  <2>2. QED BY <2>1, FS_Interval
<1>9. QED BY <1>6, <1>7, <1>8 DEF IsSpam

\* What a message that is broadcast adds.
LEMMA HeardAfter ==
  ASSUME TypeOK, NEW a \in Accounts, Keep(a), ~IsSpam(a),
         heard' = [heard EXCEPT ![a] = Append(@, now)]
  PROVE  LET L == Len(heard[a])  N == Len(history) IN
         /\ Len(heard'[a]) = L + 1
         /\ \A n \in 1 .. L : heard'[a][n] = heard[a][n]
         /\ heard'[a][L + 1] = now
         /\ \A b \in Accounts \ {a} : heard'[b] = heard[b]
         /\ Len(history') = N + 1
         /\ \A n \in 1 .. N : history'[n] = history[n]
         /\ history'[N + 1].account = a
         /\ history'[N + 1].at = now
         /\ ~history'[N + 1].spam
<1>1. heard \in [Accounts -> Seq(Nat)] /\ heard[a] \in Seq(Nat) /\ now \in Nat
  BY DEF TypeOK
<1>2. heard'[a] = Append(heard[a], now)
  BY <1>1
<1>3. /\ Len(heard'[a]) = Len(heard[a]) + 1
      /\ \A n \in 1 .. Len(heard[a]) : heard'[a][n] = heard[a][n]
      /\ heard'[a][Len(heard[a]) + 1] = now
  BY <1>1, <1>2, AppendProperties
<1>4. QED BY <1>1, <1>3, KeepFacts

LEMMA HeardStep ==
  /\ TypeOK /\ HeardIsKept /\ HeardInOrder /\ HeardRarely /\ [Next]_vars
  => HeardIsKept' /\ HeardInOrder' /\ HeardRarely'
<1> SUFFICES ASSUME TypeOK, HeardIsKept, HeardInOrder, HeardRarely, [Next]_vars
             PROVE  HeardIsKept' /\ HeardInOrder' /\ HeardRarely'
  OBVIOUS
<1> USE ChatAssumption
\* Nothing is broadcast, and what is in the history stays.
<1>a. ASSUME heard' = heard, now' >= now, now' \in Nat, Len(history') \in Nat,
             Len(history') >= Len(history),
             \A n \in 1 .. Len(history) : history'[n] = history[n]
      PROVE  HeardIsKept' /\ HeardInOrder' /\ HeardRarely'
  <2>1. HeardRarely'
    BY <1>a DEF HeardRarely
  <2>2. HeardInOrder'
    <3> SUFFICES ASSUME NEW b \in Accounts, NEW n \in 1 .. Len(heard[b])
                 PROVE  heard[b][n] <= now'
      BY <1>a DEF HeardInOrder
    <3>1. heard[b][n] \in Nat /\ now \in Nat /\ heard[b][n] <= now
      BY HeardFacts DEF HeardInOrder, TypeOK
    <3>2. QED BY <1>a, <3>1
  <2>3. HeardIsKept'
    <3> SUFFICES ASSUME NEW b \in Accounts
                 PROVE  \E g \in [1 .. Len(heard'[b]) -> 1 .. Len(history')] : Kept(b, g)'
      BY DEF HeardIsKept
    <3>1. PICK g \in [1 .. Len(heard[b]) -> 1 .. Len(history)] : Kept(b, g)
      BY DEF HeardIsKept
    <3>2. 1 .. Len(history) \subseteq 1 .. Len(history')
      BY <1>a, HistoryFacts
    <3>3. g \in [1 .. Len(heard'[b]) -> 1 .. Len(history')]
      BY <1>a, <3>2
    <3>4. Kept(b, g)'
      BY <1>a, <3>1, <3>2 DEF Kept
    <3>5. QED BY <3>3, <3>4
  <2>4. QED BY <2>1, <2>2, <2>3
<1>b. ASSUME NEW a \in Accounts, Keep(a), heard' = heard, now' = now
      PROVE  HeardIsKept' /\ HeardInOrder' /\ HeardRarely'
  <2>1. now' \in Nat /\ now' >= now
    BY <1>b DEF TypeOK
  <2>2. QED BY <1>a, <1>b, <2>1, HistoryFacts, KeepFacts
<1>1. ASSUME NEW a \in Accounts, NEW kind \in Kinds, SayHeard(a, kind)
      PROVE  HeardIsKept' /\ HeardInOrder' /\ HeardRarely'
  <2> DEFINE L == Len(heard[a])
             N == Len(history)
  <2>1. Keep(a) /\ ~IsSpam(a) /\ now' = now
        /\ heard' = [heard EXCEPT ![a] = Append(@, now)]
    BY <1>1 DEF SayHeard
  <2>2. /\ Len(heard'[a]) = L + 1
        /\ \A n \in 1 .. L : heard'[a][n] = heard[a][n]
        /\ heard'[a][L + 1] = now
        /\ \A b \in Accounts \ {a} : heard'[b] = heard[b]
        /\ Len(history') = N + 1
        /\ \A n \in 1 .. N : history'[n] = history[n]
        /\ history'[N + 1].account = a
        /\ history'[N + 1].at = now
        /\ ~history'[N + 1].spam
    BY <2>1, HeardAfter
  <2>3. L \in Nat /\ N \in Nat /\ now \in Nat /\ \A n \in 1 .. L : heard[a][n] \in Nat
    BY HeardFacts, HistoryFacts DEF TypeOK
  <2> HIDE DEF L, N
  <2>4. \A n \in 1 .. L + 1 : n \in 1 .. L \/ n = L + 1
    BY <2>3
  <2>5. HeardInOrder'
    <3>1. \A n \in 1 .. L + 1 : heard'[a][n] <= now
      BY <2>2, <2>3, <2>4 DEF HeardInOrder, L
    <3>2. \A m, n \in 1 .. L + 1 : m <= n => heard'[a][m] <= heard'[a][n]
      <4> SUFFICES ASSUME NEW m \in 1 .. L + 1, NEW n \in 1 .. L + 1, m <= n
                   PROVE  heard'[a][m] <= heard'[a][n]
        OBVIOUS
      <4>1. CASE n = L + 1
        BY <2>2, <3>1, <4>1
      <4>2. CASE n \in 1 .. L
        <5>1. m \in 1 .. L
          BY <2>3, <4>2
        <5>2. QED BY <2>2, <4>2, <5>1 DEF HeardInOrder, L
      <4>3. QED BY <2>4, <4>1, <4>2
    <3>3. QED BY <2>1, <2>2, <3>1, <3>2 DEF HeardInOrder
  <2>6. HeardRarely'
    <3> SUFFICES ASSUME NEW n \in 1 .. L + 1, n > Few
                 PROVE  heard'[a][n] - heard'[a][n - Few] > Short
      BY <2>2 DEF HeardRarely
    <3>1. CASE n \in 1 .. L
      <4>1. n - Few \in 1 .. L
        BY <2>3, <3>1
      <4>2. QED BY <2>2, <3>1, <4>1 DEF HeardRarely, L
    <3>2. CASE n = L + 1
      <4>1. n - Few \in 1 .. L /\ n - Few = L + 1 - Few /\ L >= Few
        BY <2>3, <3>2
      <4>2. now - heard[a][L + 1 - Few] > Short
        BY <2>1, <4>1, QuietBefore DEF L
      <4>3. QED BY <2>2, <3>2, <4>1, <4>2
    <3>3. QED BY <2>4, <3>1, <3>2
  <2>7. HeardIsKept'
    <3> SUFFICES ASSUME NEW b \in Accounts
                 PROVE  \E g \in [1 .. Len(heard'[b]) -> 1 .. Len(history')] : Kept(b, g)'
      BY DEF HeardIsKept
    <3>1. PICK g \in [1 .. Len(heard[b]) -> 1 .. N] : Kept(b, g)
      BY DEF HeardIsKept, N
    <3>2. 1 .. N \subseteq 1 .. Len(history') /\ N + 1 \in 1 .. Len(history')
      BY <2>2, <2>3
    <3>3. CASE b # a
      <4>1. g \in [1 .. Len(heard'[b]) -> 1 .. Len(history')]
        BY <2>2, <3>2, <3>3
      <4>2. Kept(b, g)'
        BY <2>2, <3>1, <3>2, <3>3 DEF Kept, N
      <4>3. QED BY <4>1, <4>2
    <3>4. CASE b = a
      <4>0. g \in [1 .. L -> 1 .. N] /\ Kept(a, g)
        BY <3>1, <3>4 DEF L
      <4>1. PICK h \in [1 .. L + 1 -> 1 .. Len(history')] :
                h[L + 1] = N + 1 /\ \A n \in 1 .. L : h[n] = g[n]
        <5> DEFINE h == [n \in 1 .. L + 1 |-> IF n = L + 1 THEN N + 1 ELSE g[n]]
        <5>1. \A n \in 1 .. L : n # L + 1 /\ n \in 1 .. L + 1 /\ h[n] = g[n]
          BY <2>3
        <5>2. h[L + 1] = N + 1
          BY <2>3
        <5>3. h \in [1 .. L + 1 -> 1 .. Len(history')]
          BY <2>4, <3>2, <4>0
        <5> HIDE DEF h
        <5>4. QED BY <5>1, <5>2, <5>3
      <4>4. \A n \in 1 .. L + 1 :
               /\ h[n] \in 1 .. Len(history')
               /\ history'[h[n]].account = a
               /\ history'[h[n]].at = heard'[a][n]
               /\ ~history'[h[n]].spam
        <5> SUFFICES ASSUME NEW n \in 1 .. L + 1
                     PROVE  /\ h[n] \in 1 .. Len(history')
                            /\ history'[h[n]].account = a
                            /\ history'[h[n]].at = heard'[a][n]
                            /\ ~history'[h[n]].spam
          OBVIOUS
        <5>1. CASE n = L + 1
          BY <2>2, <3>2, <4>1, <5>1
        <5>2. CASE n \in 1 .. L
          <6>1. /\ g[n] \in 1 .. N /\ history[g[n]].account = a
                /\ history[g[n]].at = heard[a][n] /\ ~history[g[n]].spam
            BY <4>0, <5>2 DEF Kept, L, N
          <6>2. QED BY <2>2, <3>2, <4>1, <5>2, <6>1
        <5>3. QED BY <2>4, <5>1, <5>2
      <4>5. \A m, n \in 1 .. L + 1 : m < n => h[m] < h[n]
        <5> SUFFICES ASSUME NEW m \in 1 .. L + 1, NEW n \in 1 .. L + 1, m < n
                     PROVE  h[m] < h[n]
          OBVIOUS
        <5>1. m \in 1 .. L /\ h[m] = g[m] /\ g[m] \in 1 .. N
          BY <2>3, <4>0, <4>1
        <5>2. CASE n = L + 1
          BY <2>3, <4>1, <5>1, <5>2
        <5>3. CASE n \in 1 .. L
          BY <4>0, <4>1, <5>1, <5>3 DEF Kept, L
        <5>4. QED BY <2>4, <5>2, <5>3
      <4>6. Kept(b, h)'
        BY <2>2, <3>4, <4>4, <4>5 DEF Kept
      <4>7. h \in [1 .. Len(heard'[b]) -> 1 .. Len(history')]
        BY <2>2, <3>4, <4>1
      <4>8. QED BY <4>6, <4>7
    <3>5. QED BY <3>3, <3>4
  <2>8. QED BY <2>5, <2>6, <2>7
<1>2. ASSUME NEW a \in Accounts, NEW kind \in Kinds, SayExcessive(a) \/ SayIgnored(a, kind)
      PROVE  HeardIsKept' /\ HeardInOrder' /\ HeardRarely'
  BY <1>2, <1>b DEF SayExcessive, SayIgnored
<1>3. ASSUME history' = history, heard' = heard, now' \in Nat, now' >= now
      PROVE  HeardIsKept' /\ HeardInOrder' /\ HeardRarely'
  <2>1. Len(history) \in Nat /\ Len(history') >= Len(history)
    BY <1>3, HistoryFacts
  <2>2. QED BY <1>3, <1>a, <2>1
<1>4. ASSUME NEW a \in Accounts, Moderate(a)
      PROVE  HeardIsKept' /\ HeardInOrder' /\ HeardRarely'
  BY <1>3, <1>4 DEF Moderate, Excuse, TypeOK
<1>5. CASE Tick \/ UNCHANGED vars
  BY <1>3, <1>5 DEF Tick, vars, TypeOK
<1>6. QED BY <1>1, <1>2, <1>4, <1>5 DEF Next, Say

-----------------------------------------------------------------------------
(* The query *)

LEMMA LeastNatural ==
    ASSUME NEW S \in SUBSET Nat, S # {}
    PROVE  \E n \in S : \A m \in S : n <= m
<1> DEFINE Less == OpToRel(<, Nat)
<1>1. IsWellFoundedOn(Less, Nat)
  BY NatLessThanWellFounded
<1>2. \A m, n \in Nat : m < n => <<m, n>> \in Less
  BY DEF OpToRel
<1> HIDE DEF Less
<1>3. PICK n \in S : \A m \in S : <<m, n>> \notin Less
  BY <1>1, WFMin
<1>4. \A m \in S : ~(m < n)
  BY <1>2, <1>3
<1> QED
  BY <1>4

\* One turn of the loop, where f[n] is what was found from position n on.
Turn(query, f, n) ==
    IF n > Len(history) THEN [list |-> << >>, done |-> FALSE]
    ELSE Visit(query, f[n + 1], history[n])

TurnsFrom(query, f, k) ==
    /\ f = [n \in k .. Len(history) + 1 |-> f[n]]
    /\ \A n \in k .. Len(history) + 1 : f[n] = Turn(query, f, n)

\* The loop has a result: it is built turn by turn, from the newest message back.
LEMMA TurnsExist ==
  ASSUME TypeOK, NEW query
  PROVE  \E f : TurnsFrom(query, f, 1)
<1> DEFINE N == Len(history)
           Missing == {m \in Nat : m <= N /\ ~\E f : TurnsFrom(query, f, N + 1 - m)}
<1>0. N \in Nat
  BY HistoryFacts
<1> HIDE DEF N
<1> SUFFICES Missing = {}
  <2>1. N \in Nat /\ N <= N /\ N + 1 - N = 1
    BY <1>0
  <2>2. QED BY <2>1
<1> SUFFICES ASSUME Missing # {} PROVE FALSE
  OBVIOUS
<1>1. PICK m \in Missing : \A k \in Missing : m <= k
  <2>1. Missing \in SUBSET Nat
    OBVIOUS
  <2> HIDE DEF Missing
  <2>2. QED BY <2>1, LeastNatural
<1>2. m # 0
  <2> SUFFICES \E f : TurnsFrom(query, f, N + 1)
    BY <1>0, <1>1
  <2> DEFINE f == [n \in N + 1 .. N + 1 |-> [list |-> << >>, done |-> FALSE]]
  <2>1. TurnsFrom(query, f, N + 1)
    BY <1>0 DEF TurnsFrom, Turn, N
  <2> HIDE DEF f
  <2>2. QED BY <2>1
<1> DEFINE k == N + 1 - m
<1>3. k \in 1 .. N /\ m - 1 \in Nat /\ m - 1 <= N /\ N + 1 - (m - 1) = k + 1
  BY <1>0, <1>1, <1>2
<1>4. m - 1 \notin Missing
  <2> HIDE DEF Missing
  <2>1. m \in Nat
    BY <1>1 DEF Missing
  <2>2. QED BY <1>1, <2>1
<1>5. PICK f : TurnsFrom(query, f, k + 1)
  BY <1>3, <1>4
<1> HIDE DEF k
<1> DEFINE h == [n \in k .. N + 1 |-> IF n = k THEN Turn(query, f, k) ELSE f[n]]
<1>6. \A n \in k .. N + 1 : n # k => n \in k + 1 .. N + 1 /\ h[n] = f[n]
  BY <1>0, <1>3
<1>7. h = [n \in k .. N + 1 |-> h[n]] /\ h[k] = Turn(query, f, k)
  BY <1>0, <1>3
<1> HIDE DEF h
<1>8. \A n \in k .. N + 1 : Turn(query, h, n) = Turn(query, f, n)
  <2> SUFFICES ASSUME NEW n \in k .. N + 1 PROVE Turn(query, h, n) = Turn(query, f, n)
    OBVIOUS
  <2>1. CASE n > N
    BY <2>1 DEF Turn, N
  <2>2. CASE n <= N
    <3>1. n + 1 \in k .. N + 1 /\ n + 1 # k
      BY <1>0, <1>3, <2>2
    <3>2. h[n + 1] = f[n + 1]
      BY <1>6, <3>1
    <3>3. QED BY <3>2 DEF Turn
  <2>3. QED BY <1>0, <1>3, <2>1, <2>2
<1>9. TurnsFrom(query, h, k)
  BY <1>5, <1>6, <1>7, <1>8 DEF TurnsFrom, N
<1>10. QED BY <1>1, <1>9 DEF k

\* The answer is what the turns have found, the other way round.
LEMMA GetMessagesTurns ==
  ASSUME TypeOK, NEW query
  PROVE  \E f : TurnsFrom(query, f, 1) /\ GetMessages(query) = Reverse(f[1].list)
<1> DEFINE Loop(f) ==
              f = [n \in 1 .. Len(history) + 1 |->
                      IF n > Len(history)
                      THEN [list |-> << >>, done |-> FALSE]
                      ELSE Visit(query, f[n + 1], history[n])]
<1>1. GetMessages(query) = Reverse((CHOOSE f : Loop(f))[1].list)
  BY DEF GetMessages
<1>2. \A f : Loop(f) <=> TurnsFrom(query, f, 1)
  BY DEF TurnsFrom, Turn
<1>3. \E f : Loop(f)
  BY <1>2, TurnsExist
<1> HIDE DEF Loop
<1>4. Loop(CHOOSE f : Loop(f))
  BY <1>3
<1>5. QED BY <1>1, <1>2, <1>4

\* The messages asked for that the loop has come to when it is at position n, and
\* those later than a position.
Seen(query, n) == {m \in Matches(query) : m >= n}
Later(query, n) == {m \in Matches(query) : m > n}

\* What was found is right so far: all that was asked for among what was seen, or
\* as many as the limit; and when the loop is done, nothing more is to be found.
RightFrom(query, n, x) ==
    /\ x \in [list : Seq(Message), done : BOOLEAN]
    /\ Len(x.list) <= Limit(query)
    /\ Len(x.list) <= Cardinality(Seen(query, n))
    /\ \/ Len(x.list) = Cardinality(Seen(query, n))
       \/ x.done /\ Len(x.list) = Limit(query)
    /\ ~x.done => Len(x.list) < Limit(query)
    /\ x.done => \/ Len(x.list) = Limit(query)
                 \/ \A m \in 1 .. Len(history) : m < n => ~Wanted(query, history[m])
    /\ \A m \in Seen(query, n) :
          Cardinality(Later(query, m)) < Len(x.list)
             => x.list[Cardinality(Later(query, m)) + 1] = history[m]

\* A turn sees one message more, if it is asked for.
LEMMA SeenFacts ==
  ASSUME TypeOK, NEW query, NEW n \in 1 .. Len(history)
  PROVE  /\ IsFiniteSet(Seen(query, n + 1)) /\ Cardinality(Seen(query, n + 1)) \in Nat
         /\ IsFiniteSet(Later(query, n)) /\ Cardinality(Later(query, n)) \in Nat
         /\ ~Wanted(query, history[n]) => Seen(query, n) = Seen(query, n + 1)
         /\ Wanted(query, history[n]) =>
               /\ Seen(query, n) = Seen(query, n + 1) \cup {n}
               /\ Cardinality(Seen(query, n)) = Cardinality(Seen(query, n + 1)) + 1
         /\ Later(query, n) = Seen(query, n + 1)
<1>1. /\ Seen(query, n + 1) \in SUBSET (1 .. Len(history))
      /\ Later(query, n) = Seen(query, n + 1)
  BY HistoryFacts DEF Seen, Later, Matches
<1>2. IsFiniteSet(Seen(query, n + 1)) /\ Cardinality(Seen(query, n + 1)) \in Nat
  BY <1>1, SelectionsAreFinite
<1>3. ~Wanted(query, history[n]) => Seen(query, n) = Seen(query, n + 1)
  BY HistoryFacts DEF Seen, Matches
<1>4. Wanted(query, history[n]) => Seen(query, n) = Seen(query, n + 1) \cup {n}
  BY HistoryFacts DEF Seen, Matches
<1>5. n \notin Seen(query, n + 1)
  BY DEF Seen
<1>6. Cardinality(Seen(query, n + 1) \cup {n}) = Cardinality(Seen(query, n + 1)) + 1
  BY <1>2, <1>5, FS_AddElement
<1>7. QED BY <1>1, <1>2, <1>3, <1>4, <1>6

\* A turn of the loop keeps right what was found.
LEMMA TurnKeepsRight ==
  ASSUME TypeOK, NEW query \in Query, query.from = Nothing \/ query.to = Nothing,
         NEW n \in 1 .. Len(history), NEW x, RightFrom(query, n + 1, x)
  PROVE  RightFrom(query, n, Visit(query, x, history[n]))
<1> USE ChatAssumption
<1> DEFINE N == Len(history)
           msg == history[n]
           W == Cardinality(Seen(query, n + 1))
           S(m) == Cardinality(Later(query, m))
<1>0. /\ N \in Nat /\ msg \in Message /\ msg.at \in Nat /\ W \in Nat
      /\ x.list \in Seq(Message) /\ Len(x.list) \in Nat /\ x.done \in BOOLEAN
      /\ x \in [list : Seq(Message), done : BOOLEAN]
      /\ Limit(query) \in Nat \ {0} /\ query.limit \in Nat
  <2>1. query.limit \in Nat /\ Limit(query) \in Nat \ {0}
    BY DEF Query, Limit
  <2>2. x.list \in Seq(Message)
    BY DEF RightFrom
  <2>3. Len(x.list) \in Nat
    BY <2>2, LenProperties
  <2>4. QED BY <2>1, <2>2, <2>3, HistoryFacts, SeenFacts DEF RightFrom
<1>a. /\ Len(x.list) <= Limit(query) /\ Len(x.list) <= W
      /\ Len(x.list) = W \/ (x.done /\ Len(x.list) = Limit(query))
      /\ ~x.done => Len(x.list) < Limit(query)
      /\ x.done => \/ Len(x.list) = Limit(query)
                   \/ \A m \in 1 .. N : m < n + 1 => ~Wanted(query, history[m])
      /\ \A m \in Seen(query, n + 1) : S(m) < Len(x.list) => x.list[S(m) + 1] = history[m]
  BY DEF RightFrom
<1>b. /\ ~Wanted(query, msg) => Seen(query, n) = Seen(query, n + 1)
      /\ Wanted(query, msg) => /\ Seen(query, n) = Seen(query, n + 1) \cup {n}
                               /\ Cardinality(Seen(query, n)) = W + 1
      /\ S(n) = W
  BY SeenFacts
<1> HIDE DEF W, S
\* A message that is not asked for leaves what was found right.
<1>1. ASSUME NEW y, y.list = x.list, y \in [list : Seq(Message), done : BOOLEAN],
             ~Wanted(query, msg),
             \/ y.done = x.done
             \/ /\ y.done
                /\ \A m \in 1 .. N : m < n => ~Wanted(query, history[m])
      PROVE  RightFrom(query, n, y)
  <2>1. Seen(query, n) = Seen(query, n + 1)
    BY <1>1, <1>b
  <2>2. \A m \in 1 .. N : m < n => m < n + 1
    BY <1>0
  <2>3. y.done => \/ Len(y.list) = Limit(query)
                  \/ \A m \in 1 .. N : m < n => ~Wanted(query, history[m])
    BY <1>1, <1>a, <2>2
  <2>4. ~y.done => Len(y.list) < Limit(query)
    BY <1>1, <1>a
  <2>5. Len(y.list) = W \/ (y.done /\ Len(y.list) = Limit(query))
    BY <1>1, <1>a
  <2>6. QED BY <1>1, <1>a, <2>1, <2>3, <2>4, <2>5 DEF RightFrom, W, S
<1>2. CASE x.done
  <2>1. Visit(query, x, msg) = x
    BY <1>2 DEF Visit
  <2>2. CASE ~Wanted(query, msg)
    BY <1>0, <1>1, <2>1, <2>2
  <2>3. CASE Wanted(query, msg)
    <3>1. Len(x.list) = Limit(query)
      BY <1>2, <1>a, <2>3
    <3>2. ~(S(n) < Len(x.list))
      BY <1>0, <1>a, <1>b
    <3>3. \A m \in Seen(query, n) : S(m) < Len(x.list) => x.list[S(m) + 1] = history[m]
      BY <1>a, <1>b, <2>3, <3>2
    <3>4. Len(x.list) <= Cardinality(Seen(query, n))
      BY <1>0, <1>a, <1>b, <2>3
    <3>5. QED BY <1>0, <1>2, <2>1, <3>1, <3>3, <3>4 DEF RightFrom, S
  <2>4. QED BY <2>2, <2>3
<1>3. CASE ~x.done /\ query.to # Nothing /\ msg.at >= query.to
  <2>1. Visit(query, x, msg) = x
    BY <1>3 DEF Visit
  <2>2. ~Wanted(query, msg)
    BY <1>0, <1>3 DEF Wanted, Query
  <2>3. QED BY <1>0, <1>1, <2>1, <2>2
<1>4. CASE /\ ~x.done /\ query.to = Nothing
           /\ query.from # Nothing /\ msg.at <= query.from
  <2>1. Visit(query, x, msg) = [x EXCEPT !.done = TRUE]
    BY <1>4 DEF Visit
  <2>2. query.from \in Nat
    BY <1>4 DEF Query
  <2>3. \A m \in 1 .. N : m <= n => ~Wanted(query, history[m])
    <3> SUFFICES ASSUME NEW m \in 1 .. N, m <= n PROVE ~Wanted(query, history[m])
      OBVIOUS
    <3>1. history[m].at <= msg.at
      BY <1>0 DEF TypeOK
    <3>2. history[m].at \in Nat
      BY HistoryFacts
    <3>3. QED BY <1>0, <1>4, <2>2, <3>1, <3>2 DEF Wanted
  <2>4. ~Wanted(query, msg) /\ \A m \in 1 .. N : m < n => ~Wanted(query, history[m])
    BY <1>0, <2>3
  <2> DEFINE y == [x EXCEPT !.done = TRUE]
  <2>5. y.list = x.list /\ y.done /\ y \in [list : Seq(Message), done : BOOLEAN]
    BY <1>0
  <2> HIDE DEF y
  <2>6. RightFrom(query, n, y)
    BY <1>1, <2>4, <2>5
  <2>7. QED BY <2>1, <2>6 DEF y
<1>5. CASE /\ ~x.done /\ ~(query.to # Nothing /\ msg.at >= query.to)
           /\ ~(query.to = Nothing /\ query.from # Nothing /\ msg.at <= query.from)
           /\ query.by # Nothing /\ query.by # msg.account
  <2>1. Visit(query, x, msg) = x
    BY <1>5 DEF Visit
  <2>2. ~Wanted(query, msg)
    BY <1>5 DEF Wanted
  <2>3. QED BY <1>0, <1>1, <2>1, <2>2
<1>6. CASE /\ ~x.done /\ ~(query.to # Nothing /\ msg.at >= query.to)
           /\ ~(query.to = Nothing /\ query.from # Nothing /\ msg.at <= query.from)
           /\ ~(query.by # Nothing /\ query.by # msg.account)
  <2> DEFINE enough == Len(x.list) + 1 >= query.limit
             y == [list |-> Append(x.list, msg), done |-> enough]
  <2>1. Visit(query, x, msg) = y
    BY <1>6 DEF Visit
  <2>2. Wanted(query, msg)
    BY <1>0, <1>6 DEF Wanted, Query
  <2>3. /\ Append(x.list, msg) \in Seq(Message)
        /\ Len(Append(x.list, msg)) = Len(x.list) + 1
        /\ \A j \in 1 .. Len(x.list) : Append(x.list, msg)[j] = x.list[j]
        /\ Append(x.list, msg)[Len(x.list) + 1] = msg
    BY <1>0, AppendProperties
  <2>4. y.done \in BOOLEAN /\ (y.done <=> Len(x.list) + 1 >= query.limit)
    <3>1. enough \in BOOLEAN /\ (enough <=> Len(x.list) + 1 >= query.limit)
      OBVIOUS
    <3> HIDE DEF enough
    <3>2. QED BY <3>1
  <2>5. y.list = Append(x.list, msg) /\ y \in [list : Seq(Message), done : BOOLEAN]
    BY <2>3, <2>4
  <2> HIDE DEF y
  <2>6. Len(x.list) = W /\ Len(x.list) < Limit(query)
    BY <1>6, <1>a
  <2>7. /\ Len(y.list) = W + 1 /\ Len(y.list) <= Limit(query)
        /\ ~y.done => Len(y.list) < Limit(query)
        /\ y.done => Len(y.list) = Limit(query)
    BY <1>0, <2>3, <2>4, <2>5, <2>6 DEF Limit
  <2>8. \A m \in Seen(query, n + 1) :
           S(m) < Len(y.list) => y.list[S(m) + 1] = history[m]
    <3> SUFFICES ASSUME NEW m \in Seen(query, n + 1), S(m) < Len(y.list)
                 PROVE  y.list[S(m) + 1] = history[m]
      OBVIOUS
    <3>1. m \in 1 .. N /\ m >= n + 1
      BY DEF Seen, Matches
    <3>2. S(m) < W /\ S(m) \in Nat
      <4>1. Later(query, m) \subseteq Seen(query, n + 1)
        BY <3>1, HistoryFacts DEF Later, Seen, Matches
      <4>2. m \notin Later(query, m)
        BY <3>1 DEF Later
      <4>3. IsFiniteSet(Seen(query, n + 1)) /\ Seen(query, n + 1) # Later(query, m)
        BY <4>2, SeenFacts
      <4>4. /\ Cardinality(Later(query, m)) <= Cardinality(Seen(query, n + 1))
            /\ Cardinality(Later(query, m)) # Cardinality(Seen(query, n + 1))
            /\ IsFiniteSet(Later(query, m))
        BY <4>1, <4>3, FS_Subset
      <4>5. Cardinality(Later(query, m)) \in Nat
        BY <4>4, FS_CardinalityType
      <4>6. QED BY <1>0, <4>4, <4>5 DEF W, S
    <3>3. S(m) + 1 \in 1 .. Len(x.list) /\ S(m) < Len(x.list)
      BY <1>0, <2>6, <3>2
    <3>4. QED BY <1>a, <2>3, <2>5, <3>3
  <2>9. y.list[S(n) + 1] = history[n]
    BY <1>b, <2>3, <2>5, <2>6
  <2>10. \A m \in Seen(query, n) : S(m) < Len(y.list) => y.list[S(m) + 1] = history[m]
    BY <1>b, <2>2, <2>8, <2>9
  <2>11. Len(y.list) = Cardinality(Seen(query, n)) /\ Len(y.list) \in Nat
    BY <1>0, <1>b, <2>2, <2>7
  <2>12. RightFrom(query, n, y)
    <3>1. Len(y.list) <= Cardinality(Seen(query, n))
      BY <2>11
    <3>2. \A m \in Seen(query, n) :
             Cardinality(Later(query, m)) < Len(y.list)
                => y.list[Cardinality(Later(query, m)) + 1] = history[m]
      BY <2>10 DEF S
    <3>3. QED BY <2>5, <2>7, <2>11, <3>1, <3>2 DEF RightFrom
  <2>13. QED BY <2>1, <2>12
<1>7. QED BY <1>2, <1>3, <1>4, <1>5, <1>6

\* Any query but one with both limits of time.
LEMMA QueryFinds ==
  ASSUME TypeOK, NEW query \in Query, query.from = Nothing \/ query.to = Nothing
  PROVE  FindsNewest(query, GetMessages(query))
<1> DEFINE N == Len(history)
<1>0. N \in Nat
  BY HistoryFacts
<1>1. PICK f : TurnsFrom(query, f, 1) /\ GetMessages(query) = Reverse(f[1].list)
  BY GetMessagesTurns
<1>1a. \A n \in 1 .. N + 1 : f[n] = Turn(query, f, n)
  BY <1>1 DEF TurnsFrom
<1> DEFINE Wrong == {m \in Nat : m <= N /\ ~RightFrom(query, N + 1 - m, f[N + 1 - m])}
\* The loop is right after every turn.
<1>2. Wrong = {}
  <2> HIDE DEF N
  <2> SUFFICES ASSUME Wrong # {} PROVE FALSE
    OBVIOUS
  <2>1. PICK m \in Wrong : \A k \in Wrong : m <= k
    <3>1. Wrong \in SUBSET Nat
      OBVIOUS
    <3> HIDE DEF Wrong
    <3>2. QED BY <3>1, LeastNatural
  <2>2. m # 0
    <3>1. f[N + 1] = [list |-> << >>, done |-> FALSE]
      <4>1. N + 1 \in 1 .. N + 1 /\ N + 1 > N
        BY <1>0
      <4>2. f[N + 1] = Turn(query, f, N + 1)
        BY <1>1a, <4>1
      <4>3. QED BY <4>1, <4>2 DEF Turn, N
    <3>2. Seen(query, N + 1) = {}
      BY <1>0 DEF Seen, Matches, N
    <3>3. Cardinality(Seen(query, N + 1)) = 0
      BY <3>2, FS_EmptySet
    <3>4. << >> \in Seq(Message) /\ Len(<< >>) = 0
      BY EmptySeq
    <3>5. Limit(query) \in Nat /\ Limit(query) # 0
      BY DEF Limit, Query
    <3>6. RightFrom(query, N + 1, f[N + 1])
      BY <3>1, <3>2, <3>3, <3>4, <3>5 DEF RightFrom
    <3>7. QED BY <1>0, <2>1, <3>6
  <2> DEFINE k == N + 1 - m
  <2>3. /\ k \in 1 .. N /\ m - 1 \in Nat /\ m - 1 <= N
        /\ N + 1 - (m - 1) = k + 1
    BY <1>0, <2>1, <2>2
  <2>4. m - 1 \notin Wrong
    <3>1. m \in Nat
      BY <2>1
    <3> HIDE DEF Wrong
    <3>2. QED BY <2>1, <3>1
  <2>5. RightFrom(query, k + 1, f[k + 1])
    BY <2>3, <2>4
  <2> HIDE DEF k
  <2>6. f[k] = Visit(query, f[k + 1], history[k])
    <3>1. k \in 1 .. N + 1 /\ ~(k > N)
      BY <1>0, <2>3
    <3>2. f[k] = Turn(query, f, k)
      BY <1>1a, <3>1
    <3>3. QED BY <3>1, <3>2 DEF Turn, N
  <2>7. RightFrom(query, k, f[k])
    BY <2>3, <2>5, <2>6, TurnKeepsRight DEF N
  <2>8. QED BY <2>1, <2>7 DEF k
<1>3. RightFrom(query, 1, f[1])
  <2>1. N \in Nat /\ N <= N /\ N + 1 - N = 1
    BY <1>0
  <2> HIDE DEF N
  <2>2. QED BY <1>2, <2>1
<1> DEFINE list == f[1].list
           all == Matches(query)
<1>4. Seen(query, 1) = all
  BY DEF Seen, Matches
<1>5. IsFiniteSet(all) /\ Cardinality(all) \in Nat
  <2>1. all \in SUBSET (1 .. Len(history))
    BY DEF Matches
  <2>2. QED BY <2>1, SelectionsAreFinite
<1>6. list \in Seq(Message) /\ Len(list) \in Nat /\ Limit(query) \in Nat
  <2>1. list \in Seq(Message)
    BY <1>3 DEF RightFrom
  <2>2. QED BY <2>1, LenProperties DEF Limit, Query
<1>7. Len(list) = IF Cardinality(all) < Limit(query) THEN Cardinality(all) ELSE Limit(query)
  <2>1. /\ Len(list) <= Limit(query) /\ Len(list) <= Cardinality(all)
        /\ Len(list) = Cardinality(all) \/ Len(list) = Limit(query)
    BY <1>3, <1>4 DEF RightFrom
  <2> HIDE DEF list, all
  <2>2. QED BY <1>5, <1>6, <2>1
<1>8. ASSUME NEW n \in all, Cardinality(Later(query, n)) < Limit(query)
      PROVE  /\ Cardinality(Later(query, n)) \in Nat
             /\ Cardinality(Later(query, n)) < Len(list)
             /\ list[Cardinality(Later(query, n)) + 1] = history[n]
  <2>1. Later(query, n) \subseteq all /\ n \notin Later(query, n)
    BY DEF Later, Matches
  <2>2. /\ IsFiniteSet(Later(query, n))
        /\ Cardinality(Later(query, n)) <= Cardinality(all)
        /\ Cardinality(Later(query, n)) # Cardinality(all)
    BY <1>5, <1>8, <2>1, FS_Subset
  <2>3. Cardinality(Later(query, n)) \in Nat
    BY <2>2, FS_CardinalityType
  <2> HIDE DEF list, all
  <2>4. Cardinality(Later(query, n)) < Len(list)
    BY <1>5, <1>6, <1>7, <1>8, <2>2, <2>3
  <2>5. list[Cardinality(Later(query, n)) + 1] = history[n]
    BY <1>3, <1>4, <1>8, <2>4 DEF RightFrom, list
  <2>6. QED BY <2>3, <2>4, <2>5
\* The last found comes first in the answer.
<1>9. /\ Len(GetMessages(query)) = Len(list)
      /\ \A i \in 1 .. Len(list) : GetMessages(query)[i] = list[Len(list) - i + 1]
  <2> HIDE DEF list
  <2>1. GetMessages(query) = [i \in 1 .. Len(list) |-> list[(Len(list) - i) + 1]]
    BY <1>1 DEF Reverse, list
  <2>2. \A i \in 1 .. Len(list) : list[(Len(list) - i) + 1] \in Message
    BY <1>6, ElementOfSeq
  <2>3. [i \in 1 .. Len(list) |-> list[(Len(list) - i) + 1]] \in [1 .. Len(list) -> Message]
    BY <2>2
  <2>4. GetMessages(query) \in Seq(Message)
    BY <1>6, <2>1, <2>3, SeqDef
  <2>5. DOMAIN GetMessages(query) = 1 .. Len(GetMessages(query))
        /\ Len(GetMessages(query)) \in Nat
    BY <2>4, LenProperties
  <2>6. Len(GetMessages(query)) = Len(list)
    BY <1>6, <2>1, <2>5
  <2>7. QED BY <2>1, <2>6
<1>10. ASSUME NEW n \in all, Cardinality(Later(query, n)) < Limit(query)
       PROVE  GetMessages(query)[Len(GetMessages(query)) - Cardinality(Later(query, n))] = history[n]
  <2> HIDE DEF list
  <2>1. Len(list) - Cardinality(Later(query, n)) \in 1 .. Len(list)
    BY <1>6, <1>8, <1>10
  <2>2. Len(list) - (Len(list) - Cardinality(Later(query, n))) + 1 = Cardinality(Later(query, n)) + 1
    BY <1>6, <1>8, <1>10
  <2>3. QED BY <1>8, <1>9, <1>10, <2>1, <2>2
<1> HIDE DEF list
<1>11. QED BY <1>7, <1>9, <1>10 DEF FindsNewest, Later

LEMMA QueriesFind == TypeOK => QueryFindsNewest
<1> SUFFICES ASSUME TypeOK, NEW span \in Spans, NEW limit \in 0 .. Len(history),
                    NEW by \in Accounts \cup {Nothing}
             PROVE  LET query == [from |-> span.from, to |-> span.to, limit |-> limit, by |-> by]
                    IN  FindsNewest(query, GetMessages(query))
  BY DEF QueryFindsNewest
<1> DEFINE query == [from |-> span.from, to |-> span.to, limit |-> limit, by |-> by]
<1>1. /\ span.from \in Nat \cup {Nothing} /\ span.to \in Nat \cup {Nothing}
      /\ span.from = Nothing \/ span.to = Nothing
  BY DEF Spans, TypeOK
<1>2. query \in Query /\ (query.from = Nothing \/ query.to = Nothing)
  BY <1>1, HistoryFacts DEF Query
<1> HIDE DEF query
<1>3. FindsNewest(query, GetMessages(query))
  BY <1>2, QueryFinds
<1>4. QED BY <1>3 DEF query

-----------------------------------------------------------------------------

LEMMA InitIInv == Init => IInv
<1> SUFFICES ASSUME Init PROVE IInv
  OBVIOUS
<1> USE ChatAssumption
<1>1. /\ Len(history) = 0 /\ history \in Seq(Message)
      /\ \A a \in Accounts : heard[a] = << >> /\ Len(heard[a]) = 0
      /\ << >> \in Seq(Nat)
  BY EmptySeq DEF Init
<1>2. TypeOK
  BY <1>1 DEF Init, TypeOK
<1>3. HistoryIsPast /\ MuteIsEarned /\ HeardInOrder /\ HeardRarely
  BY <1>1 DEF Init, HistoryIsPast, MuteIsEarned, HeardInOrder, HeardRarely
<1>4. FloodIsMuted
  <2> SUFFICES ASSUME NEW a \in Accounts, NEW t \in Nat PROVE Unflooded(a, t)
    BY DEF FloodIsMuted
  <2>1. SentWithin(a, t) = {}
    BY <1>1 DEF SentWithin, SentSince
  <2>2. Cardinality(SentWithin(a, t)) = 0 /\ excuses[a] = 0
    BY <2>1, FS_EmptySet DEF Init
  <2>3. QED BY <2>2 DEF Unflooded
<1>5. HeardIsKept
  <2> SUFFICES ASSUME NEW a \in Accounts
               PROVE  \E g \in [1 .. Len(heard[a]) -> 1 .. Len(history)] : Kept(a, g)
    BY DEF HeardIsKept
  <2> DEFINE g == [n \in 1 .. 0 |-> n]
  <2>1. g \in [1 .. Len(heard[a]) -> 1 .. Len(history)]
    BY <1>1
  <2>2. Kept(a, g)
    BY <1>1 DEF Kept
  <2> HIDE DEF g
  <2>3. QED BY <2>1, <2>2
<1>6. QED BY <1>2, <1>3, <1>4, <1>5 DEF IInv

\* The inductive invariant of the chat, for any limits and any number of accounts.
THEOREM Invariance == Spec => []IInv
<1>1. IInv /\ [Next]_vars => IInv'
  BY TypeStep, EarnedStep, FloodStep, HeardStep DEF IInv
<1>2. QED BY InitIInv, <1>1, PTL DEF Spec

\* The history (chat.rs, add_message) is in the order of time.
THEOREM TypeCorrect == Spec => []TypeOK
<1>1. IInv => TypeOK
  BY DEF IInv
<1>2. QED BY Invariance, <1>1, PTL

\* No span of Short seconds has more than Few messages of a player broadcast
\* (add_message's count of three messages in fifteen seconds).
THEOREM PlayersAreHeardRarely == Spec => []HeardRarely
<1>1. IInv => HeardRarely
  BY DEF IInv
<1>2. QED BY Invariance, <1>1, PTL

\* The automatic mute (handle_chat) keeps an account from flooding the history.
THEOREM FloodsAreStopped == Spec => []FloodIsStopped
<1>1. IInv => FloodIsStopped
  BY FloodIsMutedStops DEF IInv
<1>2. QED BY Invariance, <1>1, PTL

\* Who is muted automatically had more messages than Many in the history, in the
\* Long seconds up to the mute.
THEOREM MutesAreEarned == Spec => []MuteIsEarned
<1>1. IInv => MuteIsEarned
  BY DEF IInv
<1>2. QED BY Invariance, <1>1, PTL

\* get_messages finds the newest messages that match, as many as asked for, in a
\* history of any length.
THEOREM QueriesFindNewest == Spec => []QueryFindsNewest
<1>1. IInv => QueryFindsNewest
  BY QueriesFind DEF IInv
<1>2. QED BY Invariance, <1>1, PTL
=============================================================================
