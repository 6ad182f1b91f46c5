-------------------------- MODULE WorkerPoolProofs --------------------------
(***************************************************************************)
(* The safety of WorkerPool for any set of calls and any finite set of     *)
(* devices.  The property of the pool speaks of cardinalities; its         *)
(* inductive form says it without: no worker is twice among the unused,    *)
(* which are in the queue or in the probe that goes on, none both unused   *)
(* and in the hands of a call or in the hands of two, and none neither.    *)
(* That a call is not rejected without a cause needs, besides, that a      *)
(* worker that transcribes, or has come back during a probe, is not        *)
(* flagged as asleep, and what a call between its probe and its judgement  *)
(* knows of the workers.                                                   *)
(***************************************************************************)
EXTENDS WorkerPool, SequenceTheorems, FiniteSetTheorems, TLAPS

Queued(w) == \E i \in 1 .. Len(Unused) : Unused[i] = w
Held(w) == \E t \in Threads : got[t] = w

OnceQueued ==
  \A i, j \in 1 .. Len(Unused) : Unused[i] = Unused[j] => i = j
OnceHeld ==
  \A t, u \in Threads : got[t] # None /\ got[t] = got[u] => t = u
NotBoth ==
  \A i \in 1 .. Len(Unused), t \in Threads : got[t] # Unused[i]
Sound == OnceQueued /\ OnceHeld /\ NotBoth

\* While the engine is loaded, and once it is up.
Loading ==
  phase = "loading" =>
    /\ Sound /\ free = workers /\ looked = <<>>
    /\ \A t \in Threads : pc[t] = "new" /\ got[t] = None
Serving ==
  phase = "up" =>
    /\ Sound
    /\ \A w \in Workers : Queued(w) \/ Held(w)
    /\ ToSet(workers) = Workers

\* One probe at a time, and after it nothing stays out of the queue.
PutBack ==
  /\ Probing \/ looked = <<>>
  /\ \A t, u \in Threads : pc[t] = "probing" /\ pc[u] = "probing" => t = u

IInv == TypeOK /\ Loading /\ Serving /\ PutBack

-----------------------------------------------------------------------------
(* Sequences                                                               *)

\* What RemoveAt leaves.
LEMMA RemoveAtProperties ==
  ASSUME NEW S, NEW s \in Seq(S), NEW i \in 1 .. Len(s)
  PROVE  /\ RemoveAt(s, i) \in Seq(S)
         /\ Len(RemoveAt(s, i)) = Len(s) - 1
         /\ \A k \in 1 .. Len(s) - 1 :
              RemoveAt(s, i)[k] = IF k < i THEN s[k] ELSE s[k + 1]
<1> DEFINE a == SubSeq(s, 1, i - 1)
           b == SubSeq(s, i + 1, Len(s))
<1>1. Len(s) \in Nat /\ \A k \in 1 .. Len(s) : s[k] \in S
  BY LenProperties, ElementOfSeq
<1>2. /\ a \in Seq(S) /\ Len(a) = i - 1
      /\ \A k \in 1 .. i - 1 : a[k] = s[k]
  BY <1>1, SubSeqProperties
<1>3. /\ b \in Seq(S) /\ Len(b) = Len(s) - i
      /\ \A k \in 1 .. Len(s) - i : b[k] = s[i + k]
  BY <1>1, SubSeqProperties
<1> HIDE DEF a, b
<1>4. /\ a \o b \in Seq(S)
      /\ Len(a \o b) = Len(a) + Len(b)
      /\ \A k \in 1 .. Len(a) + Len(b) :
           (a \o b)[k] = IF k <= Len(a) THEN a[k] ELSE b[k - Len(a)]
  BY <1>2, <1>3, ConcatProperties
<1>5. Len(a) + Len(b) = Len(s) - 1
  BY <1>1, <1>2, <1>3
<1>6. \A k \in 1 .. Len(s) - 1 : (a \o b)[k] = IF k < i THEN s[k] ELSE s[k + 1]
  <2> SUFFICES ASSUME NEW k \in 1 .. Len(s) - 1
               PROVE  (a \o b)[k] = IF k < i THEN s[k] ELSE s[k + 1]
    OBVIOUS
  <2>1. CASE k < i
    <3>1. k \in 1 .. i - 1 /\ k <= Len(a)
      BY <2>1, <1>1, <1>2
    <3> QED
      BY <2>1, <3>1, <1>2, <1>4, <1>5
  <2>2. CASE ~(k < i)
    <3>1. /\ k - (i - 1) \in 1 .. Len(s) - i
          /\ i + (k - (i - 1)) = k + 1
          /\ ~(k <= Len(a))
      BY <2>2, <1>1, <1>2
    <3>2. (a \o b)[k] = b[k - (i - 1)]
      BY <3>1, <1>2, <1>4, <1>5
    <3> QED
      BY <2>2, <3>1, <3>2, <1>3
  <2> QED
    BY <2>1, <2>2
<1>7. RemoveAt(s, i) = a \o b
  BY DEF RemoveAt, a, b
<1> QED
  BY <1>4, <1>5, <1>6, <1>7

-----------------------------------------------------------------------------
(* The queue and the calls                                                 *)

QueueTyped ==
  /\ Unused \in Seq(Workers) /\ Unused' \in Seq(Workers)
  /\ got \in [Threads -> Workers \cup {None}]

\* Unused' is Unused without its element at i.
Without(i) ==
  /\ Len(Unused') = Len(Unused) - 1
  /\ \A k \in 1 .. Len(Unused') :
       Unused'[k] = IF k < i THEN Unused[k] ELSE Unused[k + 1]

\* Unused' is Unused with w between its elements at i - 1 and i.
With(i, w) ==
  /\ Len(Unused') = Len(Unused) + 1
  /\ \A k \in 1 .. Len(Unused') :
       Unused'[k] = IF k < i THEN Unused[k]
                    ELSE IF k = i THEN w ELSE Unused[k - 1]

\* A call that takes a worker.
LEMMA TakeKeeps ==
  ASSUME QueueTyped, NEW t \in Threads, NEW i \in 1 .. Len(Unused),
         Without(i), got[t] = None, got' = [got EXCEPT ![t] = Unused[i]], Sound
  PROVE  /\ Sound'
         /\ \A w \in Workers : Queued(w) \/ Held(w) => Queued(w)' \/ Held(w)'
<1> USE PoolAssumption DEF QueueTyped
<1>1. /\ Len(Unused) \in Nat /\ Len(Unused') \in Nat
      /\ \A k \in 1 .. Len(Unused) : Unused[k] \in Workers
  BY LenProperties, ElementOfSeq
<1>2. ASSUME NEW k \in 1 .. Len(Unused')
      PROVE  \E j \in 1 .. Len(Unused) \ {i} :
               Unused'[k] = Unused[j] /\ j = IF k < i THEN k ELSE k + 1
  BY <1>1 DEF Without
<1>3. OnceQueued'
  BY <1>1, <1>2 DEF Sound, OnceQueued
<1>4. /\ got'[t] = Unused[i]
      /\ \A u \in Threads \ {t} : got'[u] = got[u]
  OBVIOUS
<1>5. OnceHeld'
  BY <1>1, <1>4 DEF Sound, OnceHeld, NotBoth
<1>6. NotBoth'
  BY <1>1, <1>2, <1>4 DEF Sound, NotBoth, OnceQueued
<1>7. ASSUME NEW w \in Workers, Queued(w) PROVE Queued(w)' \/ Held(w)'
  <2>1. PICK j \in 1 .. Len(Unused) : Unused[j] = w
    BY <1>7 DEF Queued
  <2>2. CASE j = i
    BY <2>1, <2>2, <1>4 DEF Held
  <2>3. CASE j < i
    <3>1. j \in 1 .. Len(Unused') /\ Unused'[j] = w
      BY <2>1, <2>3, <1>1 DEF Without
    <3> QED
      BY <3>1 DEF Queued
  <2>4. CASE j > i
    <3>1. j - 1 \in 1 .. Len(Unused') /\ Unused'[j - 1] = w
      BY <2>1, <2>4, <1>1 DEF Without
    <3> QED
      BY <3>1 DEF Queued
  <2> QED
    BY <2>2, <2>3, <2>4
<1>8. ASSUME NEW w \in Workers, Held(w) PROVE Held(w)'
  BY <1>8, <1>4 DEF Held
<1> QED
  BY <1>3, <1>5, <1>6, <1>7, <1>8 DEF Sound

\* A worker that joins the unused ones keeps them apart.
LEMMA JoinKeeps ==
  ASSUME QueueTyped, NEW w \in Workers, NEW i \in 1 .. Len(Unused) + 1, With(i, w),
         OnceQueued, ~Queued(w)
  PROVE  /\ OnceQueued' /\ Queued(w)'
         /\ \A v : Queued(v)' <=> Queued(v) \/ v = w
<1> USE DEF QueueTyped
<1>1. Len(Unused) \in Nat /\ Len(Unused') = Len(Unused) + 1
  BY LenProperties DEF With
<1>2. ASSUME NEW k \in 1 .. Len(Unused'), k # i
      PROVE  \E j \in 1 .. Len(Unused) :
               Unused'[k] = Unused[j] /\ j = IF k < i THEN k ELSE k - 1
  BY <1>1, <1>2 DEF With
<1>3. i \in 1 .. Len(Unused') /\ Unused'[i] = w
  BY <1>1 DEF With
<1>4. ASSUME NEW j \in 1 .. Len(Unused)
      PROVE  \E k \in 1 .. Len(Unused') : Unused'[k] = Unused[j]
  <2>1. CASE j < i
    <3>1. j \in 1 .. Len(Unused') /\ Unused'[j] = Unused[j]
      BY <2>1, <1>1 DEF With
    <3> QED
      BY <3>1
  <2>2. CASE ~(j < i)
    <3>1. j + 1 \in 1 .. Len(Unused') /\ ~(j + 1 < i) /\ j + 1 # i /\ (j + 1) - 1 = j
      BY <2>2, <1>1
    <3>2. Unused'[j + 1] = Unused[j]
      BY <3>1 DEF With
    <3> QED
      BY <3>1, <3>2
  <2> QED
    BY <2>1, <2>2
<1>5. OnceQueued'
  <2> SUFFICES ASSUME NEW k \in 1 .. Len(Unused'), NEW l \in 1 .. Len(Unused'),
                      Unused'[k] = Unused'[l]
               PROVE  k = l
    BY DEF OnceQueued
  <2>1. CASE k = i \/ l = i
    BY <2>1, <1>2, <1>3 DEF Queued
  <2>2. CASE k # i /\ l # i
    BY <2>2, <1>1, <1>2 DEF OnceQueued
  <2> QED
    BY <2>1, <2>2
<1>6. \A v : Queued(v)' <=> Queued(v) \/ v = w
  BY <1>2, <1>3, <1>4 DEF Queued
<1> QED
  BY <1>5, <1>6

\* A call that puts its worker back.
LEMMA PutKeeps ==
  ASSUME QueueTyped, NEW t \in Threads, got[t] \in Workers,
         NEW i \in 1 .. Len(Unused) + 1, With(i, got[t]),
         got' = [got EXCEPT ![t] = None], Sound
  PROVE  /\ Sound'
         /\ \A w \in Workers : Queued(w) \/ Held(w) => Queued(w)' \/ Held(w)'
<1> USE PoolAssumption DEF QueueTyped
<1>1. /\ got'[t] = None
      /\ \A u \in Threads \ {t} : got'[u] = got[u]
  OBVIOUS
<1>2. ~Queued(got[t])
  BY DEF Sound, NotBoth, Queued
<1>3. OnceQueued' /\ \A v : Queued(v)' <=> Queued(v) \/ v = got[t]
  BY <1>2, JoinKeeps DEF Sound
<1>4. OnceHeld'
  BY <1>1 DEF Sound, OnceHeld
<1>5. NotBoth'
  <2>1. \A k \in 1 .. Len(Unused') : Unused'[k] \in Workers
    BY ElementOfSeq
  <2> SUFFICES ASSUME NEW v \in Workers, NEW k \in 1 .. Len(Unused'), Unused'[k] = v,
                      NEW u \in Threads, got'[u] = v
               PROVE  FALSE
    BY <2>1 DEF NotBoth
  <2>2. Queued(v)'
    BY DEF Queued
  <2>3. u # t /\ got[u] = v
    BY <1>1
  <2>4. ~Queued(v)
    BY <2>3 DEF Sound, NotBoth, Queued
  <2>5. got[u] = got[t]
    BY <2>2, <2>3, <2>4, <1>3
  <2> QED
    BY <2>3, <2>5 DEF Sound, OnceHeld
<1>6. ASSUME NEW w \in Workers, Queued(w) PROVE Queued(w)'
  BY <1>6, <1>3
<1>7. ASSUME NEW w \in Workers, Held(w) PROVE Queued(w)' \/ Held(w)'
  <2>1. PICK u \in Threads : got[u] = w
    BY <1>7 DEF Held
  <2>2. CASE u = t
    BY <2>1, <2>2, <1>3
  <2>3. CASE u # t
    BY <2>1, <2>3, <1>1 DEF Held
  <2> QED
    BY <2>2, <2>3
<1> QED
  BY <1>3, <1>4, <1>5, <1>6, <1>7 DEF Sound

\* s is a followed by b.
Joined(s, a, b) ==
  /\ s \in Seq(Workers) /\ Len(a) \in Nat /\ Len(b) \in Nat
  /\ Len(s) = Len(a) + Len(b)
  /\ \A k \in 1 .. Len(a) : k \in 1 .. Len(s) /\ s[k] = a[k]
  /\ \A k \in 1 .. Len(b) :
       Len(a) + k \in 1 .. Len(s) /\ s[Len(a) + k] = b[k]

LEMMA Concatenated ==
  ASSUME NEW a \in Seq(Workers), NEW b \in Seq(Workers)
  PROVE  Joined(a \o b, a, b)
<1>1. Len(a) \in Nat /\ Len(b) \in Nat
  BY LenProperties
<1>2. /\ a \o b \in Seq(Workers)
      /\ Len(a \o b) = Len(a) + Len(b)
      /\ \A k \in 1 .. Len(a) + Len(b) :
           (a \o b)[k] = IF k <= Len(a) THEN a[k] ELSE b[k - Len(a)]
  BY ConcatProperties
<1>3. ASSUME NEW k \in 1 .. Len(a)
      PROVE  k \in 1 .. Len(a) + Len(b) /\ k <= Len(a)
  BY <1>1
<1>4. ASSUME NEW k \in 1 .. Len(b)
      PROVE  /\ Len(a) + k \in 1 .. Len(a) + Len(b)
             /\ ~(Len(a) + k <= Len(a)) /\ (Len(a) + k) - Len(a) = k
  BY <1>1
<1> QED
  BY <1>1, <1>2, <1>3, <1>4 DEF Joined

\* What is unused, in terms of the queue and the probe.
LEMMA UnusedJoined ==
  /\ TypeOK => Joined(Unused, free, looked)
  /\ TypeOK' => Joined(Unused', free', looked')
BY Concatenated DEF TypeOK, Unused

\* With nobody probing, what is unused is in the queue.
LEMMA UnusedInQueue ==
  /\ TypeOK /\ looked = <<>> => Unused = free
  /\ TypeOK' /\ looked' = <<>> => Unused' = free'
BY ConcatEmptySeq DEF TypeOK, Unused

\* The head of the queue is taken.
LEMMA GetTakes ==
  ASSUME TypeOK, TypeOK', free # <<>>, free' = Tail(free), looked' = looked
  PROVE  1 \in 1 .. Len(Unused) /\ Unused[1] = Head(free) /\ Without(1)
<1>1. /\ Len(free) \in Nat /\ Len(free) # 0 /\ Len(free') = Len(free) - 1
      /\ \A k \in 1 .. Len(free') : free'[k] = free[k + 1]
  BY LenProperties, EmptySeq, HeadTailProperties DEF TypeOK
<1>2. Head(free) = free[1] /\ 1 \in 1 .. Len(free)
  BY <1>1
<1>3. Len(Unused') = Len(Unused) - 1
  BY <1>1, UnusedJoined DEF Joined
<1>4. ASSUME NEW k \in 1 .. Len(Unused')
      PROVE  Unused'[k] = Unused[k + 1]
  <2>1. CASE k \in 1 .. Len(free')
    <3>1. k + 1 \in 1 .. Len(free)
      BY <2>1, <1>1
    <3> QED
      BY <2>1, <3>1, <1>1, UnusedJoined DEF Joined
  <2>2. CASE k \notin 1 .. Len(free')
    <3>1. /\ k - Len(free') \in 1 .. Len(looked)
          /\ Len(free') + (k - Len(free')) = k
          /\ Len(free) + (k - Len(free')) = k + 1
      BY <2>2, <1>1, UnusedJoined DEF Joined
    <3> QED
      BY <3>1, UnusedJoined DEF Joined
  <2> QED
    BY <2>1, <2>2
<1> QED
  BY <1>2, <1>3, <1>4, UnusedJoined DEF Without, Joined

\* A worker is put behind those in the queue.
LEMMA PutJoins ==
  ASSUME TypeOK, TypeOK', NEW w \in Workers, free' = Append(free, w), looked' = looked
  PROVE  Len(free) + 1 \in 1 .. Len(Unused) + 1 /\ With(Len(free) + 1, w)
<1>1. /\ Len(free) \in Nat /\ Len(free') = Len(free) + 1
      /\ \A k \in 1 .. Len(free) : free'[k] = free[k]
      /\ free'[Len(free) + 1] = w
  BY LenProperties, AppendProperties DEF TypeOK
<1>2. Len(Unused') = Len(Unused) + 1
  <2>1. /\ Len(Unused) = Len(free) + Len(looked) /\ Len(looked) \in Nat
        /\ Len(Unused') = Len(free') + Len(looked')
    BY UnusedJoined DEF Joined
  <2> QED
    BY <1>1, <2>1
<1>3. ASSUME NEW k \in 1 .. Len(Unused')
      PROVE  Unused'[k] = IF k < Len(free) + 1 THEN Unused[k]
                          ELSE IF k = Len(free) + 1 THEN w ELSE Unused[k - 1]
  <2>1. CASE k \in 1 .. Len(free)
    <3>1. k \in 1 .. Len(free') /\ k < Len(free) + 1
      BY <2>1, <1>1
    <3> QED
      BY <2>1, <3>1, <1>1, UnusedJoined DEF Joined
  <2>2. CASE k = Len(free) + 1
    <3>1. k \in 1 .. Len(free') /\ ~(k < Len(free) + 1)
      BY <2>2, <1>1
    <3> QED
      BY <2>2, <3>1, <1>1, UnusedJoined DEF Joined
  <2>3. CASE k > Len(free) + 1
    <3>1. /\ k - Len(free') \in 1 .. Len(looked)
          /\ Len(free') + (k - Len(free')) = k
          /\ Len(free) + (k - Len(free')) = k - 1
      BY <2>3, <1>1, UnusedJoined DEF Joined
    <3>2. Unused'[k] = Unused[k - 1]
      BY <3>1, UnusedJoined DEF Joined
    <3>3. ~(k < Len(free) + 1) /\ k # Len(free) + 1
      BY <2>3, <1>1
    <3> QED
      BY <3>2, <3>3
  <2> QED
    BY <2>1, <2>2, <2>3, <1>1
<1> QED
  BY <1>1, <1>2, <1>3, UnusedJoined DEF With, Joined

\* A probe puts back all it has looked at but the one it takes.
LEMMA ProbeTakesOne ==
  ASSUME TypeOK, TypeOK', NEW i \in 1 .. Len(looked),
         free' = free \o RemoveAt(looked, i), looked' = <<>>
  PROVE  /\ Len(free) + i \in 1 .. Len(Unused) /\ Unused[Len(free) + i] = looked[i]
         /\ Without(Len(free) + i)
<1> DEFINE rest == RemoveAt(looked, i)
<1>1. free \in Seq(Workers) /\ looked \in Seq(Workers)
  BY DEF TypeOK
<1>2. /\ rest \in Seq(Workers) /\ Len(rest) = Len(looked) - 1
      /\ \A k \in 1 .. Len(looked) - 1 :
           rest[k] = IF k < i THEN looked[k] ELSE looked[k + 1]
  BY <1>1, RemoveAtProperties
<1> HIDE DEF rest
<1>3. Unused' = free \o rest
  BY UnusedInQueue DEF rest
<1>4. /\ Len(Unused') = Len(free) + Len(rest)
      /\ \A k \in 1 .. Len(free) + Len(rest) :
           Unused'[k] = IF k <= Len(free) THEN free[k] ELSE rest[k - Len(free)]
  BY <1>1, <1>2, <1>3, ConcatProperties
<1>5. Len(free) \in Nat /\ Len(looked) \in Nat
  BY UnusedJoined DEF Joined
<1>6. Len(Unused') = Len(Unused) - 1
  BY <1>2, <1>4, <1>5, UnusedJoined DEF Joined
<1>7. ASSUME NEW k \in 1 .. Len(Unused')
      PROVE  Unused'[k] = IF k < Len(free) + i THEN Unused[k] ELSE Unused[k + 1]
  <2>1. CASE k <= Len(free)
    <3>1. k \in 1 .. Len(free) /\ k < Len(free) + i
      BY <2>1, <1>2, <1>4, <1>5
    <3> QED
      BY <2>1, <3>1, <1>4, UnusedJoined DEF Joined
  <2>2. CASE ~(k <= Len(free))
    <3> DEFINE j == k - Len(free)
    <3>1. j \in 1 .. Len(looked) - 1 /\ Unused'[k] = rest[j]
      BY <2>2, <1>2, <1>4, <1>5
    <3>2. Len(free) + j = k /\ Len(free) + (j + 1) = k + 1
      BY <1>4, <1>5, <1>2
    <3>3. j \in 1 .. Len(looked) /\ j + 1 \in 1 .. Len(looked)
      BY <3>1, <1>5
    <3>4. j < i <=> k < Len(free) + i
      BY <3>2, <3>3, <1>5
    <3> HIDE DEF j
    <3>5. Unused[k] = looked[j] /\ Unused[k + 1] = looked[j + 1]
      BY <3>2, <3>3, UnusedJoined DEF Joined
    <3> QED
      BY <3>1, <3>4, <3>5, <1>2
  <2> QED
    BY <2>1, <2>2
<1> QED
  BY <1>6, <1>7, UnusedJoined DEF Without, Joined

-----------------------------------------------------------------------------
(* The invariant                                                           *)

LEMMA InitIInv == Init => IInv
<1> SUFFICES ASSUME Init PROVE IInv
  OBVIOUS
<1> USE PoolAssumption DEF Init
<1>1. free = <<>> /\ looked = <<>> /\ workers = <<>> /\ <<>> \in Seq(Workers)
      /\ Len(<<>>) = 0
  BY EmptySeq
<1>2. TypeOK
  BY <1>1 DEF TypeOK, Pcs, Ends
<1>3. Len(Unused) = 0
  BY <1>1, <1>2, UnusedInQueue
<1>4. Loading
  BY <1>1, <1>3 DEF Loading, Sound, OnceQueued, OnceHeld, NotBoth
<1>5. Serving /\ PutBack
  BY DEF Serving, PutBack
<1> QED
  BY <1>2, <1>4, <1>5 DEF IInv

\* The queue of a pool that is up after a step that moves a worker.
LEMMA ServedIInv ==
  ASSUME IInv, TypeOK', PutBack', UNCHANGED <<phase, workers>>, phase # "loading",
         phase = "up" =>
           /\ Sound'
           /\ \A w \in Workers : Queued(w) \/ Held(w) => Queued(w)' \/ Held(w)'
  PROVE  IInv'
BY DEF IInv, Loading, Serving

\* Steps that leave the unused and the workers in hand alone.
LEMMA QuietIInv ==
  ASSUME IInv, TypeOK', PutBack', UNCHANGED <<phase, workers, got>>,
         Unused' = Unused, phase = "loading" => UNCHANGED <<pc, free, looked>>
  PROVE  IInv'
<1>1. Sound => Sound'
  BY DEF Sound, OnceQueued, OnceHeld, NotBoth
<1>2. \A w \in Workers : Queued(w) \/ Held(w) => Queued(w)' \/ Held(w)'
  BY DEF Queued, Held
<1> QED
  BY <1>1, <1>2 DEF IInv, Loading, Serving

\* A step of another call does not end a probe.
LEMMA PutBackStays ==
  ASSUME PutBack, NEW t \in Threads, looked' = looked,
         pc[t] # "probing", pc'[t] # "probing",
         \A u \in Threads \ {t} : pc'[u] = pc[u]
  PROVE  PutBack'
BY DEF PutBack, Probing

\* A call has left "new" only after the load.
LEMMA CallLoaded ==
  ASSUME IInv, NEW t \in Threads, pc[t] # "new" PROVE phase # "loading"
BY DEF IInv, Loading

\* The start of a worker, and the end of the load.
LEMMA StartIInv ==
  ASSUME IInv, NEW w \in Workers, StartWorker(w)
  PROVE  IInv'
<1> USE PoolAssumption DEF IInv, StartWorker
<1>1. /\ Sound /\ free = workers /\ looked = <<>> /\ looked' = <<>>
      /\ \A t \in Threads : pc[t] = "new" /\ got[t] = None
  BY DEF Loading
<1>2. free \in Seq(Workers) /\ free' = Append(free, w) /\ free' \in Seq(Workers)
  BY <1>1, AppendProperties DEF TypeOK
<1>3. TypeOK'
  BY <1>1, <1>2 DEF TypeOK
<1>4. Unused = free /\ Unused' = free' /\ DOMAIN free = 1 .. Len(free)
      /\ DOMAIN free' = 1 .. Len(free')
  BY <1>1, <1>2, <1>3, UnusedInQueue, LenProperties
<1>5. ~Queued(w)
  BY <1>1, <1>4 DEF Queued, ToSet
<1>6. OnceQueued' /\ \A v : Queued(v)' <=> Queued(v) \/ v = w
  <2>1. Len(free) + 1 \in 1 .. Len(Unused) + 1 /\ With(Len(free) + 1, w)
    BY <1>1, <1>2, <1>3, PutJoins
  <2>2. QueueTyped
    BY <1>2, <1>4 DEF QueueTyped, TypeOK
  <2> QED
    BY <1>1, <1>5, <2>1, <2>2, JoinKeeps DEF Sound
<1>7. Sound'
  <2>1. \A k \in 1 .. Len(free') : free'[k] \in Workers
    BY <1>2, ElementOfSeq
  <2> QED
    BY <1>1, <1>4, <1>6, <2>1 DEF Sound, OnceHeld, NotBoth
<1>8. Loading' /\ PutBack'
  BY <1>1, <1>7 DEF Loading, PutBack
<1>9. Serving'
  <2> SUFFICES ASSUME phase' = "up" PROVE Serving'
    BY DEF Serving
  <2>1. ToSet(workers') = Workers /\ workers' = free'
    BY <1>1
  <2>2. \A v \in Workers : Queued(v)'
    BY <2>1, <1>4 DEF Queued, ToSet
  <2> QED
    BY <1>7, <2>1, <2>2 DEF Serving
<1> QED
  BY <1>3, <1>8, <1>9

\* The steps of a call keep the invariant.
LEMMA CallIInv ==
  ASSUME IInv, NEW t \in Threads, CallStep(t)
  PROVE  IInv'
<1> USE PoolAssumption DEF IInv, engine, pool, Pcs, Ends
<1>1. CASE Enter(t) \/ EnterUnloaded(t) \/ Judge(t) \/ GetTimeout(t)
  <2> USE <1>1 DEF Enter, EnterUnloaded, Judge, GetTimeout
  <2>1. TypeOK'
    BY DEF TypeOK
  <2>2. phase # "loading"
    BY CallLoaded
  <2>3. PutBack'
    BY PutBackStays DEF TypeOK
  <2>4. Unused' = Unused
    BY DEF Unused
  <2> QED
    BY <2>1, <2>2, <2>3, <2>4, QuietIInv
<1>2. CASE Begin(t)
  <2> USE <1>2 DEF Begin
  <2>1. TypeOK'
    BY DEF TypeOK
  <2>2. phase # "loading"
    BY CallLoaded
  <2>3. PutBack'
    BY PutBackStays DEF TypeOK
  <2>4. Unused' = Unused
    BY DEF Unused
  <2> QED
    BY <2>1, <2>2, <2>3, <2>4, QuietIInv
<1>3. CASE StartProbe(t)
  <2> USE <1>3 DEF StartProbe
  <2>1. looked = <<>> /\ free' = <<>> /\ looked' = free
    BY DEF PutBack
  <2>2. TypeOK'
    BY EmptySeq DEF TypeOK
  <2>3. phase # "loading"
    BY CallLoaded
  <2>4. PutBack'
    BY DEF PutBack, Probing, TypeOK
  <2>5. Unused' = Unused
    BY <2>1, ConcatEmptySeq DEF Unused, TypeOK
  <2> QED
    BY <2>2, <2>3, <2>4, <2>5, QuietIInv
<1>4. CASE Probe(t) /\ ProbeFails(t)
  <2> USE <1>4 DEF Probe, ProbeFails
  <2>1. free' = Unused /\ looked' = <<>>
    BY DEF Unused
  <2>2. free' \in Seq(Workers)
    BY <2>1, UnusedJoined DEF Joined
  <2>3. TypeOK'
    BY <2>2, EmptySeq DEF TypeOK
  <2>4. phase # "loading"
    BY CallLoaded
  <2>5. Unused' = Unused
    BY <2>1, <2>3, UnusedInQueue
  <2>6. PutBack'
    BY DEF PutBack, TypeOK
  <2> QED
    BY <2>3, <2>4, <2>5, <2>6, QuietIInv
<1>5. ASSUME NEW i \in 1 .. Len(Unused), Take(t, Unused[i]), Without(i),
             pc[t] # "new", got[t] = None, TypeOK', PutBack',
             UNCHANGED <<phase, workers>>
      PROVE  IInv'
  <2> USE <1>5 DEF Take
  <2>1. phase # "loading"
    BY CallLoaded
  <2>2. QueueTyped
    BY UnusedJoined DEF QueueTyped, TypeOK, Joined
  <2>3. phase = "up" =>
          /\ Sound'
          /\ \A w \in Workers : Queued(w) \/ Held(w) => Queued(w)' \/ Held(w)'
    BY <2>2, TakeKeeps DEF Serving
  <2> QED
    BY <2>1, <2>3, ServedIInv
<1>6. CASE Probe(t) /\ ProbeTakes(t)
  <2>1. PICK i \in 1 .. Len(looked) :
          free' = free \o RemoveAt(looked, i) /\ Take(t, looked[i])
    BY <1>6 DEF ProbeTakes
  <2> USE <1>6, <2>1 DEF Probe, ProbeTakes, Take
  <2>2. free \in Seq(Workers) /\ looked \in Seq(Workers) /\ looked[i] \in Workers
        /\ got[t] = None
    BY ElementOfSeq DEF TypeOK
  <2>3. free' \in Seq(Workers)
    BY <2>2, RemoveAtProperties, ConcatProperties
  <2>4. TypeOK'
    BY <2>2, <2>3, EmptySeq DEF TypeOK
  <2>5. /\ Len(free) + i \in 1 .. Len(Unused) /\ Unused[Len(free) + i] = looked[i]
        /\ Without(Len(free) + i)
    BY <2>4, ProbeTakesOne
  <2>6. PutBack'
    BY DEF PutBack, TypeOK
  <2> QED
    BY <1>5, <2>2, <2>4, <2>5, <2>6
<1>7. CASE Get(t)
  <2> USE <1>7 DEF Get, Take
  <2>1. free \in Seq(Workers) /\ free # <<>> /\ got[t] = None
    BY DEF TypeOK
  <2>2. free' \in Seq(Workers) /\ Head(free) \in Workers
    BY <2>1, HeadTailProperties
  <2>3. TypeOK'
    BY <2>2 DEF TypeOK
  <2>4. 1 \in 1 .. Len(Unused) /\ Unused[1] = Head(free) /\ Without(1)
    BY <2>1, <2>3, GetTakes
  <2>5. PutBack'
    BY PutBackStays DEF TypeOK
  <2> QED
    BY <1>5, <2>1, <2>3, <2>4, <2>5
<1>8. CASE Finish(t)
  <2> USE <1>8 DEF Finish
  <2>1. free \in Seq(Workers) /\ got[t] \in Workers
    BY DEF TypeOK
  <2>2. free' \in Seq(Workers)
    BY <2>1, AppendProperties
  <2>3. TypeOK'
    BY <2>2 DEF TypeOK
  <2>4. phase # "loading"
    BY CallLoaded
  <2>5. PutBack'
    BY PutBackStays DEF TypeOK
  <2>6. Len(free) + 1 \in 1 .. Len(Unused) + 1 /\ With(Len(free) + 1, got[t])
    BY <2>1, <2>3, PutJoins
  <2>7. QueueTyped
    BY <2>3, UnusedJoined DEF QueueTyped, TypeOK, Joined
  <2>8. phase = "up" =>
          /\ Sound'
          /\ \A w \in Workers : Queued(w) \/ Held(w) => Queued(w)' \/ Held(w)'
    BY <2>1, <2>6, <2>7, PutKeeps DEF Serving
  <2> QED
    BY <2>3, <2>4, <2>5, <2>8, ServedIInv
<1> QED
  BY <1>1, <1>2, <1>3, <1>4, <1>6, <1>7, <1>8 DEF CallStep, Probe

\* Every step keeps the invariant.
LEMMA NextIInv == IInv /\ [Next]_vars => IInv'
<1> SUFFICES ASSUME IInv, [Next]_vars PROVE IInv'
  OBVIOUS
<1> USE PoolAssumption DEF IInv, engine, pool
<1>1. ASSUME NEW w \in Workers, StartWorker(w) PROVE IInv'
  BY <1>1, StartIInv
<1>2. ASSUME NEW w \in Workers, StartFails(w) PROVE IInv'
  BY <1>2 DEF StartFails, TypeOK, Loading, Serving, PutBack
<1>3. ASSUME NEW t \in Threads, CallStep(t) PROVE IInv'
  BY <1>3, CallIInv
<1>4. ASSUME NEW w \in Workers, ChildSleeps(w) \/ ChildDies(w) \/ RoomChanges(w)
      PROVE  IInv'
  <2> USE <1>4 DEF ChildSleeps, ChildDies, RoomChanges
  <2>1. TypeOK' /\ PutBack' /\ Unused' = Unused
    BY DEF TypeOK, PutBack, Probing, Unused
  <2> QED
    BY <2>1, QuietIInv
<1>5. CASE EnterSleep
  <2>1. TypeOK' /\ PutBack' /\ Unused' = Unused
    BY <1>5 DEF EnterSleep, TypeOK, PutBack, Probing, Unused
  <2> QED
    BY <1>5, <2>1, QuietIInv DEF EnterSleep
<1>6. CASE Unload
  BY <1>6 DEF Unload, TypeOK, Loading, Serving, PutBack, Probing
<1>7. CASE StopWorker
  <2>1. stopped' \in Nat
    BY <1>7 DEF StopWorker, TypeOK
  <2>2. workers[stopped'] \in Workers
    BY <1>7, <2>1, ElementOfSeq, LenProperties DEF StopWorker, TypeOK
  <2> QED
    BY <1>7, <2>1, <2>2
       DEF StopWorker, TypeOK, Loading, Serving, PutBack, Probing
<1>8. CASE Unloaded
  BY <1>8, EmptySeq DEF Unloaded, TypeOK, Loading, Serving, PutBack, Probing
<1>9. CASE UNCHANGED vars
  <2>1. TypeOK' /\ PutBack' /\ Unused' = Unused
    BY <1>9 DEF vars, TypeOK, PutBack, Probing, Unused
  <2> QED
    BY <1>9, <2>1, QuietIInv DEF vars
<1> QED
  BY <1>1, <1>2, <1>3, <1>4, <1>5, <1>6, <1>7, <1>8, <1>9 DEF Next

LEMMA Invariance == Spec => []IInv
BY InitIInv, NextIInv, PTL DEF Spec

-----------------------------------------------------------------------------
\* The pool's variables keep their types, and a call has a worker in hand
\* exactly from its choice to its end.
THEOREM PoolTyped == Spec => []TypeOK
BY Invariance, PTL DEF IInv

\* Sets with one element and with none.
LEMMA OneOrNone == (\A x : Cardinality({x}) = 1) /\ Cardinality({}) = 0
BY FS_Singleton, FS_EmptySet

\* The inductive form of the invariant says what the property says.
LEMMA SoundCounts == IInv => EveryWorkerOnce
<1> SUFFICES ASSUME IInv, phase = "up", NEW w \in Workers
             PROVE  Cardinality({i \in 1 .. Len(Unused) : Unused[i] = w})
                      + Cardinality({t \in Threads : got[t] = w}) = 1
  BY DEF EveryWorkerOnce
<1>1. Sound /\ (Queued(w) \/ Held(w))
  BY DEF IInv, Serving
<1>2. CASE Queued(w)
  <2>1. PICK i \in 1 .. Len(Unused) : Unused[i] = w
    BY <1>2 DEF Queued
  <2>2. Cardinality({j \in 1 .. Len(Unused) : Unused[j] = w}) = 1
    <3>1. {j \in 1 .. Len(Unused) : Unused[j] = w} = {i}
      BY <2>1, <1>1 DEF Sound, OnceQueued
    <3> QED
      BY <3>1, OneOrNone
  <2>3. Cardinality({t \in Threads : got[t] = w}) = 0
    <3>1. {t \in Threads : got[t] = w} = {}
      BY <2>1, <1>1 DEF Sound, NotBoth
    <3> QED
      BY <3>1, OneOrNone
  <2> QED
    BY <2>2, <2>3
<1>3. CASE ~Queued(w)
  <2>1. PICK t \in Threads : got[t] = w
    BY <1>1, <1>3 DEF Held
  <2>2. Cardinality({u \in Threads : got[u] = w}) = 1
    <3>1. {u \in Threads : got[u] = w} = {t}
      BY <2>1, <1>1, PoolAssumption DEF Sound, OnceHeld
    <3> QED
      BY <3>1, OneOrNone
  <2>3. Cardinality({j \in 1 .. Len(Unused) : Unused[j] = w}) = 0
    <3>1. {j \in 1 .. Len(Unused) : Unused[j] = w} = {}
      BY <1>3 DEF Queued
    <3> QED
      BY <3>1, OneOrNone
  <2> QED
    BY <2>2, <2>3
<1> QED
  BY <1>2, <1>3

\* No worker is lost or shared between the probe, the queue and the calls.
THEOREM WorkersNeverLost == Spec => []EveryWorkerOnce
BY Invariance, SoundCounts, PTL

-----------------------------------------------------------------------------
(* The causes of a rejection                                               *)

Taking(w) == \E u \in Threads : pc[u] = "taken" /\ got[u] = w

\* What is known of the workers' flags while the engine is up: one that
\* transcribes is not flagged, nor one that comes back during a probe, and a
\* call that found nobody knows why.
Flagged ==
  phase = "up" =>
    /\ \A u \in Threads : pc[u] = "running" => ~flag[got[u]]
    /\ Probing => \A i \in 1 .. Len(free) : ~flag[free[i]]
    /\ \A t \in Threads : pc[t] = "unserved" =>
         \A w \in Workers \ short[t] : flag[w] => Taking(w)

\* A call whose probe finds nobody knows why.
LEMMA ProbeKnows ==
  ASSUME IInv, Flagged, phase = "up", Probing,
         NEW w \in Workers, flag[w], w \notin tight,
         \A i \in 1 .. Len(looked) : ~Usable(looked[i])
  PROVE  Taking(w)
<1>1. ~Queued(w)
  <2> SUFFICES ASSUME NEW k \in 1 .. Len(Unused), Unused[k] = w PROVE FALSE
    BY DEF Queued
  <2>1. Joined(Unused, free, looked)
    BY UnusedJoined DEF IInv
  <2>2. CASE k \in 1 .. Len(free)
    BY <2>1, <2>2 DEF Joined, Flagged
  <2>3. CASE k \notin 1 .. Len(free)
    <3>1. /\ k - Len(free) \in 1 .. Len(looked)
          /\ Len(free) + (k - Len(free)) = k
      BY <2>1, <2>3 DEF Joined
    <3>2. looked[k - Len(free)] = w
      BY <2>1, <3>1 DEF Joined
    <3> QED
      BY <3>1, <3>2 DEF Usable
  <2> QED
    BY <2>2, <2>3
<1>2. PICK u \in Threads : got[u] = w
  BY <1>1 DEF IInv, Serving, Held
<1>3. pc[u] \in {"taken", "running"}
  BY <1>2, PoolAssumption DEF IInv, TypeOK
<1> QED
  BY <1>2, <1>3 DEF Flagged, Taking

\* The steps of a call keep what is known.
LEMMA CallFlagged ==
  ASSUME IInv, Flagged, NEW t \in Threads, CallStep(t), phase' = "up"
  PROVE  Flagged'
<1> USE PoolAssumption DEF engine, pool, Pcs, Ends
<1>1. phase = "up"
  BY DEF CallStep, Enter, EnterUnloaded, StartProbe, Probe, Judge, Get, GetTimeout,
         Begin, Finish
<1> USE <1>1
<1>2. CASE Enter(t) \/ EnterUnloaded(t) \/ Judge(t) \/ GetTimeout(t)
  <2>1. /\ flag' = flag /\ got' = got /\ free' = free
        /\ \A u \in Threads \ {t} : pc'[u] = pc[u] /\ short'[u] = short[u]
        /\ pc'[t] \notin {"unserved", "running", "taken", "probing"}
        /\ pc[t] \notin {"running", "taken"}
    BY <1>2 DEF Enter, EnterUnloaded, Judge, GetTimeout, IInv, TypeOK
  <2>2. Probing' => Probing
    BY <2>1 DEF Probing
  <2> QED
    BY <2>1, <2>2 DEF Flagged, Taking
<1>3. CASE StartProbe(t)
  <2>1. /\ flag' = flag /\ got' = got /\ short' = short /\ Len(free') = 0
        /\ \A u \in Threads \ {t} : pc'[u] = pc[u]
        /\ pc[t] = "probe" /\ pc'[t] = "probing"
    BY <1>3 DEF StartProbe, IInv, TypeOK
  <2>2. \A w \in Workers : Taking(w) => Taking(w)'
    BY <2>1 DEF Taking
  <2> QED
    BY <2>1, <2>2 DEF Flagged
<1>4. CASE Probe(t)
  <2>1. /\ flag' = flag /\ pc[t] = "probing" /\ pc'[t] \in {"taken", "unserved"}
        /\ \A u \in Threads \ {t} :
             pc'[u] = pc[u] /\ short'[u] = short[u] /\ got'[u] = got[u]
    BY <1>4 DEF Probe, ProbeTakes, ProbeFails, Take, IInv, TypeOK
  <2>2. Probing /\ ~Probing'
    BY <2>1 DEF Probing, IInv, PutBack
  <2>3. \A w \in Workers : Taking(w) => Taking(w)'
    BY <2>1 DEF Taking
  <2>4. pc'[t] = "unserved" => \A w \in Workers \ short'[t] : flag[w] => Taking(w)
    <3> SUFFICES ASSUME pc'[t] = "unserved", NEW w \in Workers \ short'[t], flag[w]
                 PROVE  Taking(w)
      OBVIOUS
    <3>1. ProbeFails(t)
      BY <1>4 DEF Probe, ProbeTakes, Take, IInv, TypeOK
    <3>2. w \notin tight /\ \A i \in 1 .. Len(looked) : ~Usable(looked[i])
      BY <3>1 DEF ProbeFails, IInv, TypeOK
    <3> QED
      BY <2>2, <3>2, ProbeKnows
  <2> QED
    BY <2>1, <2>2, <2>3, <2>4 DEF Flagged
<1>5. CASE Get(t)
  <2>1. /\ flag' = flag /\ short' = short
        /\ \A u \in Threads \ {t} : pc'[u] = pc[u] /\ got'[u] = got[u]
        /\ pc[t] = "waiting" /\ pc'[t] = "taken"
    BY <1>5 DEF Get, Take, IInv, TypeOK
  <2>2. \A w \in Workers : Taking(w) => Taking(w)'
    BY <2>1 DEF Taking
  <2>3. Probing' => Probing
    BY <2>1 DEF Probing
  <2>4. ASSUME NEW i \in 1 .. Len(free')
        PROVE  i + 1 \in 1 .. Len(free) /\ free'[i] = free[i + 1]
    <3>1. free \in Seq(Workers) /\ free # <<>> /\ free' = Tail(free)
      BY <1>5 DEF Get, IInv, TypeOK
    <3>2. Len(free) \in Nat /\ Len(free') = Len(free) - 1 /\ free'[i] = free[i + 1]
      BY <3>1, LenProperties, HeadTailProperties
    <3> QED
      BY <3>2
  <2> QED
    BY <2>1, <2>2, <2>3, <2>4 DEF Flagged
<1>6. CASE Begin(t)
  <2>1. /\ short' = short /\ got' = got /\ free' = free
        /\ pc[t] = "taken" /\ pc'[t] = "running"
        /\ \A u \in Threads \ {t} : pc'[u] = pc[u]
        /\ got[t] \in Workers
        /\ flag' = [flag EXCEPT ![got[t]] = FALSE]
        /\ flag \in [Workers -> BOOLEAN]
    BY <1>6 DEF Begin, IInv, TypeOK
  <2>2. ~flag'[got[t]]
    BY <2>1
  <2>3. \A w \in Workers : flag'[w] => flag[w] /\ w # got[t]
    BY <2>1
  <2>4. \A w \in Workers : w # got[t] /\ Taking(w) => Taking(w)'
    BY <2>1 DEF Taking
  <2>5. \A u \in Threads : pc'[u] = "running" => got[u] \in Workers
    BY <2>1 DEF IInv, TypeOK
  <2>6. \A i \in 1 .. Len(free) : free[i] \in Workers
    BY ElementOfSeq DEF IInv, TypeOK
  <2>7. Probing' => Probing
    BY <2>1 DEF Probing
  <2> QED
    BY <2>1, <2>2, <2>3, <2>4, <2>5, <2>6, <2>7 DEF Flagged
<1>7. CASE Finish(t)
  <2>1. /\ flag' = flag /\ short' = short
        /\ \A u \in Threads \ {t} : pc'[u] = pc[u] /\ got'[u] = got[u]
        /\ pc[t] = "running" /\ pc'[t] = "ended"
    BY <1>7 DEF Finish, IInv, TypeOK
  <2>2. \A w \in Workers : Taking(w) => Taking(w)'
    BY <2>1 DEF Taking
  <2>3. Probing' => Probing
    BY <2>1 DEF Probing
  <2>4. ASSUME NEW i \in 1 .. Len(free')
        PROVE  free'[i] = got[t] \/ (i \in 1 .. Len(free) /\ free'[i] = free[i])
    <3>1. free \in Seq(Workers) /\ got[t] \in Workers /\ free' = Append(free, got[t])
      BY <1>7 DEF Finish, IInv, TypeOK
    <3>2. /\ Len(free) \in Nat /\ Len(free') = Len(free) + 1
          /\ \A k \in 1 .. Len(free) : free'[k] = free[k]
          /\ free'[Len(free) + 1] = got[t]
      BY <3>1, LenProperties, AppendProperties
    <3> QED
      BY <3>2
  <2>5. ~flag[got[t]]
    BY <2>1 DEF Flagged
  <2> QED
    BY <2>1, <2>2, <2>3, <2>4, <2>5 DEF Flagged
<1> QED
  BY <1>2, <1>3, <1>4, <1>5, <1>6, <1>7 DEF CallStep

\* Every step keeps what is known.
LEMMA NextFlagged == IInv /\ Flagged /\ [Next]_vars => Flagged'
<1> SUFFICES ASSUME IInv, Flagged, [Next]_vars, phase' = "up" PROVE Flagged'
  BY DEF Flagged
<1> USE DEF engine, pool
<1>1. ASSUME NEW w \in Workers, StartWorker(w) PROVE Flagged'
  BY <1>1 DEF StartWorker, IInv, Loading, Flagged, Probing
<1>2. ASSUME NEW w \in Workers, StartFails(w) PROVE Flagged'
  BY <1>2 DEF StartFails
<1>3. ASSUME NEW t \in Threads, CallStep(t) PROVE Flagged'
  BY <1>3, CallFlagged
<1>4. ASSUME \/ \E w \in Workers : ChildSleeps(w) \/ ChildDies(w) \/ RoomChanges(w)
             \/ UNCHANGED vars
      PROVE  Flagged'
  BY <1>4
     DEF ChildSleeps, ChildDies, RoomChanges, vars, Flagged, Taking, Probing
<1>5. CASE EnterSleep
  BY <1>5 DEF EnterSleep, Flagged, Probing, Ends
<1>6. CASE Unload \/ StopWorker \/ Unloaded
  BY <1>6 DEF Unload, StopWorker, Unloaded
<1> QED
  BY <1>1, <1>2, <1>3, <1>4, <1>5, <1>6 DEF Next

\* A step that rejects a call judges it, and has a cause.
LEMMA StepForCause ==
  ASSUME IInv, Flagged, [Next]_vars,
         NEW t \in Threads, phase = "up", pc[t] # "rejected", pc'[t] = "rejected",
         NEW w \in Workers \ short[t]
  PROVE  Taking(w)
<1>1. Judge(t)
  <2>1. PICK u \in Threads : CallStep(u)
    BY DEF Next, vars, StartWorker, StartFails, ChildSleeps, ChildDies, RoomChanges,
           EnterSleep, Unload, StopWorker, Unloaded
  <2> QED
    BY <2>1
       DEF IInv, TypeOK, CallStep, Enter, EnterUnloaded, StartProbe, Probe,
           ProbeTakes, ProbeFails, Take, Judge, Get, GetTimeout, Begin, Finish
<1>2. pc[t] = "unserved" /\ \A v \in ToSet(workers) : flag[v]
  BY <1>1 DEF Judge, IInv, TypeOK
<1>3. flag[w]
  BY <1>2 DEF IInv, Serving
<1> QED
  BY <1>2, <1>3 DEF Flagged

\* No call is rejected because the workers are busy.
THEOREM RejectionsHaveCause == Spec => RejectedForCause
<1>1. Init => Flagged
  BY DEF Init, Flagged
<1>2. Spec => [](IInv /\ Flagged)
  BY <1>1, InitIInv, NextIInv, NextFlagged, PTL DEF Spec
<1>3. IInv /\ Flagged /\ [Next]_vars =>
        [\A t \in Threads :
           phase = "up" /\ pc[t] # "rejected" /\ pc'[t] = "rejected"
             => \A w \in Workers \ short[t] :
                  \E u \in Threads : pc[u] = "taken" /\ got[u] = w]_vars
  BY StepForCause DEF Taking
<1> QED
  BY <1>2, <1>3, PTL DEF Spec, RejectedForCause
=============================================================================
