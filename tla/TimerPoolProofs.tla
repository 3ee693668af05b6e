-------------------------- MODULE TimerPoolProofs --------------------------
(***************************************************************************)
(* What holds of the timer pool for every set of timers, all intervals and *)
(* any number of calls: the pool thread never sleeps past a timer, a timer *)
(* is in the list exactly while it is started, and a callback runs before  *)
(* its time only after the idle wake-up or a race.                         *)
(***************************************************************************)
EXTENDS TimerPool, OrderLemmas

(* t is in the list exactly once; not at all; as started says.             *)
Once(list, t)  == \E i \in DOMAIN list : \A j \in DOMAIN list : list[j] = t <=> j = i
Never(list, t) == \A j \in DOMAIN list : list[j] # t
Fits(list, t)  == IF started[t] THEN Once(list, t) ELSE Never(list, t)

(* A callback is in the middle of an operation only while it runs.         *)
OpInv ==
  cbOp # NoOp => /\ pt = "callback"
                 /\ cbOp.t \in Timers
                 /\ cbOp.kind # "none"

(* No timer of a list is due before the time the pool thread waits for.    *)
Bounded(list) == \A i \in DOMAIN list : wakeTime <= wake[list[i]]

(* WakeBound, also for the list a callback has read and may write back,    *)
(* and for the timer it is going to put into the list.                     *)
BoundInv ==
  ~update => /\ Bounded(active)
             /\ Bounded(cbOp.snap)
             /\ cbOp.kind \in {"add", "move"} => wakeTime <= wake[cbOp.t]

(* ListAgrees, also for the list a callback has read; and stopAllTimers    *)
(* still has every started timer before it.                                *)
AgreeInv ==
  /\ \A t \in Timers \ (raced \cup {cbOp.t}) :
       /\ Fits(active, t)
       /\ cbOp # NoOp => Fits(cbOp.snap, t)
       /\ allOn /\ started[t] => \E i \in DOMAIN all : all[i] = t
  /\ cbOp.kind = "add" /\ cbOp.t \notin raced =>
       Never(active, cbOp.t) /\ Never(cbOp.snap, cbOp.t)

(* The first timer of a list is due when the pool thread wakes up, unless  *)
(* its entry is left over from a race.                                     *)
Leads(list) == list # <<>> /\ (wake[Head(list)] <= wakeTime \/ Head(list) \in raced)

HeadInv ==
  ~update /\ ~idleArmed =>
    /\ Leads(active)
    /\ cbOp # NoOp => Leads(cbOp.snap)
    /\ cbOp.kind \in {"move", "remove"} =>
         Head(active) # cbOp.t /\ Head(cbOp.snap) # cbOp.t

-----------------------------------------------------------------------------
(* The list operations.                                                    *)

(* q is list without the entries of t, the first entry still first.        *)
Reduced(q, list, t) ==
  /\ q \in Seq(Timers)
  /\ Never(q, t)
  /\ \A i \in DOMAIN q : \E j \in DOMAIN list : q[i] = list[j]
  /\ \A s : s # t /\ Once(list, s) => Once(q, s)
  /\ \A s : Never(list, s) => Never(q, s)
  /\ list # <<>> /\ Head(list) # t => q # <<>> /\ Head(q) = Head(list)

(* list::remove takes out all entries of t and nothing else.               *)
LEMMA RemoveFacts ==
  ASSUME NEW list \in Seq(Timers), NEW t
  PROVE  Reduced(Without(list, {t}), list, t)
<1>1. PICK q : q = Without(list, {t})
  OBVIOUS
<1>2. q \in Seq(Timers)
  BY <1>1, WithoutFacts
<1>3. PICK e : Shrinks(q, list, {t}, e)
  BY <1>1, WithoutFacts
<1>4. DOMAIN q = 1 .. Len(q) /\ DOMAIN list = 1 .. Len(list) /\ Len(q) \in Nat /\ Len(list) \in Nat
  BY <1>2
<1>5. \A n \in 1 .. Len(q) : e[n] \in 1 .. Len(list) /\ q[n] = list[e[n]] /\ q[n] # t
  BY <1>3 DEF Shrinks
<1>6. \A i \in 1 .. Len(list) : list[i] # t => \E n \in 1 .. Len(q) : e[n] = i
  BY <1>3 DEF Shrinks
<1>7. Never(q, t)
  BY <1>4, <1>5 DEF Never
<1>8. \A i \in DOMAIN q : \E j \in DOMAIN list : q[i] = list[j]
  BY <1>4, <1>5
<1>9. ASSUME NEW s, s # t, Once(list, s) PROVE Once(q, s)
  <2>1. PICK i \in DOMAIN list : \A j \in DOMAIN list : list[j] = s <=> j = i
    BY <1>9 DEF Once
  <2>2. PICK n \in 1 .. Len(q) : e[n] = i
    BY <1>4, <1>6, <1>9, <2>1
  <2>3. ASSUME NEW m \in DOMAIN q PROVE q[m] = s <=> m = n
    <3>1. q[m] = s <=> e[m] = e[n]
      BY <1>4, <1>5, <2>1, <2>2
    <3>2. m # n => e[m] # e[n]
      <4>1. m < n \/ n < m \/ m = n
        BY <1>4
      <4>2. e[m] \in Int /\ e[n] \in Int
        BY <1>5
      <4> QED BY <1>3, <4>1, <4>2 DEF Shrinks
    <3> QED BY <3>1, <3>2
  <2>4. n \in DOMAIN q
    BY <1>4
  <2> QED BY <2>3, <2>4 DEF Once
<1>10. \A s : Never(list, s) => Never(q, s)
  BY <1>4, <1>5 DEF Never
<1>11. ASSUME list # <<>>, Head(list) # t PROVE q # <<>> /\ Head(q) = Head(list)
  <2>1. 1 \in 1 .. Len(list) /\ Head(list) = list[1]
    BY <1>4, <1>11
  <2>2. PICK n \in 1 .. Len(q) : e[n] = 1
    BY <1>6, <1>11, <2>1
  <2>3. n = 1
    <3>1. 1 \in 1 .. Len(q) /\ 1 <= n
      BY <1>4
    <3>2. e[1] \in 1 .. Len(list)
      BY <1>5, <3>1
    <3>3. ~(1 < n)
      BY <1>3, <2>2, <3>1, <3>2 DEF Shrinks
    <3> QED BY <3>1, <3>3
  <2> QED BY <1>2, <1>5, <2>1, <2>2, <2>3
<1>12. Reduced(q, list, t)
  BY <1>2, <1>7, <1>8, <1>9, <1>10, <1>11 DEF Reduced
<1> QED BY <1>1, <1>12

(* push_back adds one entry of t at the end.                               *)
LEMMA AppendFacts ==
  ASSUME NEW list \in Seq(Timers), NEW t \in Timers
  PROVE  /\ Append(list, t) \in Seq(Timers)
         /\ \A i \in DOMAIN Append(list, t) :
              Append(list, t)[i] = t \/ \E j \in DOMAIN list : Append(list, t)[i] = list[j]
         /\ Never(list, t) => Once(Append(list, t), t)
         /\ \A s : s # t /\ Once(list, s) => Once(Append(list, t), s)
         /\ \A s : s # t /\ Never(list, s) => Never(Append(list, t), s)
         /\ Append(list, t) # <<>>
         /\ list # <<>> => Head(Append(list, t)) = Head(list)
<1>1. PICK q : q = Append(list, t)
  OBVIOUS
<1>2. /\ q \in Seq(Timers) /\ Len(q) = Len(list) + 1 /\ Len(list) \in Nat
      /\ DOMAIN q = 1 .. Len(list) + 1 /\ DOMAIN list = 1 .. Len(list)
      /\ \A i \in 1 .. Len(list) : q[i] = list[i]
      /\ q[Len(list) + 1] = t
  BY <1>1
<1>3. \A i \in DOMAIN q : i \in DOMAIN list \/ i = Len(list) + 1
  BY <1>2
<1>4. Never(list, t) => Once(q, t)
  BY <1>2, <1>3 DEF Never, Once
<1>5. \A s : s # t /\ Once(list, s) => Once(q, s)
  BY <1>2, <1>3 DEF Once
<1>6. \A s : s # t /\ Never(list, s) => Never(q, s)
  BY <1>2, <1>3 DEF Never
<1>7. q # <<>> /\ (list # <<>> => Head(q) = Head(list))
  BY <1>2
<1> QED BY <1>1, <1>2, <1>3, <1>4, <1>5, <1>6, <1>7

(* pop_front takes out the first entry.                                    *)
LEMMA TailFacts ==
  ASSUME NEW list \in Seq(Timers), list # <<>>
  PROVE  /\ Head(list) \in Timers
         /\ 1 \in DOMAIN list /\ list[1] = Head(list)
         /\ Tail(list) \in Seq(Timers)
         /\ \A i \in DOMAIN Tail(list) : \E j \in DOMAIN list : Tail(list)[i] = list[j]
         /\ \A s : Never(list, s) => Never(Tail(list), s)
         /\ \A s : s # Head(list) /\ Once(list, s) => Once(Tail(list), s)
         /\ Once(list, Head(list)) => Never(Tail(list), Head(list))
<1>1. PICK q : q = Tail(list)
  OBVIOUS
<1>2. /\ q \in Seq(Timers) /\ Len(list) \in Nat /\ Len(list) > 0
      /\ DOMAIN q = 1 .. Len(list) - 1 /\ DOMAIN list = 1 .. Len(list)
      /\ \A i \in 1 .. Len(list) - 1 : q[i] = list[i + 1] /\ i + 1 \in 1 .. Len(list)
  BY <1>1
<1>3. Head(list) = list[1] /\ 1 \in DOMAIN list /\ Head(list) \in Timers
  BY <1>2
<1>4. \A s : Never(list, s) => Never(q, s)
  BY <1>2 DEF Never
<1>5. ASSUME NEW s, s # Head(list), Once(list, s) PROVE Once(q, s)
  <2>1. PICK i \in DOMAIN list : \A j \in DOMAIN list : list[j] = s <=> j = i
    BY <1>5 DEF Once
  <2>2. i # 1 /\ i - 1 \in 1 .. Len(list) - 1
    BY <1>2, <1>3, <1>5, <2>1
  <2>3. i - 1 \in DOMAIN q /\ \A j \in DOMAIN q : q[j] = s <=> j = i - 1
    <3>1. i \in Int /\ i - 1 \in DOMAIN q
      BY <1>2, <2>2
    <3>2. ASSUME NEW j \in DOMAIN q PROVE q[j] = s <=> j = i - 1
      <4>1. j \in Int /\ j + 1 \in DOMAIN list /\ q[j] = list[j + 1]
        BY <1>2
      <4>2. q[j] = s <=> j + 1 = i
        BY <2>1, <4>1
      <4> QED BY <3>1, <4>1, <4>2
    <3> QED BY <3>1, <3>2
  <2> QED BY <2>3 DEF Once
<1>6. Once(list, Head(list)) => Never(q, Head(list))
  BY <1>2, <1>3 DEF Never, Once
<1> QED BY <1>1, <1>2, <1>3, <1>4, <1>5, <1>6

(* computeNextWakeupTimepoint reorders the list, and puts a timer that is  *)
(* due first to its front.                                                 *)
LEMMA SortFacts ==
  ASSUME NEW list \in Seq(Timers), NEW w \in [Timers -> Nat]
  PROVE  /\ SortedBy(list, w) \in Seq(Timers)
         /\ \A i \in DOMAIN SortedBy(list, w) :
              \E j \in DOMAIN list : SortedBy(list, w)[i] = list[j]
         /\ \A s : Once(list, s) => Once(SortedBy(list, w), s)
         /\ \A s : Never(list, s) => Never(SortedBy(list, w), s)
         /\ list = <<>> => SortedBy(list, w) = <<>>
         /\ list # <<>> =>
              /\ SortedBy(list, w) # <<>>
              /\ Head(SortedBy(list, w)) \in Timers
              /\ \A i \in DOMAIN list : w[Head(SortedBy(list, w))] <= w[list[i]]
<1> DEFINE S == DOMAIN list
           up(j, k) == \/ w[list[j]] < w[list[k]]
                       \/ w[list[j]] = w[list[k]] /\ j <= k
           f == [k \in S |-> {j \in S : up(j, k)}]
           p == [i \in S |-> CHOOSE k \in S : Rank(list, w, k) = i]
<1>1. /\ S = 1 .. Len(list) /\ Len(list) \in Nat
      /\ \A k \in S : k \in Int /\ list[k] \in Timers /\ w[list[k]] \in Int
  OBVIOUS
<1>2. IsFiniteSet(S) /\ Cardinality(S) = Len(list)
  <2>1. PICK n \in Nat : n = Len(list)
    BY <1>1
  <2>2. IsFiniteSet(1 .. n) /\ Cardinality(1 .. n) = n
    BY FS_Interval
  <2> QED BY <1>1, <2>1, <2>2
<1>3. f \in [S -> SUBSET S] /\ \A j, k \in S : j \in f[k] <=> up(j, k)
  OBVIOUS
<1>4. \A k \in S : Rank(list, w, k) = Cardinality(f[k])
  BY DEF Rank
<1>5. /\ \A k \in S : up(k, k)
      /\ \A j, k \in S : up(j, k) \/ up(k, j)
      /\ \A j, k \in S : up(j, k) /\ up(k, j) => j = k
      /\ \A i, j, k \in S : up(i, j) /\ up(j, k) => up(i, k)
  BY <1>1
<1>6. SortedBy(list, w) = [i \in S |-> list[p[i]]]
  BY DEF SortedBy
<1>a. \A i \in S : p[i] = CHOOSE k \in S : Rank(list, w, k) = i
  OBVIOUS
<1>b. \A j, k \in S : up(j, k) => w[list[j]] <= w[list[k]]
  BY <1>1
<1> HIDE DEF up, f, p
<1>7. \A j, k \in S : up(j, k) => f[j] \subseteq f[k]
  BY <1>3, <1>5
<1>8. Chain(S, f)
  <2>1. \A k \in S : k \in f[k]
    BY <1>3, <1>5
  <2>2. \A j, k \in S : f[j] \subseteq f[k] \/ f[k] \subseteq f[j]
    BY <1>5, <1>7
  <2>3. \A j, k \in S : f[j] = f[k] => j = k
    BY <1>3, <1>5, <2>1
  <2> QED BY <1>3, <2>1, <2>2, <2>3 DEF Chain
<1>9. Counted(S, f)
  BY <1>2, <1>8, ChainPlaces
<1>10. /\ \A k \in S : IsFiniteSet(f[k]) /\ Cardinality(f[k]) \in S
       /\ \A i \in S : p[i] \in S /\ Cardinality(f[p[i]]) = i
       /\ \A k \in S : p[Cardinality(f[k])] = k
  <2>1. \A k \in S : IsFiniteSet(f[k]) /\ Cardinality(f[k]) \in S
    BY <1>1, <1>2, <1>9 DEF Counted
  <2>2. ASSUME NEW i \in S PROVE p[i] \in S /\ Cardinality(f[p[i]]) = i
    <3>1. \E k \in S : Rank(list, w, k) = i
      BY <1>1, <1>2, <1>4, <1>9 DEF Counted
    <3>2. p[i] \in S /\ Rank(list, w, p[i]) = i
      BY <1>a, <3>1
    <3> QED BY <1>4, <3>2
  <2>3. \A j, k \in S : Cardinality(f[j]) = Cardinality(f[k]) => j = k
    BY <1>9 DEF Counted
  <2> QED BY <2>1, <2>2, <2>3
<1>11. PICK q : q = SortedBy(list, w)
  OBVIOUS
<1>12. DOMAIN q = S /\ \A i \in S : q[i] = list[p[i]] /\ p[i] \in S
  BY <1>6, <1>10, <1>11
<1>13. q \in Seq(Timers) /\ Len(q) = Len(list)
  <2>1. \A i \in 1 .. Len(list) : list[p[i]] \in Timers
    BY <1>1, <1>12
  <2>2. q = [i \in 1 .. Len(list) |-> list[p[i]]]
    BY <1>1, <1>6, <1>11
  <2> QED BY <1>1, <2>1, <2>2
<1>14. ASSUME NEW s, Once(list, s) PROVE Once(q, s)
  <2>1. PICK k \in S : \A j \in S : list[j] = s <=> j = k
    BY <1>14 DEF Once
  <2>2. PICK i \in S : p[i] = k
    BY <1>10
  <2>3. \A j \in S : q[j] = s <=> p[j] = p[i]
    BY <1>12, <2>1, <2>2
  <2>4. \A j \in S : p[j] = p[i] => j = i
    BY <1>10
  <2> QED BY <1>12, <2>3, <2>4 DEF Once
<1>15. \A s : Never(list, s) => Never(q, s)
  BY <1>12 DEF Never
<1>16. list = <<>> => q = <<>>
  BY <1>1, <1>13
<1>17. ASSUME list # <<>>
       PROVE  /\ q # <<>> /\ Head(q) \in Timers
              /\ \A i \in S : w[Head(q)] <= w[list[i]]
  <2>1. 1 \in S /\ q # <<>> /\ Head(q) = q[1]
    BY <1>1, <1>13, <1>17
  <2>2. p[1] \in S /\ Cardinality(f[p[1]]) = 1 /\ p[1] \in f[p[1]] /\ IsFiniteSet(f[p[1]])
    BY <1>3, <1>5, <1>10, <2>1
  <2>3. f[p[1]] = {p[1]}
    <3>1. \E x : f[p[1]] = {x}
      BY <2>2, FS_Singleton
    <3> QED BY <2>2, <3>1
  <2>4. ASSUME NEW i \in S PROVE w[list[p[1]]] <= w[list[i]]
    <3>1. up(p[1], i)
      <4>1. CASE i = p[1]
        BY <1>5, <2>2, <4>1
      <4>2. CASE i # p[1]
        <5>1. ~up(i, p[1])
          BY <1>3, <2>2, <2>3, <4>2
        <5> QED BY <1>5, <2>2, <5>1
      <4> QED BY <4>1, <4>2
    <3> QED BY <1>b, <2>2, <3>1
  <2> QED BY <1>1, <1>12, <2>1, <2>2, <2>4
<1> QED BY <1>11, <1>12, <1>13, <1>14, <1>15, <1>16, <1>17

-----------------------------------------------------------------------------
(* Type correctness.                                                       *)

TypeInv == TypeOK /\ OpInv

(* The initial state has the types.                                        *)
LEMMA TypeInit == Init => TypeInv
<1> SUFFICES ASSUME Init PROVE TypeInv
  OBVIOUS
<1>1. cbOp = NoOp /\ NoOp \in [t : Timers \cup {NoTimer},
                                kind : {"none", "add", "move", "remove"}, snap : Seq(Timers)]
  BY DEF Init, NoOp
<1>2. active \in Seq(Timers) /\ all \in Seq(Timers)
  BY DEF Init
<1>3. OpInv
  BY <1>1 DEF OpInv
<1>4. now \in 0 .. MaxTime /\ ops \in 0 .. MaxOps /\ wakeTime \in Nat
  BY TimerPoolAssumption DEF Init
<1>5. started \in [Timers -> BOOLEAN] /\ wake \in [Timers -> Nat]
  BY DEF Init
<1>6. raced \subseteq Timers /\ fired \subseteq Timers
  BY DEF Init
<1> QED BY <1>1, <1>2, <1>3, <1>4, <1>5, <1>6 DEF Init, TypeInv, TypeOK

(* The flag and the state of the pool thread after a notification.         *)
LEMMA WakePoolType ==
  ASSUME TypeInv, NEW b \in BOOLEAN, WakePool(b)
  PROVE  /\ update' \in BOOLEAN
         /\ update' <=> update \/ b
         /\ pt' \in {"top", "blocking", "asleep", "callback", "exit", "crashed"}
         /\ pt = "callback" <=> pt' = "callback"
         /\ pt = "crashed" <=> pt' = "crashed"
BY DEF WakePool, Notify, TypeInv, TypeOK

(* What the history records of a change of the list.                       *)
LEMMA RaceType ==
  ASSUME TypeInv, NEW t \in Timers, NEW removes \in BOOLEAN, Race(t, removes)
  PROVE  /\ raced' \subseteq Timers
         /\ cbOp # NoOp \/ allOn => raced' = raced \cup {t}
         /\ ~removes => raced \subseteq raced'
         /\ raced \ {t} \subseteq raced' /\ raced' \subseteq raced \cup {t}
BY DEF Race, TypeInv, TypeOK

(* What the end of a callback's operation makes of the list.               *)
LEMMA EndList ==
  ASSUME TypeInv, CallbackEnd
  PROVE  /\ cbOp.t \in Timers
         /\ \E list \in {active, cbOp.snap} :
              /\ list \in Seq(Timers)
              /\ \/ cbOp.kind = "add" /\ active' = Append(list, cbOp.t)
                 \/ cbOp.kind = "move" /\ active' = Append(Without(list, {cbOp.t}), cbOp.t)
                 \/ cbOp.kind = "remove" /\ active' = Without(list, {cbOp.t})
<1>1. cbOp.t \in Timers /\ cbOp.kind \in {"add", "move", "remove"}
  BY DEF CallbackEnd, TypeInv, OpInv, TypeOK
<1>2. active \in Seq(Timers) /\ cbOp.snap \in Seq(Timers)
  BY DEF TypeInv, TypeOK
<1>3. PICK list \in {active, cbOp.snap} :
        active' = CASE cbOp.kind = "add"    -> Append(list, cbOp.t)
                    [] cbOp.kind = "move"   -> Append(Without(list, {cbOp.t}), cbOp.t)
                    [] cbOp.kind = "remove" -> Without(list, {cbOp.t})
  BY DEF CallbackEnd
<1> QED BY <1>1, <1>2, <1>3

(* What a callback may be about to do.                                     *)
LEMMA BeginOp ==
  ASSUME TypeInv, NEW t \in Timers, NEW kind \in {"add", "move", "remove"}
  PROVE  /\ [t |-> t, kind |-> kind, snap |-> active] # NoOp
         /\ [t |-> t, kind |-> kind, snap |-> active] \in
              [t : Timers \cup {NoTimer}, kind : {"none", "add", "move", "remove"},
               snap : Seq(Timers)]
BY TimerPoolAssumption DEF NoOp, TypeInv, TypeOK

(* The wake-up times are numbers.                                          *)
LEMMA WakeAtType ==
  ASSUME TypeInv, NEW t \in Timers, NEW immediately \in BOOLEAN
  PROVE  WakeAt(t, immediately) \in Nat
BY TimerPoolAssumption DEF TypeInv, TypeOK, WakeAt

(* computeNextWakeupTimepoint keeps the types.                             *)
LEMMA ComputeType ==
  ASSUME TypeInv, NEW list \in Seq(Timers), NEW w \in [Timers -> Nat],
         ComputeNextWakeupTimepoint(list, w)
  PROVE  /\ active' = SortedBy(list, w)
         /\ active' \in Seq(Timers)
         /\ wakeTime' \in Nat
         /\ idleArmed' \in BOOLEAN
         /\ list = <<>> => active' = <<>> /\ idleArmed'
         /\ list # <<>> =>
              ~idleArmed' /\ active' # <<>> /\ Head(active') \in Timers /\ wakeTime' = w[Head(active')]
<1>1. /\ active' = SortedBy(list, w)
      /\ wakeTime' = IF list = <<>> THEN now + Idle ELSE w[Head(SortedBy(list, w))]
      /\ idleArmed' = (list = <<>>)
  BY DEF ComputeNextWakeupTimepoint
<1>2. now + Idle \in Nat
  BY TimerPoolAssumption DEF TypeInv, TypeOK
<1> QED BY <1>1, <1>2, SortFacts

(* Every step keeps the types.                                             *)
LEMMA TypeStep ==
  ASSUME TypeInv, [Next]_vars
  PROVE  TypeInv'
<1> USE TimerPoolAssumption
<1>0. /\ active \in Seq(Timers) /\ started \in [Timers -> BOOLEAN] /\ wake \in [Timers -> Nat]
      /\ all \in Seq(Timers) /\ update \in BOOLEAN /\ cbOp.snap \in Seq(Timers)
      /\ pt \in {"top", "blocking", "asleep", "callback", "exit", "crashed"}
  BY DEF TypeInv, TypeOK
<1>a. <<>> \in Seq(Timers)
  OBVIOUS
<1>1. ASSUME NEW t \in Timers, NEW immediately \in BOOLEAN, Start(t, immediately)
      PROVE  TypeInv'
  <2>1. WakeAt(t, immediately) \in Nat /\ Append(active, t) \in Seq(Timers)
    BY <1>0, WakeAtType
  <2>2. /\ update' \in BOOLEAN /\ (pt = "callback" => pt' = "callback")
        /\ pt' \in {"top", "blocking", "asleep", "callback", "exit", "crashed"}
    <3>1. AddNotifies(WakeAt(t, immediately)) \in BOOLEAN
      BY DEF AddNotifies
    <3> QED BY <1>1, <3>1, WakePoolType DEF Start
  <2>3. raced' \subseteq Timers
    BY <1>1, RaceType DEF Start
  <2> QED
    BY <1>0, <1>1, <2>1, <2>2, <2>3 DEF Start, Call, TypeInv, TypeOK, OpInv, stopVars
<1>2. ASSUME NEW t \in Timers, NEW immediately \in BOOLEAN, Restart(t, immediately)
      PROVE  TypeInv'
  <2>1. WakeAt(t, immediately) \in Nat /\ Append(Without(active, {t}), t) \in Seq(Timers)
    <3>1. Without(active, {t}) \in Seq(Timers)
      BY <1>0, RemoveFacts DEF Reduced
    <3> QED BY <3>1, WakeAtType
  <2>2. /\ update' \in BOOLEAN /\ (pt = "callback" => pt' = "callback")
        /\ pt' \in {"top", "blocking", "asleep", "callback", "exit", "crashed"}
    BY <1>2, WakePoolType DEF Restart, AddNotifies, RemoveNotifies
  <2>3. raced' \subseteq Timers
    BY <1>2, RaceType DEF Restart
  <2> QED
    BY <1>0, <1>2, <2>1, <2>2, <2>3 DEF Restart, Call, TypeInv, TypeOK, OpInv, stopVars
<1>3. ASSUME NEW t \in Timers, Stop(t) PROVE TypeInv'
  <2>1. Without(active, {t}) \in Seq(Timers)
    BY <1>0, RemoveFacts DEF Reduced
  <2>2. /\ update' \in BOOLEAN /\ (pt = "callback" => pt' = "callback")
        /\ pt' \in {"top", "blocking", "asleep", "callback", "exit", "crashed"}
    <3>1. (started[t] /\ RemoveNotifies(active, t)) \in BOOLEAN
      BY <1>0 DEF RemoveNotifies
    <3> QED BY <1>3, <3>1, WakePoolType DEF Stop, StopSection
  <2>3. raced' \subseteq Timers
    BY <1>3, RaceType DEF Stop
  <2> QED
    BY <1>0, <1>3, <2>1, <2>2, <2>3 DEF Stop, StopSection, Call, TypeInv, TypeOK, OpInv, stopVars
<1>4. ASSUME NEW t \in Timers, NEW immediately \in BOOLEAN,
             NEW kind \in {"add", "move", "remove"}, CallbackBegin(t, kind, immediately)
      PROVE  TypeInv'
  <2>1. WakeAt(t, immediately) \in Nat
    BY WakeAtType
  <2>2. cbOp' = [t |-> t, kind |-> kind, snap |-> active] /\ pt = "callback" /\ pt' = pt
    BY <1>4 DEF CallbackBegin
  <2>3. /\ cbOp' \in [t : Timers \cup {NoTimer}, kind : {"none", "add", "move", "remove"},
                      snap : Seq(Timers)]
        /\ OpInv'
    BY <2>2, BeginOp DEF OpInv
  <2>4. raced' \subseteq Timers
    BY <1>4 DEF CallbackBegin, Race, TypeInv, TypeOK
  <2> QED
    BY <1>0, <1>4, <2>1, <2>3, <2>4 DEF CallbackBegin, AddNotifies, RemoveNotifies, Call,
                                        TypeInv, TypeOK, stopVars
<1>5. CASE StopAllCopy
  BY <1>5 DEF StopAllCopy, Call, TypeInv, TypeOK, OpInv, stopVars, threadVars
<1>6. CASE StopAllOne
  <2>1. Head(all) \in Timers /\ Tail(all) \in Seq(Timers)
    BY <1>0, <1>6 DEF StopAllOne
  <2>2. Without(active, {Head(all)}) \in Seq(Timers)
    BY <1>0, RemoveFacts DEF Reduced
  <2> QED
    BY <1>0, <1>6, <2>1, <2>2 DEF StopAllOne, StopSection, WakePool, Notify, TypeInv, TypeOK,
                                  OpInv, stopVars, RemoveNotifies
<1>7. CASE StopAllClear
  <2>1. active' \in Seq(Timers) /\ wakeTime' \in Nat /\ idleArmed' \in BOOLEAN
    BY <1>0, <1>7, <1>a, ComputeType DEF StopAllClear
  <2> QED
    BY <1>7, <2>1 DEF StopAllClear, Notify, TypeInv, TypeOK, OpInv, stopVars
<1>8. CASE Destroy
  BY <1>8 DEF Destroy, Notify, TypeInv, TypeOK, OpInv, allVars
<1>9. CASE PoolUpdate
  <2>1. active' \in Seq(Timers) /\ wakeTime' \in Nat /\ idleArmed' \in BOOLEAN
    BY <1>0, <1>9, ComputeType DEF PoolUpdate
  <2> QED
    BY <1>9, <2>1 DEF PoolUpdate, TypeInv, TypeOK, OpInv, stopVars, threadVars, allVars
<1>10. CASE PoolExit \/ PoolBlock \/ PoolSleep \/ PoolTimeoutLate \/ PoolFireNothing \/ CallbackReturn
  BY <1>10 DEF PoolExit, PoolBlock, PoolSleep, PoolTimeoutLate, PoolFireNothing, CallbackReturn,
               TypeInv, TypeOK, OpInv, stopVars, allVars
<1>11. CASE PoolFire
  <2> DEFINE t    == Head(active)
             w    == [wake EXCEPT ![t] = IF SingleShot[t] THEN @ ELSE @ + Interval[t]]
             list == IF SingleShot[t] THEN Tail(active) ELSE active
  <2>1. t \in Timers /\ list \in Seq(Timers)
    BY <1>0, <1>11 DEF PoolFire
  <2>2. w \in [Timers -> Nat]
    <3>1. (IF SingleShot[t] THEN wake[t] ELSE wake[t] + Interval[t]) \in Nat
      BY <1>0, <2>1
    <3> QED BY <1>0, <2>1, <3>1
  <2>3. ComputeNextWakeupTimepoint(list, w)
    BY <1>11 DEF PoolFire
  <2>4. /\ started' = [started EXCEPT ![t] = ~SingleShot[t]] /\ wake' = w
        /\ fired' = fired \cup {t} /\ pt' = "callback"
    BY <1>11 DEF PoolFire
  <2>5. started' \in [Timers -> BOOLEAN]
    BY <1>0, <2>1, <2>4
  <2> HIDE DEF t, w, list
  <2>6. active' \in Seq(Timers) /\ wakeTime' \in Nat /\ idleArmed' \in BOOLEAN
    BY <2>1, <2>2, <2>3, ComputeType
  <2>7. fired' \subseteq Timers /\ wake' \in [Timers -> Nat]
    BY <2>1, <2>2, <2>4 DEF TypeInv, TypeOK
  <2> QED
    BY <1>11, <2>4, <2>5, <2>6, <2>7 DEF PoolFire, TypeInv, TypeOK, OpInv, stopVars, allVars
<1>12. CASE CallbackEnd
  <2>1. cbOp.t \in Timers /\ active' \in Seq(Timers)
    <3>1. cbOp.t \in Timers
      BY <1>12, EndList
    <3>2. PICK list \in {active, cbOp.snap} :
             /\ list \in Seq(Timers)
             /\ \/ active' = Append(list, cbOp.t)
                \/ active' = Append(Without(list, {cbOp.t}), cbOp.t)
                \/ active' = Without(list, {cbOp.t})
      BY <1>12, EndList
    <3>3. Without(list, {cbOp.t}) \in Seq(Timers)
      BY <3>2, RemoveFacts DEF Reduced
    <3>4. /\ Append(list, cbOp.t) \in Seq(Timers)
          /\ Append(Without(list, {cbOp.t}), cbOp.t) \in Seq(Timers)
      BY <3>1, <3>2, <3>3, AppendFacts
    <3> QED BY <3>1, <3>2, <3>3, <3>4
  <2>2. cbOp' = NoOp /\ OpInv'
    BY <1>12 DEF CallbackEnd, OpInv
  <2>3. cbOp' \in [t : Timers \cup {NoTimer}, kind : {"none", "add", "move", "remove"},
                   snap : Seq(Timers)]
    BY <2>2 DEF NoOp
  <2>4. started' \in [Timers -> BOOLEAN]
    BY <1>0, <1>12, <2>1 DEF CallbackEnd
  <2> QED
    BY <1>12, <2>1, <2>2, <2>3, <2>4 DEF CallbackEnd, TypeInv, TypeOK, stopVars, allVars
<1>13. CASE Tick
  BY <1>13 DEF Tick, TypeInv, TypeOK, OpInv, stopVars, threadVars, allVars
<1>14. CASE UNCHANGED vars
  BY <1>14 DEF vars, TypeInv, TypeOK, OpInv, stopVars, threadVars, allVars
<1> QED
  BY <1>1, <1>2, <1>3, <1>4, <1>5, <1>6, <1>7, <1>8, <1>9, <1>10, <1>11, <1>12, <1>13, <1>14
  DEF Next, PoolThread

(* Every variable of the pool keeps its type, and a callback is in the     *)
(* middle of an operation only while it runs.                              *)
THEOREM TimerPoolTypeCorrect == Spec => []TypeOK
<1>1. TypeInv /\ [Next]_vars => TypeInv'
  BY TypeStep
<1>2. TypeInv => TypeOK
  BY DEF TypeInv
<1> QED BY TypeInit, <1>1, <1>2, PTL DEF Spec

-----------------------------------------------------------------------------
(* The pool thread never sleeps past a timer.                              *)

WakeInv == TypeInv /\ BoundInv

(* What start and restart of a timer do to the flag and the wake-up times. *)
LEMMA StartEffect ==
  ASSUME TypeInv, NEW t \in Timers, NEW immediately \in BOOLEAN,
         Start(t, immediately) \/ Restart(t, immediately)
  PROVE  \E n \in Nat : /\ wake' = [wake EXCEPT ![t] = n]
                        /\ ~update' => ~update /\ wakeTime <= n
<1>1. WakeAt(t, immediately) \in Nat /\ wakeTime \in Nat
  BY WakeAtType DEF TypeInv, TypeOK
<1>2. wake' = [wake EXCEPT ![t] = WakeAt(t, immediately)]
  BY DEF Start, Restart
<1>3. update' <=> \/ update \/ AddNotifies(WakeAt(t, immediately))
                  \/ Restart(t, immediately) /\ RemoveNotifies(active, t)
  <2>1. CASE Start(t, immediately)
    <3>1. AddNotifies(WakeAt(t, immediately)) \in BOOLEAN
      BY DEF AddNotifies
    <3>2. ~started[t] /\ WakePool(AddNotifies(WakeAt(t, immediately)))
      BY <2>1 DEF Start
    <3>3. update' <=> update \/ AddNotifies(WakeAt(t, immediately))
      BY <3>1, <3>2, WakePoolType
    <3> QED BY <3>2, <3>3 DEF Restart
  <2>2. CASE Restart(t, immediately)
    <3>1. (RemoveNotifies(active, t) \/ AddNotifies(WakeAt(t, immediately))) \in BOOLEAN
      BY DEF AddNotifies, RemoveNotifies
    <3>2. WakePool(RemoveNotifies(active, t) \/ AddNotifies(WakeAt(t, immediately)))
      BY <2>2 DEF Restart
    <3>3. update' <=> update \/ RemoveNotifies(active, t) \/ AddNotifies(WakeAt(t, immediately))
      BY <3>1, <3>2, WakePoolType
    <3> QED BY <2>2, <3>3
  <2> QED BY <2>1, <2>2
<1>4. ~update' => ~update /\ wakeTime <= WakeAt(t, immediately)
  BY <1>1, <1>3 DEF AddNotifies
<1> QED BY <1>1, <1>2, <1>4

(* A list made of entries of another and of entries of t is bounded if the *)
(* other one and t are.                                                    *)
LEMMA BoundedFrom ==
  ASSUME TypeInv, NEW list \in Seq(Timers), NEW q \in Seq(Timers), NEW t \in Timers,
         Bounded(list), NEW n \in Nat, wakeTime <= n,
         wakeTime' = wakeTime, wake' = [wake EXCEPT ![t] = n],
         \A i \in DOMAIN q : q[i] = t \/ \E j \in DOMAIN list : q[i] = list[j]
  PROVE  \A i \in DOMAIN q : wakeTime' <= wake'[q[i]]
<1>1. \A i \in DOMAIN q : q[i] \in Timers
  OBVIOUS
<1>2. wake \in [Timers -> Nat]
  BY DEF TypeInv, TypeOK
<1> QED BY <1>1, <1>2 DEF Bounded

(* The list after computeNextWakeupTimepoint is bounded by its first entry. *)
LEMMA BoundedSort ==
  ASSUME TypeInv, NEW list \in Seq(Timers), NEW w \in [Timers -> Nat],
         ComputeNextWakeupTimepoint(list, w), wake' = w
  PROVE  \A i \in DOMAIN active' : wakeTime' <= wake'[active'[i]]
<1>1. CASE list = <<>>
  <2>1. active' = <<>>
    BY <1>1, ComputeType
  <2> QED BY <2>1
<1>2. CASE list # <<>>
  <2>1. active' = SortedBy(list, w) /\ wakeTime' = w[Head(active')]
    BY <1>2, ComputeType
  <2> QED BY <1>2, <2>1, SortFacts
<1> QED BY <1>1, <1>2

(* BoundInv is preserved by every step.                                    *)
LEMMA BoundStep ==
  ASSUME WakeInv, [Next]_vars
  PROVE  BoundInv'
<1>0. TypeInv /\ TypeInv' /\ BoundInv
  BY TypeStep DEF WakeInv
<1>a. /\ active \in Seq(Timers) /\ cbOp.snap \in Seq(Timers) /\ all \in Seq(Timers)
      /\ wake \in [Timers -> Nat] /\ wakeTime \in Nat
  BY <1>0 DEF TypeInv, TypeOK
<1>b. NoOp.snap = <<>> /\ NoOp.kind = "none"
  BY DEF NoOp
<1>1. ASSUME NEW t \in Timers, NEW immediately \in BOOLEAN,
             Start(t, immediately) \/ Restart(t, immediately)
      PROVE  BoundInv'
  <2>1. PICK n \in Nat : /\ wake' = [wake EXCEPT ![t] = n]
                         /\ ~update' => ~update /\ wakeTime <= n
    BY <1>0, <1>1, StartEffect
  <2>2. /\ wakeTime' = wakeTime /\ cbOp' = cbOp
        /\ active' = Append(active, t) \/ active' = Append(Without(active, {t}), t)
    BY <1>1 DEF Start, Restart
  <2>3. active' \in Seq(Timers)
    BY <1>0 DEF TypeInv, TypeOK
  <2>4. \A i \in DOMAIN active' : active'[i] = t \/ \E j \in DOMAIN active : active'[i] = active[j]
    <3>1. CASE active' = Append(active, t)
      BY <1>a, <3>1, AppendFacts
    <3>2. CASE active' = Append(Without(active, {t}), t)
      <4>1. PICK q : q = Without(active, {t})
        OBVIOUS
      <4>2. /\ q \in Seq(Timers)
            /\ \A i \in DOMAIN q : \E j \in DOMAIN active : q[i] = active[j]
        <5>1. Reduced(q, active, t)
          BY <1>a, <4>1, RemoveFacts
        <5> QED BY <5>1 DEF Reduced
      <4>3. \A i \in DOMAIN active' : active'[i] = t \/ \E j \in DOMAIN q : active'[i] = q[j]
        BY <3>2, <4>1, <4>2, AppendFacts
      <4> QED BY <4>2, <4>3
    <3> QED BY <2>2, <3>1, <3>2
  <2>5. ASSUME ~update' PROVE Bounded(active)'
    BY <1>0, <1>a, <2>1, <2>2, <2>3, <2>4, <2>5, BoundedFrom DEF BoundInv, Bounded
  <2>6. ASSUME ~update' PROVE Bounded(cbOp.snap)'
    BY <1>0, <1>a, <2>1, <2>2, <2>6 DEF BoundInv, Bounded
  <2>7. ASSUME ~update', cbOp.kind \in {"add", "move"} PROVE (wakeTime <= wake[cbOp.t])'
    <3>1. cbOp.t \in Timers
      BY <1>0, <1>b, <2>7 DEF TypeInv, OpInv
    <3> QED BY <1>0, <1>a, <2>1, <2>2, <2>7, <3>1 DEF BoundInv
  <2> QED BY <2>2, <2>5, <2>6, <2>7 DEF BoundInv
<1>2. ASSUME NEW t \in Timers, StopSection(t), UNCHANGED <<wake, wakeTime, cbOp>> PROVE BoundInv'
  <2>1. ~update' => ~update
    BY <1>2 DEF StopSection, WakePool
  <2>2. \A i \in DOMAIN active' : \E j \in DOMAIN active : active'[i] = active[j]
    <3>1. active' = active \/ active' = Without(active, {t})
      BY <1>2 DEF StopSection
    <3>2. Reduced(Without(active, {t}), active, t)
      BY <1>a, RemoveFacts
    <3>3. active' = active \/ Reduced(active', active, t)
      BY <3>1, <3>2
    <3> QED BY <3>3 DEF Reduced
  <2> QED BY <1>0, <1>2, <2>1, <2>2 DEF BoundInv, Bounded
<1>3. ASSUME NEW t \in Timers, NEW immediately \in BOOLEAN,
             NEW kind \in {"add", "move", "remove"}, CallbackBegin(t, kind, immediately)
      PROVE  BoundInv'
  <2>1. PICK n \in Nat : n = WakeAt(t, immediately)
    BY <1>0, WakeAtType
  <2>2. /\ cbOp = NoOp
        /\ cbOp' = [t |-> t, kind |-> kind, snap |-> active]
        /\ wake' = IF kind = "remove" THEN wake ELSE [wake EXCEPT ![t] = n]
        /\ ~update' => ~update /\ (kind = "remove" \/ ~(n < wakeTime))
        /\ UNCHANGED <<active, wakeTime>>
    BY <1>3, <2>1 DEF CallbackBegin, AddNotifies
  <2>3. ASSUME ~update' PROVE Bounded(active)'
    BY <1>0, <1>a, <2>2, <2>3 DEF BoundInv, Bounded
  <2>4. cbOp'.snap = active' /\ cbOp'.t = t /\ cbOp'.kind = kind
    BY <2>2
  <2>5. ASSUME ~update', kind # "remove" PROVE wakeTime' <= wake'[t]
    BY <1>a, <2>2, <2>5
  <2> QED BY <2>3, <2>4, <2>5 DEF BoundInv, Bounded
<1>4. CASE StopAllOne
  <2>1. Head(all) \in Timers
    BY <1>4, <1>a DEF StopAllOne
  <2> QED BY <1>2, <1>4, <2>1 DEF StopAllOne
<1>5. CASE StopAllClear
  BY <1>5 DEF StopAllClear, BoundInv
<1>6. CASE PoolUpdate
  <2>1. cbOp' = cbOp /\ cbOp = NoOp
    BY <1>0, <1>6 DEF PoolUpdate, TypeInv, OpInv, threadVars
  <2>2. \A i \in DOMAIN active' : wakeTime' <= wake'[active'[i]]
    BY <1>0, <1>6, <1>a, BoundedSort DEF PoolUpdate
  <2> QED BY <1>b, <2>1, <2>2 DEF BoundInv, Bounded
<1>7. CASE PoolFire
  <2> DEFINE t    == Head(active)
             w    == [wake EXCEPT ![t] = IF SingleShot[t] THEN @ ELSE @ + Interval[t]]
             list == IF SingleShot[t] THEN Tail(active) ELSE active
  <2>1. list \in Seq(Timers)
    BY <1>7, <1>a DEF PoolFire
  <2>2. ComputeNextWakeupTimepoint(list, w) /\ wake' = w
    BY <1>7 DEF PoolFire
  <2>3. w \in [Timers -> Nat]
    BY <1>0, <2>2 DEF TypeInv, TypeOK
  <2>4. cbOp' = cbOp /\ cbOp = NoOp
    BY <1>0, <1>7 DEF PoolFire, TypeInv, OpInv
  <2> HIDE DEF t, w, list
  <2>5. \A i \in DOMAIN active' : wakeTime' <= wake'[active'[i]]
    BY <1>0, <2>1, <2>2, <2>3, BoundedSort
  <2> QED BY <1>b, <2>4, <2>5 DEF BoundInv, Bounded
<1>8. CASE CallbackEnd
  <2>1. cbOp' = NoOp /\ UNCHANGED <<wake, wakeTime, update>>
    BY <1>8 DEF CallbackEnd
  <2>2. PICK list \in {active, cbOp.snap} :
              /\ list \in Seq(Timers)
              /\ \/ cbOp.kind = "add" /\ active' = Append(list, cbOp.t)
                 \/ cbOp.kind = "move" /\ active' = Append(Without(list, {cbOp.t}), cbOp.t)
                 \/ cbOp.kind = "remove" /\ active' = Without(list, {cbOp.t})
    BY <1>0, <1>8, EndList
  <2>3. cbOp.t \in Timers
    BY <1>0, <1>8, EndList
  <2>4. PICK q : q = Without(list, {cbOp.t})
    OBVIOUS
  <2>5. q \in Seq(Timers) /\ \A i \in DOMAIN q : \E j \in DOMAIN list : q[i] = list[j]
    <3>1. Reduced(q, list, cbOp.t)
      BY <2>2, <2>4, RemoveFacts
    <3> QED BY <3>1 DEF Reduced
  <2>6. \A i \in DOMAIN active' : \/ \E j \in DOMAIN list : active'[i] = list[j]
                                  \/ cbOp.kind \in {"add", "move"} /\ active'[i] = cbOp.t
    <3>1. CASE cbOp.kind = "add" /\ active' = Append(list, cbOp.t)
      BY <2>2, <2>3, <3>1, AppendFacts
    <3>2. CASE cbOp.kind = "move" /\ active' = Append(q, cbOp.t)
      BY <2>3, <2>5, <3>2, AppendFacts
    <3>3. CASE active' = q
      BY <2>5, <3>3
    <3> QED BY <2>2, <2>4, <3>1, <3>2, <3>3
  <2>7. ASSUME ~update' PROVE \A i \in DOMAIN active' : wakeTime' <= wake'[active'[i]]
    BY <1>0, <2>1, <2>2, <2>6, <2>7 DEF BoundInv, Bounded
  <2> QED BY <1>b, <2>1, <2>7 DEF BoundInv, Bounded
<1>9. ASSUME NEW t \in Timers, Stop(t) PROVE BoundInv'
  BY <1>2, <1>9 DEF Stop
<1>10. CASE \/ StopAllCopy \/ Destroy \/ Tick \/ PoolExit \/ PoolBlock \/ PoolSleep
            \/ PoolTimeoutLate \/ PoolFireNothing \/ CallbackReturn \/ UNCHANGED vars
  <2>1. UNCHANGED <<active, wake, wakeTime, update, cbOp>>
    BY <1>10 DEF StopAllCopy, Destroy, Tick, PoolExit, PoolBlock, PoolSleep, PoolTimeoutLate,
                 PoolFireNothing, CallbackReturn, vars, threadVars
  <2> QED BY <1>0, <2>1 DEF BoundInv, Bounded
<1> QED
  BY <1>1, <1>3, <1>4, <1>5, <1>6, <1>7, <1>8, <1>9, <1>10 DEF Next, PoolThread

(* Unless it is told to look again, the pool thread waits for no time that *)
(* is later than that of an active timer, although callbacks change the    *)
(* list and the timers without the mutex.                                  *)
THEOREM WakeCorrect == Spec => []WakeBound
<1>1. Init => WakeInv
  BY TypeInit DEF Init, WakeInv, BoundInv, Bounded, NoOp
<1>2. WakeInv /\ [Next]_vars => WakeInv'
  BY TypeStep, BoundStep DEF WakeInv
<1>3. WakeInv => WakeBound
  BY DEF WakeInv, BoundInv, Bounded, WakeBound, Range
<1> QED BY <1>1, <1>2, <1>3, PTL DEF Spec

-----------------------------------------------------------------------------
(* A timer is in the list exactly while it is started.                     *)

EntryInv == TypeInv /\ AgreeInv

(* Sorting keeps the number of entries of a timer.                         *)
LEMMA SortKeeps ==
  ASSUME TypeInv, NEW list \in Seq(Timers), NEW w \in [Timers -> Nat],
         ComputeNextWakeupTimepoint(list, w)
  PROVE  /\ \A s : Once(list, s) => Once(active', s)
         /\ \A s : Never(list, s) => Never(active', s)
<1>1. active' = SortedBy(list, w)
  BY ComputeType
<1> QED BY <1>1, SortFacts

(* A timer that is in a list fits in only if it is started.                *)
LEMMA InListStarted ==
  ASSUME NEW list, NEW t, NEW i \in DOMAIN list, list[i] = t, Fits(list, t)
  PROVE  started[t] /\ Once(list, t)
BY DEF Fits, Never

(* What AgreeInv says of one timer that no race has touched.               *)
Settled(t) ==
  /\ Fits(active, t)
  /\ cbOp # NoOp => Fits(cbOp.snap, t)
  /\ allOn /\ started[t] => \E i \in DOMAIN all : all[i] = t

(* Entries of t are added, and the entries of no other timer change.       *)
LEMMA OthersFit ==
  ASSUME NEW list \in Seq(Timers), NEW q, NEW t \in Timers, NEW s, s # t, Fits(list, s),
         \/ q = list
         \/ q = Append(list, t)
         \/ q = Without(list, {t})
         \/ q = Append(Without(list, {t}), t)
  PROVE  IF started[s] THEN Once(q, s) ELSE Never(q, s)
<1>1. PICK r : r = Without(list, {t})
  OBVIOUS
<1>2. Reduced(r, list, t)
  BY <1>1, RemoveFacts
<1>3. r \in Seq(Timers) /\ (Once(list, s) => Once(r, s)) /\ (Never(list, s) => Never(r, s))
  BY <1>2 DEF Reduced
<1>4. /\ Once(list, s) => Once(Append(list, t), s)
      /\ Never(list, s) => Never(Append(list, t), s)
  BY AppendFacts
<1>5. /\ Once(r, s) => Once(Append(r, t), s)
      /\ Never(r, s) => Never(Append(r, t), s)
  BY <1>3, AppendFacts
<1> QED BY <1>1, <1>3, <1>4, <1>5 DEF Fits

(* The entries of t itself.                                                *)
LEMMA OwnEntries ==
  ASSUME NEW list \in Seq(Timers), NEW t \in Timers
  PROVE  /\ Never(Without(list, {t}), t)
         /\ Once(Append(Without(list, {t}), t), t)
         /\ Never(list, t) => Once(Append(list, t), t)
<1>1. PICK r : r = Without(list, {t})
  OBVIOUS
<1>2. Reduced(r, list, t)
  BY <1>1, RemoveFacts
<1>3. r \in Seq(Timers) /\ Never(r, t)
  BY <1>2 DEF Reduced
<1>4. Once(Append(r, t), t)
  BY <1>3, AppendFacts
<1>5. Never(list, t) => Once(Append(list, t), t)
  BY AppendFacts
<1> QED BY <1>1, <1>3, <1>4, <1>5

(* A list to which t is added or from which it is taken still has no entry *)
(* of a timer that had none.                                               *)
LEMMA OthersNever ==
  ASSUME NEW list \in Seq(Timers), NEW q, NEW t \in Timers, NEW s, s # t, Never(list, s),
         \/ q = list
         \/ q = Append(list, t)
         \/ q = Without(list, {t})
         \/ q = Append(Without(list, {t}), t)
  PROVE  Never(q, s)
<1>1. PICK r : r = Without(list, {t})
  OBVIOUS
<1>2. Reduced(r, list, t)
  BY <1>1, RemoveFacts
<1>3. r \in Seq(Timers) /\ Never(r, s)
  BY <1>2 DEF Reduced
<1>4. Never(Append(list, t), s)
  BY AppendFacts
<1>5. Never(Append(r, t), s)
  BY <1>3, AppendFacts
<1> QED BY <1>1, <1>3, <1>4, <1>5

(* A change of one timer by another thread preserves AgreeInv if that      *)
(* timer either fits afterwards or is recorded as raced, as it must be     *)
(* while a callback has the list in hand.                                  *)
LEMMA ChangeAgrees ==
  ASSUME EntryInv, NEW t \in Timers, UNCHANGED <<cbOp, allOn>>,
         \/ active' = active
         \/ active' = Append(active, t)
         \/ active' = Without(active, {t})
         \/ active' = Append(Without(active, {t}), t),
         \A s \in Timers : s # t => started'[s] = started[s],
         raced \ {t} \subseteq raced',
         cbOp # NoOp => t \in raced',
         \A s \in Timers : s # t /\ (\E i \in DOMAIN all : all[i] = s) =>
                             \E i \in DOMAIN all' : all'[i] = s,
         t \notin raced' => /\ Fits(active, t)'
                            /\ allOn /\ started'[t] => \E i \in DOMAIN all' : all'[i] = t
  PROVE  AgreeInv'
<1>1. active \in Seq(Timers)
  BY DEF EntryInv, TypeInv, TypeOK
<1>2. ASSUME NEW s \in Timers \ (raced' \cup {cbOp.t}), s # t PROVE Settled(s)'
  <2>1. Settled(s)
    BY <1>2 DEF EntryInv, AgreeInv, Settled
  <2>2. IF started[s] THEN Once(active', s) ELSE Never(active', s)
    BY <1>1, <1>2, <2>1, OthersFit DEF Settled
  <2>3. started'[s] = started[s]
    BY <1>2
  <2>4. Fits(active, s)'
    BY <2>2, <2>3 DEF Fits
  <2>5. cbOp # NoOp => Fits(cbOp.snap, s)'
    BY <2>1, <2>3 DEF Settled, Fits
  <2>6. allOn /\ started[s] => \E i \in DOMAIN all' : all'[i] = s
    BY <1>2, <2>1 DEF Settled
  <2> QED BY <2>3, <2>4, <2>5, <2>6 DEF Settled
<1>3. ASSUME t \notin raced' PROVE Settled(t)'
  BY <1>3 DEF Settled
<1>4. ASSUME cbOp.kind = "add", cbOp.t \notin raced'
      PROVE  Never(active, cbOp.t)' /\ Never(cbOp.snap, cbOp.t)'
  <2>1. cbOp # NoOp
    BY <1>4 DEF NoOp
  <2>2. cbOp.t # t /\ cbOp.t \notin raced
    BY <1>4, <2>1
  <2>3. Never(active, cbOp.t) /\ Never(cbOp.snap, cbOp.t)
    BY <1>4, <2>2 DEF EntryInv, AgreeInv
  <2>4. Never(active', cbOp.t)
    <3>1. PICK s : s = cbOp.t
      OBVIOUS
    <3>2. s # t /\ Never(active, s)
      BY <2>2, <2>3, <3>1
    <3>3. Never(active', s)
      BY <1>1, <3>2, OthersNever
    <3> QED BY <3>1, <3>3
  <2> QED BY <2>3, <2>4 DEF Never
<1> QED BY <1>2, <1>3, <1>4 DEF AgreeInv, Settled

(* AgreeInv is preserved by every step.                                    *)
LEMMA AgreeStep ==
  ASSUME EntryInv, [Next]_vars
  PROVE  AgreeInv'
<1>0. TypeInv /\ TypeInv' /\ AgreeInv
  BY TypeStep DEF EntryInv
<1>a. /\ active \in Seq(Timers) /\ cbOp.snap \in Seq(Timers) /\ all \in Seq(Timers)
      /\ wake \in [Timers -> Nat] /\ started \in [Timers -> BOOLEAN] /\ raced \subseteq Timers
  BY <1>0 DEF TypeInv, TypeOK
<1>b. NoOp.snap = <<>> /\ NoOp.kind = "none" /\ NoOp.t \notin Timers
  BY TimerPoolAssumption DEF NoOp
<1>c. \A s \in Timers \ (raced \cup {cbOp.t}) : Settled(s)
  BY <1>0 DEF AgreeInv, Settled
<1>1. ASSUME NEW t \in Timers, NEW immediately \in BOOLEAN, Start(t, immediately)
      PROVE  AgreeInv'
  <2>1. /\ UNCHANGED <<cbOp, allOn, all>> /\ active' = Append(active, t) /\ ~started[t]
        /\ started' = [started EXCEPT ![t] = TRUE] /\ Race(t, FALSE)
    BY <1>1 DEF Start
  <2>2. raced \subseteq raced' /\ (cbOp # NoOp \/ allOn => t \in raced')
    BY <1>0, <2>1, RaceType
  <2>3. ASSUME t \notin raced' PROVE Fits(active, t)' /\ ~allOn
    <3>1. Settled(t) /\ ~allOn
      BY <1>b, <1>c, <2>2, <2>3
    <3>2. Never(active, t)
      BY <2>1, <3>1 DEF Settled, Fits
    <3>3. Once(active', t) /\ started'[t]
      BY <1>a, <2>1, <3>2, OwnEntries
    <3> QED BY <3>1, <3>3 DEF Fits
  <2>4. /\ \A s \in Timers : s # t => started'[s] = started[s]
        /\ \A s \in Timers : s # t /\ (\E i \in DOMAIN all : all[i] = s) =>
                             \E i \in DOMAIN all' : all'[i] = s
    BY <1>a, <2>1
  <2> QED BY <2>1, <2>2, <2>3, <2>4, ChangeAgrees
<1>2. ASSUME NEW t \in Timers, NEW immediately \in BOOLEAN, Restart(t, immediately)
      PROVE  AgreeInv'
  <2>1. /\ UNCHANGED <<cbOp, allOn, all, started>> /\ started[t]
        /\ active' = Append(Without(active, {t}), t) /\ Race(t, TRUE)
    BY <1>2 DEF Restart
  <2>2. raced \ {t} \subseteq raced' /\ (cbOp # NoOp \/ allOn => t \in raced')
    BY <1>0, <2>1, RaceType
  <2>3. ASSUME t \notin raced' PROVE Fits(active, t)' /\ ~allOn
    <3>1. Once(active', t)
      BY <1>a, <2>1, OwnEntries
    <3> QED BY <2>1, <2>2, <2>3, <3>1 DEF Fits
  <2>4. \A s \in Timers : s # t /\ (\E i \in DOMAIN all : all[i] = s) =>
                             \E i \in DOMAIN all' : all'[i] = s
    BY <2>1
  <2> QED BY <2>1, <2>2, <2>3, <2>4, ChangeAgrees
<1>3. ASSUME NEW t \in Timers, Stop(t) PROVE AgreeInv'
  <2>1. /\ UNCHANGED <<cbOp, allOn, all>> /\ started[t]
        /\ started' = [started EXCEPT ![t] = FALSE]
        /\ active' = Without(active, {t}) /\ Race(t, TRUE)
    BY <1>3 DEF Stop, StopSection
  <2>2. raced \ {t} \subseteq raced' /\ (cbOp # NoOp \/ allOn => t \in raced')
    BY <1>0, <2>1, RaceType
  <2>3. ~started'[t] /\ Fits(active, t)'
    <3>1. Never(active', t) /\ ~started'[t]
      BY <1>a, <2>1, OwnEntries
    <3> QED BY <3>1 DEF Fits
  <2>4. /\ \A s \in Timers : s # t => started'[s] = started[s]
        /\ \A s \in Timers : s # t /\ (\E i \in DOMAIN all : all[i] = s) =>
                             \E i \in DOMAIN all' : all'[i] = s
    BY <1>a, <2>1
  <2> QED BY <2>1, <2>2, <2>3, <2>4, ChangeAgrees
<1>4. CASE StopAllOne
  <2>1. PICK t \in Timers : t = Head(all)
    BY <1>4, <1>a DEF StopAllOne
  <2>2. /\ UNCHANGED <<cbOp, allOn>> /\ all # <<>> /\ all' = Tail(all)
        /\ started' = [started EXCEPT ![t] = FALSE]
        /\ active' = IF started[t] THEN Without(active, {t}) ELSE active
        /\ raced' = IF cbOp # NoOp THEN raced \cup {t} ELSE raced
    BY <1>4, <2>1 DEF StopAllOne, StopSection
  <2>3. ASSUME t \notin raced' PROVE Fits(active, t)' /\ ~started'[t]
    <3>1. Settled(t)
      BY <1>b, <1>c, <2>2, <2>3
    <3>2. Never(active', t) /\ ~started'[t]
      BY <1>a, <2>2, <3>1, OwnEntries DEF Settled, Fits
    <3> QED BY <3>2 DEF Fits
  <2>4. \A s \in Timers : s # t => started'[s] = started[s]
    BY <1>a, <2>2
  <2>5. ASSUME NEW s \in Timers, s # t, NEW i \in DOMAIN all, all[i] = s
        PROVE  \E j \in DOMAIN all' : all'[j] = s
    <3>1. i # 1 /\ i - 1 \in DOMAIN all'
      BY <1>a, <2>1, <2>2, <2>5
    <3>2. all'[i - 1] = s
      BY <1>a, <2>2, <2>5, <3>1
    <3> QED BY <3>1, <3>2
  <2>6. \A s \in Timers : s # t /\ (\E i \in DOMAIN all : all[i] = s) =>
                             \E i \in DOMAIN all' : all'[i] = s
    BY <2>5
  <2>7. \/ active' = active
        \/ active' = Without(active, {t})
    BY <2>2
  <2> QED BY <2>2, <2>3, <2>4, <2>6, <2>7, ChangeAgrees
<1>5. CASE StopAllClear
  <2>1. /\ UNCHANGED <<cbOp, started>> /\ all = <<>> /\ allOn /\ ~allOn'
        /\ raced' = IF cbOp # NoOp THEN Timers ELSE raced
        /\ ComputeNextWakeupTimepoint(<<>>, wake)
    BY <1>5 DEF StopAllClear
  <2>2. active' = <<>>
    <3>1. <<>> \in Seq(Timers)
      OBVIOUS
    <3> QED BY <1>0, <1>a, <2>1, <3>1, ComputeType
  <2>3. CASE cbOp # NoOp
    <3>1. raced' = Timers /\ cbOp.t \in Timers
      BY <1>0, <2>1, <2>3 DEF TypeInv, OpInv
    <3> QED BY <2>1, <3>1 DEF AgreeInv
  <2>4. CASE cbOp = NoOp
    <3>1. ASSUME NEW s \in Timers \ raced PROVE ~started[s]
      <4>1. Settled(s)
        BY <1>b, <1>c, <2>4, <3>1
      <4> QED BY <2>1, <4>1 DEF Settled
    <3>2. \A s : Never(active', s)
      BY <2>2 DEF Never
    <3>3. \A s \in Timers \ raced : Fits(active, s)'
      BY <2>1, <3>1, <3>2 DEF Fits
    <3> QED BY <1>b, <2>1, <2>4, <3>3 DEF AgreeInv
  <2> QED BY <2>3, <2>4
<1>6. CASE StopAllCopy
  <2>1. UNCHANGED <<cbOp, started, active, raced>> /\ all' = active
    BY <1>6 DEF StopAllCopy, threadVars
  <2>2. ASSUME NEW s \in Timers \ (raced \cup {cbOp.t}) PROVE Settled(s)'
    <3>1. Settled(s)
      BY <1>c, <2>2
    <3>2. started[s] => \E i \in DOMAIN active : active[i] = s
      BY <3>1 DEF Settled, Fits, Once
    <3> QED BY <2>1, <3>1, <3>2 DEF Settled, Fits
  <2> QED BY <1>0, <2>1, <2>2 DEF AgreeInv, Settled, Never
<1>7. ASSUME NEW t \in Timers, NEW immediately \in BOOLEAN,
             NEW kind \in {"add", "move", "remove"}, CallbackBegin(t, kind, immediately)
      PROVE  AgreeInv'
  <2>1. /\ cbOp = NoOp /\ cbOp' = [t |-> t, kind |-> kind, snap |-> active]
        /\ UNCHANGED <<active, started, all, allOn>>
        /\ kind = "add" => ~started[t]
        /\ Race(t, kind # "add")
    BY <1>7 DEF CallbackBegin
  <2>2. /\ raced \ {t} \subseteq raced'
        /\ kind = "add" => raced \subseteq raced'
    <3>1. (kind # "add") \in BOOLEAN
      OBVIOUS
    <3> QED BY <1>0, <2>1, <3>1, RaceType
  <2>3. cbOp'.snap = active' /\ cbOp'.t = t /\ cbOp'.kind = kind
    BY <2>1
  <2>4. ASSUME NEW s \in Timers \ (raced' \cup {t}) PROVE Settled(s)'
    <3>1. Settled(s)
      BY <1>b, <1>c, <2>1, <2>2, <2>4
    <3>2. Fits(active, s)'
      BY <2>1, <3>1 DEF Settled, Fits
    <3> QED BY <2>1, <2>3, <3>1, <3>2 DEF Settled, Fits
  <2>5. ASSUME kind = "add", t \notin raced' PROVE Never(active', t)
    <3>1. Settled(t)
      BY <1>b, <1>c, <2>1, <2>2, <2>5
    <3> QED BY <2>1, <2>5, <3>1 DEF Settled, Fits
  <2>6. cbOp'.kind = "add" /\ cbOp'.t \notin raced' =>
          Never(active', cbOp'.t) /\ Never(cbOp'.snap, cbOp'.t)
    BY <2>3, <2>5
  <2>7. \A s \in Timers \ (raced' \cup {cbOp'.t}) : Settled(s)'
    BY <2>3, <2>4
  <2> QED BY <2>6, <2>7 DEF AgreeInv, Settled, Never
<1>8. CASE CallbackEnd
  <2>1. /\ cbOp # NoOp /\ cbOp' = NoOp /\ UNCHANGED <<all, allOn>>
        /\ started' = [started EXCEPT ![cbOp.t] = cbOp.kind # "remove"]
        /\ raced' = IF allOn THEN raced \cup {cbOp.t} ELSE raced
    BY <1>8 DEF CallbackEnd, allVars
  <2>2. PICK list \in {active, cbOp.snap} :
              /\ list \in Seq(Timers)
              /\ \/ cbOp.kind = "add" /\ active' = Append(list, cbOp.t)
                 \/ cbOp.kind = "move" /\ active' = Append(Without(list, {cbOp.t}), cbOp.t)
                 \/ cbOp.kind = "remove" /\ active' = Without(list, {cbOp.t})
    BY <1>0, <1>8, EndList
  <2>3. cbOp.t \in Timers
    BY <1>0, <1>8, EndList
  <2>4. ASSUME NEW s \in Timers \ raced', s # cbOp.t PROVE Settled(s)'
    <3>1. Settled(s)
      BY <1>c, <2>1, <2>4
    <3>2. Fits(list, s)
      BY <2>1, <2>2, <3>1 DEF Settled
    <3>3. IF started[s] THEN Once(active', s) ELSE Never(active', s)
      BY <2>2, <2>3, <2>4, <3>2, OthersFit
    <3>4. started'[s] = started[s]
      BY <1>a, <2>1, <2>4
    <3> QED BY <2>1, <3>1, <3>3, <3>4 DEF Settled, Fits
  <2>5. ASSUME NEW t, t = cbOp.t, t \notin raced' PROVE Settled(t)'
    <3>1. ~allOn /\ cbOp.t \notin raced /\ started'[cbOp.t] = (cbOp.kind # "remove")
      BY <1>a, <2>1, <2>3, <2>5
    <3>2. cbOp.kind = "add" => Never(list, cbOp.t)
      BY <1>0, <2>2, <3>1 DEF AgreeInv
    <3>3. IF cbOp.kind # "remove" THEN Once(active', cbOp.t) ELSE Never(active', cbOp.t)
      BY <2>2, <2>3, <3>2, OwnEntries
    <3>4. IF started'[t] THEN Once(active', t) ELSE Never(active', t)
      BY <2>5, <3>1, <3>3
    <3> QED BY <2>1, <3>1, <3>4 DEF Settled, Fits
  <2>6. \A s \in Timers \ raced' : Settled(s)'
    BY <2>4, <2>5
  <2> QED BY <1>b, <2>1, <2>6 DEF AgreeInv, Settled
<1>9. CASE PoolUpdate
  <2>1. cbOp' = cbOp /\ cbOp = NoOp /\ UNCHANGED <<started, all, allOn, raced>>
    BY <1>0, <1>9 DEF PoolUpdate, TypeInv, OpInv, threadVars, allVars
  <2>2. /\ \A s : Once(active, s) => Once(active', s)
        /\ \A s : Never(active, s) => Never(active', s)
    BY <1>0, <1>9, <1>a, SortKeeps DEF PoolUpdate
  <2>3. ASSUME NEW s \in Timers \ raced PROVE Settled(s)'
    <3>1. Settled(s)
      BY <1>b, <1>c, <2>1, <2>3
    <3> QED BY <2>1, <2>2, <3>1 DEF Settled, Fits
  <2> QED BY <1>b, <2>1, <2>3 DEF AgreeInv, Settled
<1>10. CASE PoolFire
  <2> DEFINE t    == Head(active)
             w    == [wake EXCEPT ![t] = IF SingleShot[t] THEN @ ELSE @ + Interval[t]]
             list == IF SingleShot[t] THEN Tail(active) ELSE active
  <2>1. /\ list \in Seq(Timers) /\ t \in Timers /\ 1 \in DOMAIN active /\ active[1] = t
        /\ \A s : Never(active, s) => Never(list, s)
        /\ \A s : s # t /\ Once(active, s) => Once(list, s)
        /\ Once(active, t) => IF SingleShot[t] THEN Never(list, t) ELSE Once(list, t)
    <3>1. active # <<>>
      BY <1>10 DEF PoolFire
    <3> QED BY <1>a, <3>1, TailFacts
  <2>2. /\ ComputeNextWakeupTimepoint(list, w) /\ wake' = w
        /\ started' = [started EXCEPT ![t] = ~SingleShot[t]]
        /\ UNCHANGED <<cbOp, raced, all, allOn>>
    BY <1>10 DEF PoolFire, allVars
  <2>3. w \in [Timers -> Nat]
    BY <1>0, <2>2 DEF TypeInv, TypeOK
  <2>4. cbOp = NoOp
    BY <1>0, <1>10 DEF PoolFire, TypeInv, OpInv
  <2> HIDE DEF t, w, list
  <2>5. /\ \A s : Once(list, s) => Once(active', s)
        /\ \A s : Never(list, s) => Never(active', s)
    BY <1>0, <2>1, <2>2, <2>3, SortKeeps
  <2>6. ASSUME NEW s \in Timers \ raced PROVE Settled(s)'
    <3>1. Settled(s)
      BY <1>b, <1>c, <2>4, <2>6
    <3>2. CASE s # t
      <4>1. started'[s] = started[s]
        BY <1>a, <2>2, <3>2
      <4> QED BY <2>1, <2>2, <2>4, <2>5, <3>1, <3>2, <4>1 DEF Settled, Fits
    <3>3. CASE s = t
      <4>1. started[s] /\ Once(active, s)
        BY <2>1, <3>1, <3>3, InListStarted DEF Settled
      <4>2. started'[s] = ~SingleShot[s]
        BY <1>a, <2>1, <2>2, <3>3
      <4>3. IF SingleShot[s] THEN Never(active', s) ELSE Once(active', s)
        BY <2>1, <2>5, <3>3, <4>1
      <4>4. Fits(active, s)'
        BY <4>2, <4>3 DEF Fits
      <4> QED BY <2>2, <2>4, <3>1, <4>1, <4>4 DEF Settled
    <3> QED BY <3>2, <3>3
  <2> QED BY <1>b, <2>2, <2>4, <2>6 DEF AgreeInv, Settled
<1>11. CASE \/ Destroy \/ Tick \/ PoolExit \/ PoolBlock \/ PoolSleep
            \/ PoolTimeoutLate \/ PoolFireNothing \/ CallbackReturn \/ UNCHANGED vars
  <2>1. UNCHANGED <<active, started, all, allOn, raced, cbOp>>
    BY <1>11 DEF Destroy, Tick, PoolExit, PoolBlock, PoolSleep, PoolTimeoutLate,
                 PoolFireNothing, CallbackReturn, vars, threadVars, allVars
  <2> QED BY <1>0, <2>1 DEF AgreeInv, Fits, Never, Once
<1> QED
  BY <1>1, <1>2, <1>3, <1>4, <1>5, <1>6, <1>7, <1>8, <1>9, <1>10, <1>11 DEF Next, PoolThread

(* Except for timers that got into one of the two races, a timer is        *)
(* started exactly when it is in the list, and it is there once.           *)
THEOREM ListCorrect == Spec => []ListAgrees
<1>1. Init => EntryInv
  <2> SUFFICES ASSUME Init PROVE EntryInv
    OBVIOUS
  <2>1. active = <<>> /\ started = [t \in Timers |-> FALSE] /\ cbOp = NoOp /\ ~allOn
    BY DEF Init
  <2>2. \A t \in Timers : Fits(active, t)
    BY <2>1 DEF Fits, Never
  <2>3. NoOp.kind = "none"
    BY DEF NoOp
  <2> QED BY <2>1, <2>2, <2>3, TypeInit DEF EntryInv, AgreeInv
<1>2. EntryInv /\ [Next]_vars => EntryInv'
  BY TypeStep, AgreeStep DEF EntryInv
<1>3. EntryInv => ListAgrees
  <2> SUFFICES ASSUME EntryInv, NEW t \in Timers \ (raced \cup {cbOp.t})
               PROVE  Cardinality({i \in DOMAIN active : active[i] = t}) =
                        IF started[t] THEN 1 ELSE 0
    BY DEF ListAgrees
  <2>1. Fits(active, t)
    BY DEF EntryInv, AgreeInv
  <2>2. CASE started[t]
    <3>1. PICK i \in DOMAIN active : \A j \in DOMAIN active : active[j] = t <=> j = i
      BY <2>1, <2>2 DEF Fits, Once
    <3>2. {j \in DOMAIN active : active[j] = t} = {i}
      BY <3>1
    <3> QED BY <2>2, <3>2, FS_Singleton
  <2>3. CASE ~started[t]
    <3>1. {j \in DOMAIN active : active[j] = t} = {}
      BY <2>1, <2>3 DEF Fits, Never
    <3> QED BY <2>3, <3>1, FS_EmptySet
  <2> QED BY <2>2, <2>3
<1> QED BY <1>1, <1>2, <1>3, PTL DEF Spec

-----------------------------------------------------------------------------
(* Callbacks run in time.                                                  *)

DueInv == TypeInv /\ AgreeInv /\ HeadInv

(* A timer that is not started leads a list only after a race.             *)
LEMMA UnstartedHead ==
  ASSUME TypeInv, AgreeInv, NEW t \in Timers, ~started[t], t # cbOp.t,
         active # <<>>, Head(active) = t
  PROVE  t \in raced
<1>1. 1 \in DOMAIN active /\ active[1] = t
  BY TailFacts DEF TypeInv, TypeOK
<1>2. ASSUME t \notin raced PROVE FALSE
  <2>1. Fits(active, t)
    BY <1>2 DEF AgreeInv
  <2> QED BY <1>1, <2>1 DEF Fits, Never
<1> QED BY <1>2

(* A list that t is added to, or taken from without being its first entry, *)
(* has the same first entry.                                               *)
LEMMA SameHead ==
  ASSUME NEW list \in Seq(Timers), NEW q, NEW t \in Timers, list # <<>>,
         \/ q = list
         \/ q = Append(list, t)
         \/ Head(list) # t /\ (q = Without(list, {t}) \/ q = Append(Without(list, {t}), t))
  PROVE  q # <<>> /\ Head(q) = Head(list)
<1>1. PICK r : r = Without(list, {t})
  OBVIOUS
<1>2. Reduced(r, list, t)
  BY <1>1, RemoveFacts
<1>3. r \in Seq(Timers) /\ (Head(list) # t => r # <<>> /\ Head(r) = Head(list))
  BY <1>2 DEF Reduced
<1>4. Append(list, t) # <<>> /\ Head(Append(list, t)) = Head(list)
  BY AppendFacts
<1>5. r # <<>> => Append(r, t) # <<>> /\ Head(Append(r, t)) = Head(r)
  BY <1>3, AppendFacts
<1> QED BY <1>1, <1>3, <1>4, <1>5

(* A change of one timer by another thread preserves HeadInv: if the timer *)
(* leads the list the pool thread is told to look again, or the entry is   *)
(* left over from a race.                                                  *)
LEMMA ChangeHead ==
  ASSUME DueInv, NEW t \in Timers, UNCHANGED <<cbOp, idleArmed, wakeTime>>,
         ~update' => ~update,
         \/ active' = active
         \/ active' = Append(active, t)
         \/ active' = Without(active, {t})
         \/ active' = Append(Without(active, {t}), t),
         ~update' /\ active # <<>> /\ Head(active) = t =>
            (active' = active \/ active' = Append(active, t)) /\ (t \in raced' \/ (wake' = wake /\ raced' = raced)),
         \A s \in Timers : s # t => wake'[s] = wake[s],
         raced \ {t} \subseteq raced',
         cbOp # NoOp => t \in raced'
  PROVE  HeadInv'
<1> SUFFICES ASSUME ~update', ~idleArmed
             PROVE  /\ Leads(active)'
                    /\ cbOp # NoOp => Leads(cbOp.snap)'
                    /\ cbOp.kind \in {"move", "remove"} =>
                         Head(active') # cbOp.t /\ Head(cbOp.snap) # cbOp.t
  BY DEF HeadInv
<1>1. /\ Leads(active) /\ (cbOp # NoOp => Leads(cbOp.snap))
      /\ cbOp.kind \in {"move", "remove"} =>
           Head(active) # cbOp.t /\ Head(cbOp.snap) # cbOp.t
  BY DEF DueInv, HeadInv
<1>2. active \in Seq(Timers) /\ cbOp.snap \in Seq(Timers) /\ active # <<>>
  BY <1>1 DEF DueInv, TypeInv, TypeOK, Leads
<1>3. active' # <<>> /\ Head(active') = Head(active)
  <2>1. \/ active' = active
        \/ active' = Append(active, t)
        \/ Head(active) # t /\ (active' = Without(active, {t}) \/ active' = Append(Without(active, {t}), t))
    BY <1>2
  <2> QED BY <1>2, <2>1, SameHead
<1>4. PICK h \in Timers : h = Head(active)
  BY <1>2
<1>5. wake'[h] <= wakeTime' \/ h \in raced'
  <2>1. wake[h] <= wakeTime \/ h \in raced
    BY <1>1, <1>4 DEF Leads
  <2>2. CASE h = t
    BY <1>2, <1>4, <2>1, <2>2
  <2>3. CASE h # t
    BY <2>1, <2>3
  <2> QED BY <2>2, <2>3
<1>6. Leads(active)'
  BY <1>3, <1>4, <1>5 DEF Leads
<1>7. ASSUME cbOp # NoOp PROVE Leads(cbOp.snap)'
  <2>1. PICK g \in Timers : g = Head(cbOp.snap)
    BY <1>1, <1>2, <1>7 DEF Leads
  <2>2. wake[g] <= wakeTime \/ g \in raced
    BY <1>1, <1>7, <2>1 DEF Leads
  <2>3. wake'[g] <= wakeTime' \/ g \in raced'
    BY <1>7, <2>2
  <2> QED BY <1>1, <1>7, <2>1, <2>3 DEF Leads
<1> QED BY <1>1, <1>3, <1>6, <1>7

(* computeNextWakeupTimepoint lets the first timer lead.                   *)
LEMMA SortLeads ==
  ASSUME TypeInv, NEW list \in Seq(Timers), NEW w \in [Timers -> Nat],
         ComputeNextWakeupTimepoint(list, w), wake' = w, cbOp' = NoOp
  PROVE  HeadInv'
<1> SUFFICES ASSUME ~idleArmed' PROVE Leads(active)'
  BY DEF HeadInv, NoOp
<1>1. /\ active' # <<>> /\ Head(active') \in Timers /\ wakeTime' = w[Head(active')]
  BY ComputeType
<1>2. wake'[Head(active')] \in Nat /\ wake'[Head(active')] = wakeTime'
  BY <1>1
<1> QED BY <1>1, <1>2 DEF Leads

(* HeadInv is preserved by every step.                                     *)
LEMMA HeadStep ==
  ASSUME DueInv, [Next]_vars
  PROVE  HeadInv'
<1>0. TypeInv /\ TypeInv' /\ AgreeInv /\ HeadInv
  BY TypeStep DEF DueInv
<1>a. /\ active \in Seq(Timers) /\ cbOp.snap \in Seq(Timers) /\ all \in Seq(Timers)
      /\ wake \in [Timers -> Nat] /\ started \in [Timers -> BOOLEAN] /\ raced \subseteq Timers
  BY <1>0 DEF TypeInv, TypeOK
<1>b. NoOp.snap = <<>> /\ NoOp.kind = "none" /\ NoOp.t \notin Timers
  BY TimerPoolAssumption DEF NoOp
<1>1. ASSUME NEW t \in Timers, NEW immediately \in BOOLEAN, Start(t, immediately)
      PROVE  HeadInv'
  <2>1. /\ UNCHANGED <<cbOp, idleArmed, wakeTime>> /\ active' = Append(active, t) /\ ~started[t]
        /\ Race(t, FALSE) /\ (~update' => ~update)
        /\ wake' = [wake EXCEPT ![t] = WakeAt(t, immediately)]
    BY <1>1 DEF Start, WakePool
  <2>2. raced \subseteq raced' /\ (cbOp # NoOp \/ allOn => t \in raced')
    BY <1>0, <2>1, RaceType
  <2>3. ASSUME active # <<>>, Head(active) = t PROVE t \in raced'
    <3>1. CASE cbOp = NoOp
      BY <1>0, <1>b, <2>1, <2>2, <2>3, <3>1, UnstartedHead
    <3> QED BY <2>2, <3>1
  <2>4. \A s \in Timers : s # t => wake'[s] = wake[s]
    BY <1>a, <2>1
  <2>5. /\ ~update' /\ active # <<>> /\ Head(active) = t =>
              (active' = active \/ active' = Append(active, t)) /\ (t \in raced' \/ (wake' = wake /\ raced' = raced))
        /\ raced \ {t} \subseteq raced'
    BY <2>1, <2>2, <2>3
  <2> QED BY <2>1, <2>2, <2>4, <2>5, ChangeHead
<1>2. ASSUME NEW t \in Timers, NEW immediately \in BOOLEAN, Restart(t, immediately)
      PROVE  HeadInv'
  <2>1. /\ UNCHANGED <<cbOp, idleArmed, wakeTime>>
        /\ active' = Append(Without(active, {t}), t)
        /\ Race(t, TRUE) /\ (~update' => ~update /\ ~RemoveNotifies(active, t))
        /\ wake' = [wake EXCEPT ![t] = WakeAt(t, immediately)]
    BY <1>2 DEF Restart, WakePool
  <2>2. raced \ {t} \subseteq raced' /\ (cbOp # NoOp \/ allOn => t \in raced')
    BY <1>0, <2>1, RaceType
  <2>3. ~update' /\ active # <<>> => Head(active) # t
    BY <2>1 DEF RemoveNotifies
  <2>4. \A s \in Timers : s # t => wake'[s] = wake[s]
    BY <1>a, <2>1
  <2> QED BY <2>1, <2>2, <2>3, <2>4, ChangeHead
<1>3. ASSUME NEW t \in Timers, Stop(t) PROVE HeadInv'
  <2>1. /\ UNCHANGED <<cbOp, idleArmed, wakeTime, wake>>
        /\ active' = Without(active, {t})
        /\ Race(t, TRUE) /\ (~update' => ~update /\ ~RemoveNotifies(active, t))
    BY <1>3 DEF Stop, StopSection, WakePool
  <2>2. raced \ {t} \subseteq raced' /\ (cbOp # NoOp \/ allOn => t \in raced')
    BY <1>0, <2>1, RaceType
  <2>3. ~update' /\ active # <<>> => Head(active) # t
    BY <2>1 DEF RemoveNotifies
  <2>4. \A s \in Timers : s # t => wake'[s] = wake[s]
    BY <2>1
  <2> QED BY <2>1, <2>2, <2>3, <2>4, ChangeHead
<1>4. CASE StopAllOne
  <2>1. PICK t \in Timers : t = Head(all)
    BY <1>4, <1>a DEF StopAllOne
  <2>2. /\ UNCHANGED <<cbOp, idleArmed, wakeTime, wake>>
        /\ active' = IF started[t] THEN Without(active, {t}) ELSE active
        /\ raced' = IF cbOp # NoOp THEN raced \cup {t} ELSE raced
        /\ ~update' => ~update /\ ~(started[t] /\ RemoveNotifies(active, t))
    BY <1>4, <2>1 DEF StopAllOne, StopSection, WakePool
  <2>3. \/ active' = active
        \/ active' = Without(active, {t})
    BY <2>2
  <2>4. ~update' /\ active # <<>> /\ Head(active) = t =>
          active' = active /\ (t \in raced' \/ (wake' = wake /\ raced' = raced))
    <3>1. t \in raced' \/ raced' = raced
      BY <2>2
    <3>2. ~started[t] => active' = active
      BY <2>2
    <3>3. ~update' /\ active # <<>> /\ Head(active) = t => ~started[t]
      BY <2>2 DEF RemoveNotifies
    <3> QED BY <2>2, <3>1, <3>2, <3>3
  <2>5. /\ raced \ {t} \subseteq raced' /\ (cbOp # NoOp => t \in raced')
        /\ \A s \in Timers : s # t => wake'[s] = wake[s]
    BY <2>2
  <2> QED BY <2>2, <2>3, <2>4, <2>5, ChangeHead
<1>5. CASE StopAllClear
  BY <1>5 DEF StopAllClear, HeadInv
<1>6. ASSUME NEW t \in Timers, NEW immediately \in BOOLEAN,
             NEW kind \in {"add", "move", "remove"}, CallbackBegin(t, kind, immediately)
      PROVE  HeadInv'
  <2>1. /\ cbOp = NoOp /\ cbOp' = [t |-> t, kind |-> kind, snap |-> active]
        /\ UNCHANGED <<active, idleArmed, wakeTime>>
        /\ kind = "add" => ~started[t]
        /\ Race(t, kind # "add")
        /\ wake' = wake \/ wake' = [wake EXCEPT ![t] = WakeAt(t, immediately)]
        /\ ~update' => ~update /\ (kind # "add" => ~RemoveNotifies(active, t))
    BY <1>6 DEF CallbackBegin
  <2>2. /\ raced \ {t} \subseteq raced'
        /\ kind = "add" => raced \subseteq raced'
    <3>1. (kind # "add") \in BOOLEAN
      OBVIOUS
    <3> QED BY <1>0, <2>1, <3>1, RaceType
  <2>3. cbOp'.snap = active' /\ cbOp'.t = t /\ cbOp'.kind = kind
    BY <2>1
  <2>4. ASSUME ~update', ~idleArmed'
        PROVE  Leads(active)' /\ (kind # "add" => Head(active') # t)
    <3>1. Leads(active)
      BY <1>0, <2>1, <2>4 DEF HeadInv
    <3>2. PICK h \in Timers : h = Head(active)
      BY <1>a, <3>1 DEF Leads
    <3>3. wake[h] <= wakeTime \/ h \in raced
      BY <3>1, <3>2 DEF Leads
    <3>4. kind # "add" => h # t
      BY <2>1, <2>4, <3>1, <3>2 DEF RemoveNotifies, Leads
    <3>5. wake'[h] <= wakeTime' \/ h \in raced'
      <4>1. CASE h = t
        BY <1>0, <1>b, <2>1, <2>2, <3>1, <3>2, <3>4, <4>1, UnstartedHead DEF Leads
      <4>2. CASE h # t
        BY <1>a, <2>1, <2>2, <3>3, <4>2
      <4> QED BY <4>1, <4>2
    <3> QED BY <2>1, <3>1, <3>2, <3>4, <3>5 DEF Leads
  <2> QED BY <2>3, <2>4 DEF HeadInv, Leads
<1>7. CASE CallbackEnd
  <2>1. /\ cbOp # NoOp /\ cbOp' = NoOp /\ UNCHANGED <<update, idleArmed, wakeTime, wake>>
        /\ raced \subseteq raced'
    BY <1>7 DEF CallbackEnd
  <2>2. PICK list \in {active, cbOp.snap} :
              /\ list \in Seq(Timers)
              /\ \/ cbOp.kind = "add" /\ active' = Append(list, cbOp.t)
                 \/ cbOp.kind = "move" /\ active' = Append(Without(list, {cbOp.t}), cbOp.t)
                 \/ cbOp.kind = "remove" /\ active' = Without(list, {cbOp.t})
    BY <1>0, <1>7, EndList
  <2>3. cbOp.t \in Timers
    BY <1>0, <1>7, EndList
  <2>4. ASSUME ~update', ~idleArmed' PROVE Leads(active)'
    <3>1. Leads(list) /\ (cbOp.kind \in {"move", "remove"} => Head(list) # cbOp.t)
      BY <1>0, <2>1, <2>2, <2>4 DEF HeadInv
    <3>2. PICK t \in Timers : t = cbOp.t
      BY <2>3
    <3>3. \/ active' = Append(list, t)
          \/ Head(list) # t /\ (active' = Without(list, {t}) \/ active' = Append(Without(list, {t}), t))
      BY <2>2, <3>1, <3>2
    <3>4. active' # <<>> /\ Head(active') = Head(list)
      BY <2>2, <3>1, <3>3, SameHead DEF Leads
    <3> QED BY <2>1, <3>1, <3>4 DEF Leads
  <2> QED BY <1>b, <2>1, <2>4 DEF HeadInv
<1>8. CASE PoolUpdate
  <2>1. cbOp' = NoOp /\ wake' = wake
    BY <1>0, <1>8 DEF PoolUpdate, TypeInv, OpInv, threadVars
  <2> QED BY <1>0, <1>8, <1>a, <2>1, SortLeads DEF PoolUpdate
<1>9. CASE PoolFire
  <2> DEFINE t    == Head(active)
             w    == [wake EXCEPT ![t] = IF SingleShot[t] THEN @ ELSE @ + Interval[t]]
             list == IF SingleShot[t] THEN Tail(active) ELSE active
  <2>1. list \in Seq(Timers)
    BY <1>9, <1>a DEF PoolFire
  <2>2. ComputeNextWakeupTimepoint(list, w) /\ wake' = w
    BY <1>9 DEF PoolFire
  <2>3. w \in [Timers -> Nat]
    BY <1>0, <2>2 DEF TypeInv, TypeOK
  <2>4. cbOp' = NoOp
    BY <1>0, <1>9 DEF PoolFire, TypeInv, OpInv
  <2> HIDE DEF t, w, list
  <2> QED BY <1>0, <2>1, <2>2, <2>3, <2>4, SortLeads
<1>10. CASE \/ StopAllCopy \/ Destroy \/ Tick \/ PoolExit \/ PoolBlock \/ PoolSleep
            \/ PoolTimeoutLate \/ PoolFireNothing \/ CallbackReturn \/ UNCHANGED vars
  <2>1. UNCHANGED <<active, wake, wakeTime, update, idleArmed, raced, cbOp>>
    BY <1>10 DEF StopAllCopy, Destroy, Tick, PoolExit, PoolBlock, PoolSleep, PoolTimeoutLate,
                 PoolFireNothing, CallbackReturn, vars, threadVars
  <2> QED BY <1>0, <2>1 DEF HeadInv, Leads
<1> QED
  BY <1>1, <1>2, <1>3, <1>4, <1>5, <1>6, <1>7, <1>8, <1>9, <1>10 DEF Next, PoolThread

(* Only PoolFireNothing crashes the pool thread, and only PoolFire calls a *)
(* callback.                                                               *)
LEMMA FiringSteps ==
  ASSUME TypeInv, [Next]_vars
  PROVE  /\ pt' = "crashed" /\ pt # "crashed" => PoolFireNothing
         /\ pt = "asleep" /\ pt' = "callback" => PoolFire
<1>1. ASSUME NEW t \in Timers, NEW immediately \in BOOLEAN,
             \/ Start(t, immediately) \/ Restart(t, immediately) \/ Stop(t)
             \/ \E kind \in {"add", "move", "remove"} : CallbackBegin(t, kind, immediately)
      PROVE  pt' = pt \/ pt' = "top"
  BY <1>1 DEF Start, Restart, Stop, StopSection, CallbackBegin, WakePool, Notify
<1>2. ASSUME NEW t \in Timers, Stop(t) PROVE pt' = pt \/ pt' = "top"
  BY <1>2 DEF Stop, StopSection, WakePool, Notify
<1>3. CASE StopAllCopy \/ StopAllOne \/ StopAllClear \/ Destroy \/ Tick \/ UNCHANGED vars
  BY <1>3 DEF StopAllCopy, StopAllOne, StopSection, StopAllClear, WakePool, Notify, Destroy, Tick,
              vars, threadVars
<1>4. CASE PoolExit \/ PoolUpdate \/ PoolBlock \/ PoolSleep \/ PoolTimeoutLate \/ CallbackReturn
           \/ CallbackEnd
  BY <1>4 DEF PoolExit, PoolUpdate, PoolBlock, PoolSleep, PoolTimeoutLate, CallbackReturn,
              CallbackEnd, threadVars
<1>5. CASE PoolFire \/ PoolFireNothing
  BY <1>5 DEF PoolFire, PoolFireNothing
<1> QED BY <1>1, <1>2, <1>3, <1>4, <1>5 DEF Next, PoolThread

(* The pool thread takes the front of an empty list, or calls a callback   *)
(* too early, only at the end of an idle wait or after a race.             *)
THEOREM EarlyCorrect == Spec => EarlyOnlyAfterIdle
<1>1. Init => DueInv
  <2> SUFFICES ASSUME Init PROVE DueInv
    OBVIOUS
  <2>1. /\ active = <<>> /\ started = [t \in Timers |-> FALSE] /\ cbOp = NoOp /\ ~allOn
        /\ idleArmed
    BY DEF Init
  <2>2. \A t \in Timers : Fits(active, t)
    BY <2>1 DEF Fits, Never
  <2>3. NoOp.kind = "none"
    BY DEF NoOp
  <2> QED BY <2>1, <2>2, <2>3, TypeInit DEF DueInv, AgreeInv, HeadInv
<1>2. DueInv /\ [Next]_vars => DueInv'
  BY TypeStep, AgreeStep, HeadStep DEF DueInv, EntryInv
<1>3. DueInv /\ [Next]_vars =>
        [ /\ pt' = "crashed" /\ pt # "crashed" => idleArmed
          /\ pt = "asleep" /\ pt' = "callback" /\ now < wake[Head(active)]
               => idleArmed \/ Head(active) \in raced ]_vars
  <2> SUFFICES ASSUME DueInv, [Next]_vars
               PROVE  /\ pt' = "crashed" /\ pt # "crashed" => idleArmed
                      /\ pt = "asleep" /\ pt' = "callback" /\ now < wake[Head(active)]
                           => idleArmed \/ Head(active) \in raced
    OBVIOUS
  <2>1. ASSUME PoolFireNothing PROVE idleArmed
    BY <2>1 DEF PoolFireNothing, DueInv, HeadInv, Leads
  <2>2. ASSUME PoolFire, now < wake[Head(active)] PROVE idleArmed \/ Head(active) \in raced
    <3>1. ~update /\ now >= wakeTime /\ active # <<>>
      BY <2>2 DEF PoolFire
    <3>2. Head(active) \in Timers
      BY <3>1 DEF DueInv, TypeInv, TypeOK
    <3>3. now \in Int /\ wakeTime \in Int /\ wake[Head(active)] \in Int
      BY <3>2, TimerPoolAssumption DEF DueInv, TypeInv, TypeOK
    <3>4. ~idleArmed => wake[Head(active)] <= wakeTime \/ Head(active) \in raced
      BY <3>1 DEF DueInv, HeadInv, Leads
    <3> QED BY <2>2, <3>1, <3>3, <3>4
  <2> QED BY <2>1, <2>2, FiringSteps DEF DueInv
<1> QED BY <1>1, <1>2, <1>3, PTL DEF Spec, EarlyOnlyAfterIdle
=============================================================================
