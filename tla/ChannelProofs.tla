---------------------------- MODULE ChannelProofs ----------------------------
(***************************************************************************)
(* Proofs about Channel and Sched, for any number of goroutines and Ps,    *)
(* any even length of the ring and any size of the channel.                *)
(*                                                                         *)
(* The inductive invariant says where a goroutine can be (Placed), who     *)
(* holds the lock (LockKept), who is on the wait queues (Members) and why  *)
(* (Reasons), whom a goroutine has still to ready (Pended), that nobody is *)
(* forgotten (Kept), which values and flags a waiting goroutine has        *)
(* (Flagged), what the ring and the locals of runqput are (Ring, InPut)    *)
(* and what the history of a non-blocking operation is (Moments).          *)
(***************************************************************************)
EXTENDS Channel, FiniteSetTheorems, SequenceTheorems, TLAPS

Parking == {"park", "active", "unlock"}
Putting == {"oldnext", "casnext", "load", "store", "cashead"}
Fast == {"fast1", "fast2", "fast3"}
Running == Fast \cup Putting \cup {"lock", "park", "release", "ready"}
PcValues == Running \cup Parking \cup {"idle", "parked", "gone"}

Put == [gp : Gs \cup Others \cup {Nil}, oldnext : Gs \cup Others \cup {Nil},
        h : Nat, t : Nat, batch : Seq(Gs \cup Others \cup {Nil})]

OnP(g) == \E p \in Ps : curg[p] = g

Types ==
  /\ TypeOK
  /\ curg \in [Ps -> Gs \cup {Nil}]
  /\ pc \in [Gs -> PcValues]
  /\ glist \in [Gs -> Seq(Gs)]
  /\ elem = [g \in Gs |-> elem[g]]
  /\ parkingOnChan \in [Gs -> BOOLEAN] /\ activeStackChans \in [Gs -> BOOLEAN]
  /\ dataqsiz \in Nat /\ ops \in 0 .. MaxOps

Placed ==
  /\ \A p, q \in Ps : curg[p] = curg[q] /\ curg[p] # Nil => p = q
  /\ \A g \in Gs :
       /\ pc[g] \in Running => status[g] = "running" /\ OnP(g)
       /\ pc[g] \in {"active", "unlock"} => status[g] = "waiting" /\ OnP(g)
       /\ pc[g] = "parked" => status[g] \in {"waiting", "runnable"} /\ ~ OnP(g)
       /\ pc[g] = "idle" => \/ status[g] = "running" /\ OnP(g)
                            \/ status[g] = "runnable" /\ ~ OnP(g)
       /\ pc[g] = "gone" => status[g] \in {"waiting", "dead"} /\ ~ OnP(g)

Waiters == Range(recvq) \cup Range(sendq)

\* The lock is held by whoever is about to park or is closing; a goroutine
\* that parks is on a queue of an open channel.
LockKept ==
  \A g \in Gs :
    /\ pc[g] \in Parking \cup {"release"} => lock = g
    /\ pc[g] \in Parking => closed = 0 /\ g \in Waiters

\* Whoever waits has a reason to.
Reasons ==
  /\ recvq # <<>> => qcount = 0 /\ sendq = <<>>
  /\ sendq # <<>> => qcount = dataqsiz
  /\ closed # 0 /\ lock = Nil => recvq = <<>> /\ sendq = <<>>

\* Whoever is on a queue is parked there, or on the way with the lock held.
Members ==
  /\ IsInjective(recvq) /\ IsInjective(sendq)
  /\ \A g \in Waiters : \/ pc[g] \in Parking
                        \/ pc[g] = "parked" /\ status[g] = "waiting"

\* The goroutines that h has still to ready: runqput works for the first one
\* when it has been made runnable already.
FirstPending(h) == IF pc[h] = "ready" THEN 1 ELSE 2
Pending(h) == {glist[h][i] : i \in FirstPending(h) .. Len(glist[h])}

\* A goroutine has a list while it readies, with nobody on it twice; those
\* still to be readied are parked, off the queues and on no other list.
Listing ==
  \A h \in Gs : /\ glist[h] = <<>> <=> pc[h] \notin Putting \cup {"ready"}
               /\ IsInjective(glist[h])
PendingWait ==
  \A h \in Gs : \A g \in Pending(h) :
    pc[g] = "parked" /\ status[g] = "waiting" /\ elem[g] = Nil /\ g \notin Waiters
PendingOnce ==
  \A h, k \in Gs : h # k => Pending(h) \cap Pending(k) = {}

\* The chansend that handed its value over keeps the lock.
Stuck == lock # Nil /\ pc[lock] \notin Parking \cup {"release"}

Kept ==
  \A g \in Gs : pc[g] = "parked" /\ status[g] = "waiting" =>
    \/ g \in Waiters
    \/ \E h \in Gs : g \in Pending(h)
    \/ Stuck

Flagged ==
  \A g \in Gs :
    /\ elem[g] # Nil => \/ pc[g] \in Parking
                        \/ pc[g] = "parked" /\ status[g] = "waiting"
    /\ pc[g] \in {"park", "active"} => parkingOnChan[g]
    /\ pc[g] \in {"unlock", "parked"} => activeStackChans[g]

Moments ==
  /\ couldNot \in [Gs -> BOOLEAN]
  /\ \A g \in Gs :
       /\ pc[g] \in Fast => ~ op[g].block
       /\ pc[g] \in Fast \cup {"lock"} => op[g].kind \in {"send", "recv", "close"}
       /\ pc[g] = "fast2" /\ op[g].kind = "recv" => couldNot[g] \/ closed # 0
       /\ InNonblocking(g) /\ NotReady(g) => couldNot[g]

\* The ring of a P only ever empties: runqput finds it full or throws.
Ring ==
  /\ runnext \in [Ps -> Gs \cup Others \cup {Nil}]
  /\ globrunq \in Seq(Gs \cup Others)
  /\ runq \in [Ps -> [0 .. RunqLen - 1 -> Gs \cup Others \cup {Nil}]]
  /\ runqhead \in [Ps -> Nat] /\ runqtail \in [Ps -> Nat]
  /\ thrown = "none" => \A p \in Ps :
       /\ runqtail[p] \in {0, RunqLen} /\ runqhead[p] <= runqtail[p]
       /\ \A j \in runqhead[p] .. runqtail[p] - 1 : runq[p][j] \in Gs \cup Others

HalfRing(p) == [i \in 1 .. RunqLen \div 2 |-> runq[p][i - 1]]

InPut ==
  /\ put \in [Gs -> Put]
  /\ thrown = "none" => \A g \in Gs, p \in Ps : curg[p] = g =>
    /\ pc[g] \in Putting => put[g].gp \in Gs \cup Others
    /\ pc[g] = "store" => put[g].t = runqtail[p]
    /\ pc[g] = "cashead" => /\ put[g].h = 0 /\ runqtail[p] = RunqLen
                            /\ put[g].batch = HalfRing(p)

\* What the state of the channel and of its goroutines is, apart from the
\* history variables.
Pended == Listing /\ PendingWait /\ PendingOnce
Rest ==
  /\ Placed /\ LockKept /\ Members /\ Pended /\ Kept /\ Flagged
  /\ Ring /\ InPut /\ ReadyFindsWaiting
Core == Types /\ Reasons /\ Rest

IInv == Core /\ Moments /\ RecvHadMoment

-----------------------------------------------------------------------------
(***************************************************************************)
(* Sequences, most of them without duplicates.                             *)
(***************************************************************************)
\* Append adds one member.
LEMMA AppendFacts ==
  ASSUME NEW S, NEW s \in Seq(S), NEW x \in S
  PROVE  /\ Append(s, x) \in Seq(S) /\ Append(s, x) # <<>>
         /\ Range(Append(s, x)) = Range(s) \cup {x}
         /\ IsInjective(s) /\ x \notin Range(s) => IsInjective(Append(s, x))
<1>1. /\ Len(s) \in Nat /\ DOMAIN s = 1 .. Len(s)
      /\ Append(s, x) \in Seq(S) /\ Len(Append(s, x)) = Len(s) + 1
      /\ DOMAIN Append(s, x) = 1 .. Len(s) + 1
      /\ \A i \in 1 .. Len(s) : Append(s, x)[i] = s[i]
      /\ Append(s, x)[Len(s) + 1] = x
  OBVIOUS
<1>2. Range(Append(s, x)) = Range(s) \cup {x}
  BY <1>1 DEF Range
<1>3. ASSUME IsInjective(s), x \notin Range(s) PROVE IsInjective(Append(s, x))
  BY <1>1, <1>3 DEF IsInjective, Range
<1> QED
  BY <1>1, <1>2, <1>3

\* Tail drops the first member.
LEMMA TailFacts ==
  ASSUME NEW S, NEW s \in Seq(S), s # <<>>, IsInjective(s)
  PROVE  /\ Tail(s) \in Seq(S) /\ Head(s) \in S /\ Head(s) \in Range(s)
         /\ Range(Tail(s)) = Range(s) \ {Head(s)}
         /\ IsInjective(Tail(s))
<1>1. /\ Len(s) \in Nat /\ Len(s) >= 1 /\ DOMAIN s = 1 .. Len(s)
      /\ Tail(s) \in Seq(S) /\ Len(Tail(s)) = Len(s) - 1
      /\ DOMAIN Tail(s) = 1 .. Len(s) - 1
      /\ \A i \in 1 .. Len(s) - 1 : Tail(s)[i] = s[i + 1]
      /\ Head(s) = s[1] /\ s[1] \in S
  OBVIOUS
<1>2. Range(Tail(s)) = Range(s) \ {Head(s)}
  <2>1. ASSUME NEW y \in Range(Tail(s)) PROVE y \in Range(s) /\ y # Head(s)
    <3>1. PICK i \in 1 .. Len(s) - 1 : y = s[i + 1]
      BY <1>1, <2>1 DEF Range
    <3> QED
      BY <1>1, <3>1 DEF Range, IsInjective
  <2>2. ASSUME NEW y \in Range(s), y # Head(s) PROVE y \in Range(Tail(s))
    <3>1. PICK i \in 1 .. Len(s) : y = s[i]
      BY <1>1, <2>2 DEF Range
    <3>2. i - 1 \in 1 .. Len(s) - 1 /\ Tail(s)[i - 1] = y
      BY <1>1, <2>2, <3>1
    <3> QED
      BY <1>1, <3>2 DEF Range
  <2> QED
    BY <2>1, <2>2
<1>3. IsInjective(Tail(s))
  BY <1>1 DEF IsInjective
<1>4. Head(s) \in Range(s)
  <2>1. 1 \in DOMAIN s /\ Head(s) = s[1]
    BY <1>1
  <2> QED
    BY <2>1, Zenon DEF Range
<1> QED
  BY <1>1, <1>2, <1>3, <1>4

\* One sequence behind another.
LEMMA ConcatFacts ==
  ASSUME NEW S, NEW s \in Seq(S), NEW t \in Seq(S)
  PROVE  /\ Len(s) \in Nat /\ Len(t) \in Nat /\ DOMAIN s = 1 .. Len(s)
         /\ s \o t \in Seq(S) /\ Len(s \o t) = Len(s) + Len(t)
         /\ DOMAIN (s \o t) = 1 .. Len(s) + Len(t)
         /\ \A i \in 1 .. Len(s) : (s \o t)[i] = s[i]
         /\ \A i \in 1 .. Len(t) : (s \o t)[Len(s) + i] = t[i]
<1>1. Len(s) \in Nat /\ Len(t) \in Nat /\ DOMAIN s = 1 .. Len(s)
      /\ s \o t \in Seq(S) /\ Len(s \o t) = Len(s) + Len(t)
  OBVIOUS
<1>2. \A i \in 1 .. Len(s) + Len(t) :
        (s \o t)[i] = IF i <= Len(s) THEN s[i] ELSE t[i - Len(s)]
  BY <1>1
<1>3. ASSUME NEW i \in 1 .. Len(t) PROVE (s \o t)[Len(s) + i] = t[i]
  <2>1. Len(s) + i \in 1 .. Len(s) + Len(t) /\ ~ (Len(s) + i <= Len(s)) /\ (Len(s) + i) - Len(s) = i
    BY <1>1
  <2> QED
    BY <1>2, <2>1
<1> QED
  BY <1>1, <1>2, <1>3

\* glistOf of one queue behind another, one of which is empty.
LEMMA GlistFacts ==
  ASSUME NEW S, NEW s \in Seq(S), NEW t \in Seq(S), s = <<>> \/ t = <<>>,
         IsInjective(s), IsInjective(t)
  PROVE  /\ glistOf(s \o t) \in Seq(S)
         /\ IsInjective(glistOf(s \o t))
         /\ Range(glistOf(s \o t)) = Range(s) \cup Range(t)
         /\ Range(s \o t) = Range(s) \cup Range(t)
         /\ s \o t = <<>> <=> glistOf(s \o t) = <<>>
         /\ s \o t = <<>> <=> s = <<>> /\ t = <<>>
<1> DEFINE u == s \o t
<1>1. PICK w \in Seq(S) : u = w /\ IsInjective(w) /\ Range(w) = Range(s) \cup Range(t)
                         /\ (w = <<>> <=> s = <<>> /\ t = <<>>)
  <2>1. CASE s = <<>>
    <3>1. u = t BY <2>1
    <3>2. Range(s) = {} BY <2>1 DEF Range
    <3> QED BY <2>1, <3>1, <3>2
  <2>2. CASE t = <<>>
    <3>1. u = s BY <2>2
    <3>2. Range(t) = {} BY <2>2 DEF Range
    <3> QED BY <2>2, <3>1, <3>2
  <2> QED
    BY <2>1, <2>2
<1>2. /\ Len(w) \in Nat /\ DOMAIN w = 1 .. Len(w)
      /\ glistOf(w) = [i \in 1 .. Len(w) |-> w[(Len(w) - i) + 1]]
      /\ \A i \in 1 .. Len(w) : w[i] \in S
  BY DEF glistOf, Reverse
<1>3. glistOf(w) \in Seq(S) /\ DOMAIN glistOf(w) = 1 .. Len(w) /\ Len(glistOf(w)) = Len(w)
  BY <1>2
<1>4. IsInjective(glistOf(w))
  <2>1. SUFFICES ASSUME NEW a \in 1 .. Len(w), NEW b \in 1 .. Len(w),
                        glistOf(w)[a] = glistOf(w)[b]
                 PROVE  a = b
    BY <1>3, Zenon DEF IsInjective
  <2>2. /\ (Len(w) - a) + 1 \in DOMAIN w /\ (Len(w) - b) + 1 \in DOMAIN w
        /\ w[(Len(w) - a) + 1] = w[(Len(w) - b) + 1]
    BY <1>2, <2>1
  <2>3. (Len(w) - a) + 1 = (Len(w) - b) + 1
    BY <1>1, <2>2, Zenon DEF IsInjective
  <2> QED
    BY <1>2, <2>3
<1>5. Range(glistOf(w)) = Range(w)
  <2>1. ASSUME NEW y \in Range(w) PROVE y \in Range(glistOf(w))
    <3>1. PICK i \in 1 .. Len(w) : y = w[i]
      BY <1>2, <2>1 DEF Range
    <3>2. Len(w) - i + 1 \in 1 .. Len(w) /\ glistOf(w)[Len(w) - i + 1] = w[i]
      BY <1>2
    <3> QED
      BY <1>3, <3>1, <3>2 DEF Range
  <2>2. Range(glistOf(w)) \subseteq Range(w)
    BY <1>2, <1>3 DEF Range
  <2> QED
    BY <2>1, <2>2
<1>6. w = <<>> <=> glistOf(w) = <<>>
  BY <1>2, <1>3
<1> QED
  BY <1>1, <1>3, <1>4, <1>5, <1>6

-----------------------------------------------------------------------------
(***************************************************************************)
(* One lemma for each action.                                              *)
(***************************************************************************)
\* A goroutine that executes is on exactly one P.
LEMMA OnItsP ==
  ASSUME Types, Placed, NEW g \in Gs, OnP(g)
  PROVE  P(g) \in Ps /\ curg[P(g)] = g /\ \A p \in Ps : curg[p] = g <=> p = P(g)
BY NilGAssumption DEF Types, Placed, OnP, P

\* The wait queues and the lists hold goroutines that use the channel.
LEMMA ListedGs ==
  ASSUME Types
  PROVE  Waiters \subseteq Gs /\ \A h \in Gs : Pending(h) \subseteq Gs
<1>1. Waiters \subseteq Gs
  BY DEF Types, TypeOK, Waiters, Range
<1>2. ASSUME NEW h \in Gs PROVE Pending(h) \subseteq Gs
  BY DEF Types, Pending, FirstPending
<1> QED
  BY <1>1, <1>2

\* Where a goroutine is in no queue and readies nobody.
Local == Fast \cup {"idle", "lock"}

\* A step from one such place to another.
LEMMA LocalStep ==
  ASSUME Core, NEW g \in Gs, pc[g] \in Local, OnP(g),
         NEW l \in Local, pc' = [pc EXCEPT ![g] = l],
         UNCHANGED <<status, curg, queues, glist, put, thrown, closed, recvq, sendq, lock,
                     elem, flags>>
  PROVE  Rest'
<1> USE DEF Core, Rest, queues, flags
<1>1. Placed'
  BY DEF Types, Placed, Running, Local, Fast, Parking, Putting, OnP
<1>2. LockKept'
  BY DEF Types, LockKept, Parking, Waiters, Local, Fast
<1>3. Members'
  BY DEF Types, Members, Parking, Waiters, Local, Fast
<1>4. Waiters' = Waiters /\ \A h \in Gs : Pending(h)' = Pending(h)
  BY DEF Types, Waiters, Pending, FirstPending, Pended, Listing, Local, Fast
<1>5. Listing'
  BY DEF Types, Pended, Listing, Putting, Local, Fast
<1>6. PendingWait' /\ PendingOnce'
  BY <1>4, ListedGs DEF Types, Pended, PendingWait, PendingOnce, Local, Fast
<1>7. Kept'
  BY <1>4 DEF Types, Kept, Stuck, Parking, Local, Fast
<1>8. Flagged'
  BY DEF Types, Flagged, Parking, Local, Fast
<1>9. Ring' /\ ReadyFindsWaiting'
  BY DEF Ring, ReadyFindsWaiting
<1>10. InPut'
  BY DEF Types, InPut, Putting, HalfRing, Local, Fast
<1> QED
  BY <1>1, <1>2, <1>3, <1>5, <1>6, <1>7, <1>8, <1>9, <1>10 DEF Pended

\* A goroutine that leaves its P for ever: a panic, or gopark(nil, nil).
LEMMA GoneStep ==
  ASSUME Core, NEW g \in Gs, pc[g] \in {"idle", "lock"}, OnP(g), dropg(g),
         NEW s \in {"waiting", "dead"}, status' = [status EXCEPT ![g] = s],
         pc' = [pc EXCEPT ![g] = "gone"],
         UNCHANGED <<queues, glist, put, thrown, closed, recvq, sendq, lock, elem, flags>>
  PROVE  Rest'
<1> USE DEF Core, Rest, queues, flags
<1>0. /\ curg' = [curg EXCEPT ![P(g)] = Nil]
      /\ P(g) \in Ps /\ curg[P(g)] = g /\ \A p \in Ps : curg[p] = g <=> p = P(g)
  BY OnItsP DEF dropg
<1>a. \A h \in Gs : OnP(h)' <=> OnP(h) /\ h # g
  BY <1>0, NilGAssumption DEF Types, OnP
<1>1. Placed'
  <2>1. \A p, q \in Ps : curg'[p] = curg'[q] /\ curg'[p] # Nil => p = q
    BY <1>0 DEF Types, Placed
  <2> QED
    BY <1>a, <2>1 DEF Types, TypeOK, Placed, Running, Fast, Parking, Putting
<1>2. LockKept'
  BY DEF Types, LockKept, Parking, Waiters
<1>3. Members'
  BY DEF Types, TypeOK, Members, Parking, Waiters
<1>4. Waiters' = Waiters /\ \A h \in Gs : Pending(h)' = Pending(h)
  BY DEF Types, Waiters, Pending, FirstPending, Pended, Listing
<1>5. Listing'
  BY DEF Types, Pended, Listing, Putting
<1>6. PendingWait' /\ PendingOnce'
  BY <1>4, ListedGs DEF Types, TypeOK, Pended, PendingWait, PendingOnce
<1>7. Kept'
  BY <1>4 DEF Types, TypeOK, Kept, Stuck, Parking
<1>8. Flagged'
  BY DEF Types, TypeOK, Flagged, Parking
<1>9. Ring' /\ ReadyFindsWaiting'
  BY DEF Ring, ReadyFindsWaiting
<1>10. InPut'
  BY <1>0, NilGAssumption DEF Types, InPut, Putting, HalfRing
<1> QED
  BY <1>1, <1>2, <1>3, <1>5, <1>6, <1>7, <1>8, <1>9, <1>10 DEF Pended

\* The caller goes on a wait queue and keeps the lock.
LEMMA EnqueueStep ==
  ASSUME Core, NEW g \in Gs, pc[g] = "lock", OnP(g), lock = Nil, closed = 0, NEW e,
         Enqueue(g, e),
         \/ recvq' = enqueue(recvq, g) /\ sendq' = sendq
         \/ sendq' = enqueue(sendq, g) /\ recvq' = recvq,
         UNCHANGED <<queues, put, thrown, closed>>
  PROVE  Rest' /\ recvq' \in Seq(Gs) /\ sendq' \in Seq(Gs)
<1> USE DEF Core, Rest, queues
<1>0. /\ lock' = g /\ pc' = [pc EXCEPT ![g] = "park"]
      /\ elem' = [elem EXCEPT ![g] = e]
      /\ parkingOnChan' = [parkingOnChan EXCEPT ![g] = TRUE]
      /\ UNCHANGED <<status, curg, activeStackChans, glist>>
  BY DEF Enqueue, Goto
<1>a. g \notin Waiters
  BY DEF Members, Parking
<1>b. /\ recvq' \in Seq(Gs) /\ sendq' \in Seq(Gs)
      /\ IsInjective(recvq') /\ IsInjective(sendq')
      /\ Waiters' = Waiters \cup {g}
  <2>1. /\ recvq \in Seq(Gs) /\ sendq \in Seq(Gs)
        /\ IsInjective(recvq) /\ IsInjective(sendq)
        /\ g \notin Range(recvq) /\ g \notin Range(sendq)
    BY <1>a DEF Types, TypeOK, Waiters, Members
  <2>2. CASE recvq' = enqueue(recvq, g) /\ sendq' = sendq
    BY <2>1, <2>2, AppendFacts DEF enqueue, Waiters
  <2>3. CASE sendq' = enqueue(sendq, g) /\ recvq' = recvq
    BY <2>1, <2>3, AppendFacts DEF enqueue, Waiters
  <2> QED
    BY <2>2, <2>3
<1>c. \A h \in Gs : h # g => pc[h] \notin Parking \cup {"release"}
  BY NilGAssumption DEF LockKept
<1>d. \A h \in Gs : g \notin Pending(h)
  BY DEF Pended, PendingWait
<1>1. Placed'
  BY <1>0 DEF Types, Placed, Running, Fast, Parking, Putting, OnP
<1>2. LockKept'
  BY <1>0, <1>b, <1>c DEF Types, LockKept, Parking
<1>3. Members'
  BY <1>0, <1>b, ListedGs DEF Types, Members, Parking
<1>4. \A h \in Gs : Pending(h)' = Pending(h)
  BY <1>0 DEF Types, Pending, FirstPending, Pended, Listing
<1>5. Listing'
  BY <1>0 DEF Types, Pended, Listing, Putting
<1>6. PendingWait' /\ PendingOnce'
  BY <1>0, <1>4, <1>b, <1>d, ListedGs DEF Types, Pended, PendingWait, PendingOnce
<1>7. Kept'
  BY <1>0, <1>4, <1>b DEF Types, Kept, Stuck, Parking
<1>8. Flagged'
  BY <1>0 DEF Types, Flagged, Parking
<1>9. Ring' /\ ReadyFindsWaiting'
  BY DEF Ring, ReadyFindsWaiting
<1>10. InPut'
  BY <1>0 DEF Types, InPut, Putting, HalfRing
<1> QED
  BY <1>b, <1>1, <1>2, <1>3, <1>5, <1>6, <1>7, <1>8, <1>9, <1>10 DEF Pended

\* send takes a receiver off its queue, and the lock stays with the sender.
LEMMA HandOffStep ==
  ASSUME Core, NEW g \in Gs, pc[g] = "lock", OnP(g), lock = Nil, recvq # <<>>,
         recvq' = dequeue(recvq), lock' = g, pc' = [pc EXCEPT ![g] = "idle"],
         UNCHANGED <<status, curg, queues, glist, put, thrown, closed, sendq, elem, flags>>
  PROVE  Rest' /\ recvq' \in Seq(Gs)
<1> USE DEF Core, Rest, queues, flags
<1>a. \A h \in Gs : pc[h] \notin Parking \cup {"release"}
  BY NilGAssumption DEF LockKept
<1>b. recvq' \in Seq(Gs) /\ IsInjective(recvq') /\ Waiters' \subseteq Waiters
  BY TailFacts DEF Types, TypeOK, Waiters, Members, dequeue
<1>c. Stuck'
  BY NilGAssumption DEF Types, Stuck, Parking
<1>1. Placed'
  BY DEF Types, Placed, Running, Fast, Parking, Putting, OnP
<1>2. LockKept'
  BY <1>a DEF Types, LockKept, Parking
<1>3. Members'
  BY <1>a, <1>b, ListedGs DEF Types, Members, Parking
<1>4. \A h \in Gs : Pending(h)' = Pending(h)
  BY DEF Types, Pending, FirstPending, Pended, Listing
<1>5. Listing'
  BY DEF Types, Pended, Listing, Putting
<1>6. PendingWait' /\ PendingOnce'
  BY <1>4, <1>b, ListedGs DEF Types, Pended, PendingWait, PendingOnce
<1>7. Kept'
  BY <1>c DEF Kept
<1>8. Flagged'
  BY DEF Types, Flagged, Parking
<1>9. Ring' /\ ReadyFindsWaiting'
  BY DEF Ring, ReadyFindsWaiting
<1>10. InPut'
  BY DEF Types, InPut, Putting, HalfRing
<1> QED
  BY <1>b, <1>1, <1>2, <1>3, <1>5, <1>6, <1>7, <1>8, <1>9, <1>10 DEF Pended

\* recv takes a sender off its queue and readies it.
LEMMA DequeueStep ==
  ASSUME Core, NEW g \in Gs, pc[g] = "lock", OnP(g), lock = Nil, sendq # <<>>,
         sendq' = dequeue(sendq), elem' = [elem EXCEPT ![Head(sendq)] = Nil],
         glist' = [glist EXCEPT ![g] = <<Head(sendq)>>], pc' = [pc EXCEPT ![g] = "ready"],
         UNCHANGED <<status, curg, queues, put, thrown, closed, recvq, lock, flags>>
  PROVE  Rest' /\ sendq' \in Seq(Gs) /\ glist' \in [Gs -> Seq(Gs)]
<1> DEFINE x == Head(sendq)
<1> USE DEF Core, Rest, queues, flags
<1>a. \A h \in Gs : pc[h] \notin Parking \cup {"release"}
  BY NilGAssumption DEF LockKept
<1>b. /\ x \in Gs /\ x \in Range(sendq)
      /\ sendq' \in Seq(Gs) /\ IsInjective(sendq') /\ Range(sendq') = Range(sendq) \ {x}
  BY TailFacts DEF Types, TypeOK, Members, dequeue
<1>c. Range(recvq) = {}
  BY DEF Reasons, Range
<1>d. x \in Waiters /\ Waiters' = Waiters \ {x}
  BY <1>b, <1>c DEF Waiters
<1>e. pc[x] = "parked" /\ status[x] = "waiting" /\ x # g
  BY <1>a, <1>b, <1>d DEF Members
<1>f. /\ glist[g] = <<>> /\ glist'[g] = <<x>> /\ IsInjective(<<x>>) /\ glist' \in [Gs -> Seq(Gs)]
      /\ \A h \in Gs : h # g => glist'[h] = glist[h]
  <2>1. <<x>> \in Seq(Gs) /\ IsInjective(<<x>>)
    BY <1>b DEF IsInjective
  <2> QED
    BY <2>1 DEF Types, Pended, Listing, Putting
<1>1. Placed'
  BY DEF Types, Placed, Running, Fast, Parking, Putting, OnP
<1>2. LockKept'
  BY <1>a DEF Types, LockKept, Parking
<1>3. Members'
  BY <1>a, <1>b, <1>d, ListedGs DEF Types, Members, Parking
<1>4. /\ Pending(g)' = {x} /\ Pending(g) = {}
      /\ \A h \in Gs : h # g => Pending(h)' = Pending(h)
  <2>1. Pending(g) = {}
    BY <1>f DEF Pending, FirstPending, Types
  <2>2. pc'[g] = "ready" /\ Len(<<x>>) = 1 /\ <<x>>[1] = x
    BY DEF Types
  <2>3. Pending(g)' = {x}
    BY <1>f, <2>2 DEF Pending, FirstPending
  <2>4. ASSUME NEW h \in Gs, h # g PROVE Pending(h)' = Pending(h)
    BY <1>f, <2>4 DEF Pending, FirstPending, Types
  <2> QED
    BY <2>1, <2>3, <2>4
<1>5. Listing'
  BY <1>f DEF Types, Pended, Listing, Putting
<1>6. PendingWait'
  BY <1>b, <1>d, <1>e, <1>4, ListedGs DEF Types, Pended, PendingWait
<1>7. PendingOnce'
  BY <1>d, <1>4 DEF Pended, PendingOnce, PendingWait
<1>8. Kept'
  <2> SUFFICES ASSUME NEW k \in Gs, pc'[k] = "parked", status'[k] = "waiting"
               PROVE  k \in Waiters' \/ \E h \in Gs : k \in Pending(h)'
    BY DEF Kept
  <2>1. pc[k] = "parked" /\ status[k] = "waiting"
    BY DEF Types
  <2>2. k \in Waiters \/ \E h \in Gs : k \in Pending(h)
    BY <2>1 DEF Kept, Stuck
  <2> QED
    BY <2>2, <1>d, <1>4
<1>9. Flagged'
  BY <1>b DEF Types, Flagged, Parking
<1>10. Ring' /\ ReadyFindsWaiting'
  BY DEF Ring, ReadyFindsWaiting
<1>11. InPut'
  BY DEF Types, InPut, Putting, HalfRing
<1> QED
  BY <1>b, <1>f, <1>1, <1>2, <1>3, <1>5, <1>6, <1>7, <1>8, <1>9, <1>10, <1>11 DEF Pended

\* closechan sets closed and has the lock.
LEMMA CloseStep ==
  ASSUME Core, NEW g \in Gs, pc[g] = "lock", OnP(g), lock = Nil,
         lock' = g, pc' = [pc EXCEPT ![g] = "release"],
         UNCHANGED <<status, curg, queues, glist, put, thrown, recvq, sendq, elem, flags>>
  PROVE  Rest'
<1> USE DEF Core, Rest, queues, flags
<1>a. \A h \in Gs : pc[h] \notin Parking \cup {"release"}
  BY NilGAssumption DEF LockKept
<1>1. Placed'
  BY DEF Types, Placed, Running, Fast, Parking, Putting, OnP
<1>2. LockKept'
  BY <1>a DEF Types, LockKept, Parking
<1>3. Members'
  BY DEF Types, Members, Parking, Waiters
<1>4. Waiters' = Waiters /\ \A h \in Gs : Pending(h)' = Pending(h)
  BY DEF Types, Waiters, Pending, FirstPending, Pended, Listing
<1>5. Listing'
  BY DEF Types, Pended, Listing, Putting
<1>6. PendingWait' /\ PendingOnce'
  BY <1>4, ListedGs DEF Types, Pended, PendingWait, PendingOnce
<1>7. Kept'
  BY <1>4 DEF Types, Kept, Stuck
<1>8. Flagged'
  BY DEF Types, Flagged, Parking
<1>9. Ring' /\ ReadyFindsWaiting'
  BY DEF Ring, ReadyFindsWaiting
<1>10. InPut'
  BY DEF Types, InPut, Putting, HalfRing
<1> QED
  BY <1>1, <1>2, <1>3, <1>5, <1>6, <1>7, <1>8, <1>9, <1>10 DEF Pended

\* closechan empties both queues and unlocks; the closer has all waiters on
\* its list.
LEMMA ReleaseStep ==
  ASSUME Core, NEW g \in Gs, pc[g] = "release", OnP(g),
         glist' = [glist EXCEPT ![g] = glistOf(recvq \o sendq)],
         elem' = [h \in Gs |-> IF h \in Range(recvq \o sendq) THEN Nil ELSE elem[h]],
         pc' = [pc EXCEPT ![g] = IF recvq \o sendq = <<>> THEN "idle" ELSE "ready"],
         recvq' = <<>>, sendq' = <<>>, lock' = Nil,
         UNCHANGED <<status, curg, queues, put, thrown, closed, flags>>
  PROVE  Rest' /\ glist' \in [Gs -> Seq(Gs)]
<1> DEFINE r == glistOf(recvq \o sendq)
<1> USE DEF Core, Rest, queues, flags
<1>a. \A h \in Gs : h # g => pc[h] \notin Parking \cup {"release"}
  BY DEF LockKept
<1>b. /\ r \in Seq(Gs) /\ IsInjective(r) /\ Range(r) = Waiters
      /\ Range(recvq \o sendq) = Waiters
      /\ recvq \o sendq = <<>> <=> r = <<>>
  <2>1. /\ recvq \in Seq(Gs) /\ sendq \in Seq(Gs) /\ (recvq = <<>> \/ sendq = <<>>)
        /\ IsInjective(recvq) /\ IsInjective(sendq)
    BY DEF Types, TypeOK, Members, Reasons
  <2> QED
    BY <2>1, GlistFacts, Zenon DEF Waiters
<1> HIDE DEF r
<1>c. \A h \in Waiters : h \in Gs /\ pc[h] = "parked" /\ status[h] = "waiting" /\ h # g
  BY <1>a, ListedGs DEF Members, Parking
<1>d. /\ Waiters' = {} /\ IsInjective(recvq') /\ IsInjective(sendq')
  BY DEF Waiters, Range, IsInjective
<1>e. /\ glist[g] = <<>> /\ glist'[g] = r /\ glist' \in [Gs -> Seq(Gs)]
      /\ \A h \in Gs : h # g => glist'[h] = glist[h] /\ pc'[h] = pc[h]
      /\ pc'[g] = IF r = <<>> THEN "idle" ELSE "ready"
      /\ \A h \in Gs : elem'[h] = IF h \in Waiters THEN Nil ELSE elem[h]
  BY <1>b DEF Types, Pended, Listing, Putting, r
<1>1. Placed'
  BY DEF Types, Placed, Running, Fast, Parking, Putting, OnP
<1>2. LockKept'
  BY <1>a, <1>e DEF LockKept, Parking
<1>3. Members'
  BY <1>d DEF Members
<1>4. /\ Pending(g)' = Waiters /\ Pending(g) = {}
      /\ \A h \in Gs : h # g => Pending(h)' = Pending(h)
  <2>1. Pending(g) = {}
    BY <1>e DEF Pending, FirstPending, Types
  <2>2. Pending(g)' = Waiters
    <3>1. CASE r = <<>>
      <4>1. Pending(g)' = {}
        BY <1>e, <3>1 DEF Pending, FirstPending
      <4> QED
        BY <1>b, <3>1, <4>1 DEF Range
    <3>2. CASE r # <<>>
      <4>1. Pending(g)' = {r[i] : i \in 1 .. Len(r)}
        BY <1>e, <3>2 DEF Pending, FirstPending
      <4>2. DOMAIN r = 1 .. Len(r)
        BY <1>b
      <4> QED
        BY <1>b, <4>1, <4>2 DEF Range
    <3> QED
      BY <3>1, <3>2
  <2>3. ASSUME NEW h \in Gs, h # g PROVE Pending(h)' = Pending(h)
    BY <1>e, <2>3 DEF Pending, FirstPending
  <2> QED
    BY <2>1, <2>2, <2>3
<1>5. Listing'
  <2> SUFFICES ASSUME NEW h \in Gs
               PROVE /\ glist'[h] = <<>> <=> pc'[h] \notin Putting \cup {"ready"}
                     /\ IsInjective(glist'[h])
    BY DEF Listing
  <2>1. CASE h = g
    BY <1>b, <1>e, <2>1 DEF Putting
  <2>2. CASE h # g
    BY <1>e, <2>2 DEF Pended, Listing
  <2> QED
    BY <2>1, <2>2
<1>6. PendingWait'
  <2> SUFFICES ASSUME NEW h \in Gs, NEW k \in Pending(h)'
               PROVE  /\ pc'[k] = "parked" /\ status'[k] = "waiting" /\ elem'[k] = Nil
                      /\ k \notin Waiters'
    BY DEF PendingWait
  <2>1. CASE h = g
    BY <1>c, <1>d, <1>e, <1>4, <2>1
  <2>2. CASE h # g
    BY <1>d, <1>e, <1>4, <2>2, ListedGs DEF Pended, PendingWait
  <2> QED
    BY <2>1, <2>2
<1>7. PendingOnce'
  BY <1>4 DEF Pended, PendingOnce, PendingWait
<1>8. Kept'
  <2> SUFFICES ASSUME NEW k \in Gs, pc'[k] = "parked", status'[k] = "waiting"
               PROVE  \E h \in Gs : k \in Pending(h)'
    BY DEF Kept
  <2>1. pc[k] = "parked" /\ status[k] = "waiting"
    BY <1>e
  <2>2. k \in Waiters \/ \E h \in Gs : k \in Pending(h)
    BY <2>1 DEF Kept, Stuck, LockKept
  <2> QED
    BY <2>2, <1>4
<1>9. Flagged'
  BY <1>c, <1>e DEF Types, Flagged, Parking
<1>10. Ring' /\ ReadyFindsWaiting'
  BY DEF Ring, ReadyFindsWaiting
<1>11. InPut'
  BY DEF Types, InPut, Putting, HalfRing
<1> QED
  BY <1>e, <1>1, <1>2, <1>3, <1>5, <1>6, <1>7, <1>8, <1>9, <1>10, <1>11 DEF Pended

\* park_m: the goroutine waits and still has its P and the lock.
LEMMA ParkStep ==
  ASSUME Core, NEW g \in Gs, Park(g)
  PROVE  Rest'
<1> USE DEF Core, Rest, queues, flags, fields
<1>0. /\ pc[g] = "park" /\ OnP(g) /\ pc' = [pc EXCEPT ![g] = "active"]
      /\ status' = [status EXCEPT ![g] = "waiting"]
      /\ UNCHANGED <<curg, queues, glist, put, thrown, closed, recvq, sendq, lock, elem, flags>>
  BY DEF Park, At, gopark, casgstatus, Goto, OnP, chanVars
<1>1. Placed'
  BY <1>0 DEF Types, TypeOK, Placed, Running, Fast, Parking, Putting, OnP
<1>2. LockKept'
  BY <1>0 DEF Types, LockKept, Parking, Waiters
<1>3. Members'
  BY <1>0 DEF Types, TypeOK, Members, Parking, Waiters
<1>4. Waiters' = Waiters /\ \A h \in Gs : Pending(h)' = Pending(h)
  BY <1>0 DEF Types, Waiters, Pending, FirstPending, Pended, Listing
<1>5. Listing'
  BY <1>0 DEF Types, Pended, Listing, Putting
<1>6. PendingWait' /\ PendingOnce'
  BY <1>0, <1>4, ListedGs DEF Types, TypeOK, Pended, PendingWait, PendingOnce
<1>7. Kept'
  BY <1>0, <1>4 DEF Types, TypeOK, Kept, Stuck, Parking
<1>8. Flagged'
  BY <1>0 DEF Types, TypeOK, Flagged, Parking
<1>9. Ring' /\ ReadyFindsWaiting'
  BY <1>0 DEF Ring, ReadyFindsWaiting
<1>10. InPut'
  BY <1>0 DEF Types, InPut, Putting, HalfRing
<1> QED
  BY <1>1, <1>2, <1>3, <1>5, <1>6, <1>7, <1>8, <1>9, <1>10 DEF Pended

\* chanparkcommit sets activeStackChans.
LEMMA ActiveStep ==
  ASSUME Core, NEW g \in Gs, pc[g] = "active", OnP(g), pc' = [pc EXCEPT ![g] = "unlock"],
         activeStackChans' = [activeStackChans EXCEPT ![g] = TRUE],
         UNCHANGED <<status, curg, queues, glist, put, thrown, closed, recvq, sendq, lock,
                     elem, parkingOnChan>>
  PROVE  Rest'
<1> USE DEF Core, Rest, queues
<1>1. Placed'
  BY DEF Types, Placed, Running, Fast, Parking, Putting, OnP
<1>2. LockKept'
  BY DEF Types, LockKept, Parking, Waiters
<1>3. Members'
  BY DEF Types, Members, Parking, Waiters
<1>4. Waiters' = Waiters /\ \A h \in Gs : Pending(h)' = Pending(h)
  BY DEF Types, Waiters, Pending, FirstPending, Pended, Listing
<1>5. Listing'
  BY DEF Types, Pended, Listing, Putting
<1>6. PendingWait' /\ PendingOnce'
  BY <1>4, ListedGs DEF Types, Pended, PendingWait, PendingOnce
<1>7. Kept'
  BY <1>4 DEF Types, Kept, Stuck, Parking
<1>8. Flagged'
  BY DEF Types, Flagged, Parking
<1>9. Ring' /\ ReadyFindsWaiting'
  BY DEF Ring, ReadyFindsWaiting
<1>10. InPut'
  BY DEF Types, InPut, Putting, HalfRing
<1> QED
  BY <1>1, <1>2, <1>3, <1>5, <1>6, <1>7, <1>8, <1>9, <1>10 DEF Pended

\* chanparkcommit unlocks and the P is free.
LEMMA UnlockStep ==
  ASSUME Core, NEW g \in Gs, pc[g] = "unlock", OnP(g), pc' = [pc EXCEPT ![g] = "parked"],
         parkingOnChan' = [parkingOnChan EXCEPT ![g] = FALSE], lock' = Nil, dropg(g),
         UNCHANGED <<status, queues, glist, put, thrown, closed, recvq, sendq,
                     elem, activeStackChans>>
  PROVE  Rest'
<1> USE DEF Core, Rest, queues
<1>0. /\ curg' = [curg EXCEPT ![P(g)] = Nil]
      /\ P(g) \in Ps /\ curg[P(g)] = g /\ \A p \in Ps : curg[p] = g <=> p = P(g)
  BY OnItsP DEF dropg
<1>a. \A h \in Gs : OnP(h)' <=> OnP(h) /\ h # g
  BY <1>0, NilGAssumption DEF Types, OnP
<1>b. lock = g /\ g \in Waiters /\ \A h \in Gs : h # g => pc[h] \notin Parking \cup {"release"}
  BY DEF LockKept, Parking
<1>1. Placed'
  <2>1. \A p, q \in Ps : curg'[p] = curg'[q] /\ curg'[p] # Nil => p = q
    BY <1>0 DEF Types, Placed
  <2> QED
    BY <1>a, <2>1 DEF Types, TypeOK, Placed, Running, Fast, Parking, Putting
<1>2. LockKept'
  BY <1>b DEF Types, LockKept, Parking
<1>3. Members'
  BY DEF Types, TypeOK, Members, Placed, Parking, Waiters
<1>4. Waiters' = Waiters /\ \A h \in Gs : Pending(h)' = Pending(h)
  BY DEF Types, Waiters, Pending, FirstPending, Pended, Listing
<1>5. Listing'
  BY DEF Types, Pended, Listing, Putting
<1>6. PendingWait' /\ PendingOnce'
  BY <1>4, ListedGs DEF Types, Pended, PendingWait, PendingOnce
<1>7. Kept'
  BY <1>4, <1>b DEF Types, Kept, Stuck, Parking
<1>8. Flagged'
  BY DEF Types, Flagged, Placed, Parking
<1>9. Ring' /\ ReadyFindsWaiting'
  BY DEF Ring, ReadyFindsWaiting
<1>10. InPut'
  BY <1>0, NilGAssumption DEF Types, InPut, Putting, HalfRing
<1> QED
  BY <1>1, <1>2, <1>3, <1>5, <1>6, <1>7, <1>8, <1>9, <1>10 DEF Pended

\* The locals of a runqput that has only its goroutine.
LEMMA PutLocalsFacts ==
  ASSUME NEW x \in Gs \cup Others \cup {Nil}
  PROVE  /\ [PutLocals EXCEPT !.gp = x] \in Put
         /\ [PutLocals EXCEPT !.gp = x].gp = x
         /\ PutLocals \in Put
<1>1. [PutLocals EXCEPT !.gp = x]
        = [gp |-> x, oldnext |-> Nil, h |-> 0, t |-> 0, batch |-> <<>>]
  BY DEF PutLocals
<1>2. <<>> \in Seq(Gs \cup Others \cup {Nil})
  OBVIOUS
<1>3. /\ [gp |-> x, oldnext |-> Nil, h |-> 0, t |-> 0, batch |-> <<>>] \in Put
      /\ PutLocals \in Put
  BY <1>2 DEF Put, PutLocals
<1> QED
  BY <1>1, <1>3

\* ready finds the goroutine waiting, and makes it runnable.
LEMMA ReadyStep ==
  ASSUME Core, NEW g \in Gs, ready(g), UNCHANGED <<closed, recvq, sendq, lock, elem, flags>>
  PROVE  Rest' /\ status' \in [Gs \cup Others -> Gstatus] /\ pc' = [pc EXCEPT ![g] = "oldnext"]
<1> DEFINE x == Head(glist[g])
<1> USE DEF Core, Rest, queues, flags
<1>a. pc[g] = "ready" /\ OnP(g) /\ UNCHANGED <<curg, queues, glist>>
  BY DEF ready, At, OnP
<1>b. /\ glist[g] \in Seq(Gs) /\ glist[g] # <<>> /\ IsInjective(glist[g])
      /\ Len(glist[g]) \in Nat /\ 1 \in 1 .. Len(glist[g])
      /\ x = glist[g][1] /\ x \in Gs /\ DOMAIN glist[g] = 1 .. Len(glist[g])
  BY <1>a DEF Types, Pended, Listing
<1>c. x \in Pending(g)
  BY <1>a, <1>b DEF Pending, FirstPending
<1>d. pc[x] = "parked" /\ status[x] = "waiting" /\ elem[x] = Nil /\ x \notin Waiters /\ x # g
  BY <1>a, <1>c DEF Pended, PendingWait
<1>e. /\ status' = [status EXCEPT ![x] = "runnable"]
      /\ put' = [put EXCEPT ![g] = [PutLocals EXCEPT !.gp = x]]
      /\ pc' = [pc EXCEPT ![g] = "oldnext"] /\ thrown' = thrown
  BY <1>d DEF ready, casgstatus, Goto
<1> HIDE DEF x
<1>1. Placed'
  BY <1>a, <1>d, <1>e DEF Types, TypeOK, Placed, Running, Fast, Parking, Putting, OnP
<1>2. LockKept'
  BY <1>a, <1>e DEF Types, LockKept, Parking, Waiters
<1>3. Waiters' = Waiters
  BY DEF Waiters
<1>4. Members'
  BY <1>a, <1>d, <1>e, <1>3, ListedGs DEF Types, TypeOK, Members, Parking
<1>5. /\ \A k \in Pending(g)' : k \in Pending(g) /\ k # x
      /\ \A k \in Pending(g) : k = x \/ k \in Pending(g)'
      /\ \A h \in Gs : h # g => Pending(h)' = Pending(h)
  <2>1. Pending(g) = {glist[g][i] : i \in 1 .. Len(glist[g])}
    BY <1>a DEF Pending, FirstPending
  <2>2. Pending(g)' = {glist[g][i] : i \in 2 .. Len(glist[g])}
    BY <1>a, <1>e DEF Types, Pending, FirstPending
  <2>3. ASSUME NEW k \in Pending(g)' PROVE k \in Pending(g) /\ k # x
    <3>1. PICK i \in 2 .. Len(glist[g]) : k = glist[g][i]
      BY <2>2, <2>3
    <3>2. i \in 1 .. Len(glist[g]) /\ i # 1
      BY <1>b
    <3> QED
      BY <1>b, <2>1, <3>1, <3>2 DEF IsInjective
  <2>4. ASSUME NEW k \in Pending(g), k # x PROVE k \in Pending(g)'
    BY <1>b, <2>1, <2>2, <2>4
  <2>5. ASSUME NEW h \in Gs, h # g PROVE Pending(h)' = Pending(h)
    BY <1>a, <1>e, <2>5 DEF Types, Pending, FirstPending
  <2> QED
    BY <2>3, <2>4, <2>5
<1>6. Listing'
  BY <1>a, <1>e DEF Types, Pended, Listing, Putting
<1>7. PendingWait'
  <2> SUFFICES ASSUME NEW h \in Gs, NEW k \in Pending(h)'
               PROVE  /\ pc'[k] = "parked" /\ status'[k] = "waiting" /\ elem'[k] = Nil
                      /\ k \notin Waiters'
    BY DEF PendingWait
  <2>1. k \in Pending(h) /\ k # x /\ k \in Gs
    BY <1>b, <1>c, <1>5, ListedGs DEF Pended, PendingOnce
  <2>2. pc[k] = "parked" /\ status[k] = "waiting" /\ elem[k] = Nil /\ k \notin Waiters /\ k # g
    BY <1>a, <2>1 DEF Pended, PendingWait
  <2> QED
    BY <1>e, <1>3, <2>1, <2>2 DEF Types, TypeOK
<1>8. PendingOnce'
  BY <1>5 DEF Pended, PendingOnce
<1>9. Kept'
  <2> SUFFICES ASSUME NEW k \in Gs, pc'[k] = "parked", status'[k] = "waiting"
               PROVE  k \in Waiters' \/ (\E h \in Gs : k \in Pending(h)') \/ Stuck'
    BY DEF Kept
  <2>1. pc[k] = "parked" /\ status[k] = "waiting" /\ k # x
    BY <1>a, <1>b, <1>e DEF Types, TypeOK
  <2>2. k \in Waiters \/ (\E h \in Gs : k \in Pending(h)) \/ Stuck
    BY <2>1 DEF Kept
  <2>3. Stuck => Stuck'
    BY <1>a, <1>e DEF Types, Stuck, Parking
  <2> QED
    BY <1>3, <1>5, <2>1, <2>2, <2>3
<1>10. Flagged'
  BY <1>a, <1>d, <1>e DEF Types, TypeOK, Flagged, Parking
<1>11. Ring' /\ ReadyFindsWaiting'
  BY <1>a, <1>e DEF Ring, ReadyFindsWaiting
<1>12. InPut'
  <2>1. [PutLocals EXCEPT !.gp = x] \in Put /\ [PutLocals EXCEPT !.gp = x].gp = x
    BY <1>b, PutLocalsFacts
  <2> QED
    BY <1>a, <1>b, <1>e, <2>1 DEF Types, InPut, Putting, HalfRing
<1> QED
  BY <1>e, <1>1, <1>2, <1>4, <1>6, <1>7, <1>8, <1>9, <1>10, <1>11, <1>12
     DEF Pended, Types, TypeOK, Gstatus

\* What does not concern the run queues.
Side == Placed /\ LockKept /\ Members /\ Pended /\ Kept /\ Flagged

\* A step within runqput.
LEMMA PutStep ==
  ASSUME Core, NEW g \in Gs, pc[g] \in Putting, OnP(g),
         NEW l \in Putting, pc' = [pc EXCEPT ![g] = l],
         UNCHANGED <<status, curg, glist, closed, recvq, sendq, lock, elem, flags>>
  PROVE  Side'
<1> USE DEF Core, Rest, flags
<1>1. Placed'
  BY DEF Types, Placed, Running, Fast, Parking, Putting, OnP
<1>2. LockKept'
  BY DEF Types, LockKept, Parking, Waiters, Putting
<1>3. Members'
  BY DEF Types, Members, Parking, Waiters, Putting
<1>4. Waiters' = Waiters /\ \A h \in Gs : Pending(h)' = Pending(h)
  BY DEF Types, Waiters, Pending, FirstPending, Putting
<1>5. Listing'
  BY DEF Types, Pended, Listing
<1>6. PendingWait' /\ PendingOnce'
  BY <1>4, ListedGs DEF Types, Pended, PendingWait, PendingOnce, Putting
<1>7. Kept'
  BY <1>4 DEF Types, Kept, Stuck, Parking, Putting
<1>8. Flagged'
  BY DEF Types, Flagged, Parking, Putting
<1> QED
  BY <1>1, <1>2, <1>3, <1>5, <1>6, <1>7, <1>8 DEF Pended, Side

\* The members of the tail of a sequence.
LEMMA TailMembers ==
  ASSUME NEW S, NEW s \in Seq(S), s # <<>>
  PROVE  {Tail(s)[i] : i \in 1 .. Len(s) - 1} = {s[i] : i \in 2 .. Len(s)}
<1>1. Len(s) \in Nat /\ \A i \in 1 .. Len(s) - 1 : Tail(s)[i] = s[i + 1]
  OBVIOUS
<1>2. ASSUME NEW i \in 2 .. Len(s)
      PROVE  i - 1 \in 1 .. Len(s) - 1 /\ Tail(s)[i - 1] = s[i]
  BY <1>1
<1>3. ASSUME NEW i \in 1 .. Len(s) - 1
      PROVE  i + 1 \in 2 .. Len(s) /\ Tail(s)[i] = s[i + 1]
  BY <1>1
<1>4. ASSUME NEW x
      PROVE  (\E i \in 1 .. Len(s) - 1 : x = Tail(s)[i]) <=> (\E i \in 2 .. Len(s) : x = s[i])
  BY <1>2, <1>3, Zenon
<1> QED
  BY <1>4, Zenon

\* A function changed at one argument.
LEMMA OneChanged ==
  ASSUME NEW S, NEW T, NEW f \in [S -> T], NEW x \in S, NEW y \in T
  PROVE  /\ [f EXCEPT ![x] = y] \in [S -> T] /\ [f EXCEPT ![x] = y][x] = y
         /\ \A k \in S \ {x} : [f EXCEPT ![x] = y][k] = f[k]
OBVIOUS

\* runqput returned: the next goroutine of the list, if there is one.
LEMMA DoneStep ==
  ASSUME Core, NEW g \in Gs, pc[g] \in Putting, OnP(g), ReadyNext(g),
         UNCHANGED <<status, curg, closed, recvq, sendq, lock, elem, flags>>
  PROVE  Side' /\ glist' \in [Gs -> Seq(Gs)] /\ pc' \in [Gs -> PcValues]
<1> DEFINE s == glist[g]
<1> DEFINE l == IF Len(s) > 1 THEN "ready" ELSE "idle"
<1> USE DEF Core, Rest, flags
<1>a. /\ s \in Seq(Gs) /\ s # <<>> /\ IsInjective(s)
  BY DEF Types, Pended, Listing
<1>b. glist' = [glist EXCEPT ![g] = Tail(s)] /\ pc' = [pc EXCEPT ![g] = l]
  BY DEF ReadyNext, Goto
<1>c. /\ Tail(s) \in Seq(Gs) /\ IsInjective(Tail(s)) /\ Len(s) \in Nat
      /\ Len(Tail(s)) = Len(s) - 1 /\ \A i \in 1 .. Len(s) - 1 : Tail(s)[i] = s[i + 1]
      /\ Tail(s) = <<>> <=> ~ Len(s) > 1
  <2> HIDE DEF s
  <2>1. Tail(s) \in Seq(Gs) /\ IsInjective(Tail(s))
    BY <1>a, TailFacts
  <2>2. /\ Len(s) \in Nat /\ Len(s) >= 1 /\ Len(Tail(s)) = Len(s) - 1
        /\ \A i \in 1 .. Len(s) - 1 : Tail(s)[i] = s[i + 1]
    BY <1>a
  <2> QED
    BY <2>1, <2>2
<1>d. /\ glist'[g] = Tail(s) /\ pc'[g] = l
      /\ \A h \in Gs : h # g => glist'[h] = glist[h] /\ pc'[h] = pc[h]
  BY <1>b DEF Types
<1> HIDE DEF s
<1>1. Placed'
  BY <1>b DEF Types, Placed, Running, Fast, Parking, Putting, OnP
<1>2. LockKept'
  BY <1>b DEF Types, LockKept, Parking, Waiters, Putting
<1>3. Members'
  BY <1>b DEF Types, Members, Parking, Waiters, Putting
<1>4. Waiters' = Waiters /\ \A h \in Gs : Pending(h)' = Pending(h)
  <2>1. Pending(g) = {s[i] : i \in 2 .. Len(s)}
    BY DEF Pending, FirstPending, Putting, s
  <2>2. Pending(g)' = Pending(g)
    <3>1. CASE Len(s) > 1
      <4>1. Pending(g)' = {Tail(s)[i] : i \in 1 .. Len(s) - 1}
        BY <1>c, <1>d, <3>1 DEF Pending, FirstPending
      <4>2. {Tail(s)[i] : i \in 1 .. Len(s) - 1} = {s[i] : i \in 2 .. Len(s)}
        BY <1>a, TailMembers, Zenon
      <4> QED
        BY <2>1, <4>1, <4>2, Zenon
    <3>2. CASE ~ Len(s) > 1
      <4>1. Pending(g)' = {Tail(s)[i] : i \in 2 .. Len(Tail(s))}
        BY <1>d, <3>2 DEF Pending, FirstPending
      <4> QED
        BY <1>c, <2>1, <3>2, <4>1
    <3> QED
      BY <3>1, <3>2
  <2>3. ASSUME NEW h \in Gs, h # g PROVE Pending(h)' = Pending(h)
    BY <1>d, <2>3 DEF Pending, FirstPending
  <2>4. Waiters' = Waiters
    BY DEF Waiters
  <2> QED
    BY <2>2, <2>3, <2>4
<1>5. Listing'
  BY <1>c, <1>d DEF Types, Pended, Listing, Putting
<1>6. PendingWait' /\ PendingOnce'
  <2>1. PendingOnce'
    BY <1>4 DEF Pended, PendingOnce
  <2>2. \A h \in Gs : Pending(h) \subseteq Gs
    BY ListedGs
  <2>3. ASSUME NEW h \in Gs, NEW k \in Pending(h) PROVE k # g
    BY DEF Pended, PendingWait, Putting
  <2>4. PendingWait'
    BY <1>d, <1>4, <2>2, <2>3 DEF Pended, PendingWait
  <2> QED
    BY <2>1, <2>4
<1>7. Kept'
  BY <1>b, <1>4 DEF Types, Kept, Stuck, Parking, Putting
<1>8. Flagged'
  BY <1>b DEF Types, Flagged, Parking, Putting
<1> QED
  BY <1>b, <1>c, <1>1, <1>2, <1>3, <1>5, <1>6, <1>7, <1>8 DEF Pended, Side, Types, PcValues, Running, s

\* What the types and the reasons need to know of a step of Sched.
LEMMA SchedTypes ==
  ASSUME Types, Reasons, UNCHANGED chanVars,
         status' \in [Gs \cup Others -> Gstatus], curg' \in [Ps -> Gs \cup {Nil}],
         pc' \in [Gs -> PcValues], glist' \in [Gs -> Seq(Gs)]
  PROVE  Types' /\ Reasons'
BY DEF Types, TypeOK, Reasons, chanVars, fields, flags

\* With a ring that only empties, runqputslow is reached with a full ring or
\* throws.
LEMMA HalfFacts ==
  ASSUME NEW h \in Nat, NEW t \in {0, RunqLen}
  PROVE  /\ t - h < RunqLen => (t - h) \div 2 # RunqLen \div 2
         /\ ~ (t - h < RunqLen) => h = 0 /\ t = RunqLen
         /\ RunqLen \div 2 \in Nat /\ RunqLen \div 2 <= RunqLen
BY RunqLenAssumption

\* A step of runqput changes the locals of one goroutine.
LEMMA PutFrame ==
  ASSUME InPut, thrown = "none", NEW g \in Gs,
         put' \in [Gs -> Put],
         \A k \in Gs \ {g} : pc'[k] = pc[k] /\ put'[k] = put[k],
         curg' = curg, runq' = runq, runqtail' = runqtail, thrown' = thrown,
         pc'[g] \in Putting => put'[g].gp \in Gs \cup Others,
         \A p \in Ps : curg[p] = g =>
           /\ pc'[g] = "store" => put'[g].t = runqtail[p]
           /\ pc'[g] = "cashead" => /\ put'[g].h = 0 /\ runqtail[p] = RunqLen
                                   /\ put'[g].batch = HalfRing(p)
  PROVE  InPut'
<1>1. \A p \in Ps : HalfRing(p)' = HalfRing(p)
  BY DEF HalfRing
<1>2. ASSUME NEW k \in Gs, NEW p \in Ps, curg'[p] = k
      PROVE  /\ pc'[k] \in Putting => put'[k].gp \in Gs \cup Others
             /\ pc'[k] = "store" => put'[k].t = runqtail'[p]
             /\ pc'[k] = "cashead" => /\ put'[k].h = 0 /\ runqtail'[p] = RunqLen
                                      /\ put'[k].batch = HalfRing(p)
  <2>1. CASE k = g
    BY <1>2, <2>1
  <2>2. CASE k # g
    BY <1>2, <2>2 DEF InPut
  <2> QED
    BY <2>1, <2>2
<1> QED
  BY <1>1, <1>2 DEF InPut

\* The plain read of runnext changes the locals of runqput only.
LEMMA OldnextStep ==
  ASSUME Core, NEW g \in Gs, runqputOldnext(g), UNCHANGED chanVars
  PROVE  Core'
<1> USE DEF Core, Rest, queues
<1>1. /\ pc[g] = "oldnext" /\ OnP(g) /\ pc' = [pc EXCEPT ![g] = "casnext"]
      /\ put' = [put EXCEPT ![g] = [@ EXCEPT !.oldnext = runnext[P(g)]]]
      /\ UNCHANGED <<status, curg, queues, glist, thrown>>
  BY DEF runqputOldnext, At, OnP, Goto
<1>2. Side'
  BY <1>1, PutStep DEF Putting, chanVars, fields, flags
<1>3. Ring' /\ ReadyFindsWaiting'
  BY <1>1 DEF Ring, ReadyFindsWaiting
<1>4. runnext[P(g)] \in Gs \cup Others \cup {Nil}
  BY <1>1, OnItsP DEF Ring
<1>5. InPut'
  <2>1. put[g] \in Put
    BY DEF InPut
  <2>2. /\ [put[g] EXCEPT !.oldnext = runnext[P(g)]] \in Put
        /\ [put[g] EXCEPT !.oldnext = runnext[P(g)]].gp = put[g].gp
    BY <1>4, <2>1 DEF Put
  <2> QED
    BY <1>1, <2>2 DEF InPut, Types, HalfRing, Putting
<1>6. Types' /\ Reasons'
  BY <1>1, SchedTypes DEF Types, TypeOK, PcValues, Running, Putting
<1> QED
  BY <1>2, <1>3, <1>5, <1>6 DEF Side

\* The compare-and-swap of runnext: lost, or what was there is in hand next.
LEMMA NextStep ==
  ASSUME Core, NEW g \in Gs, runqputNext(g), UNCHANGED chanVars
  PROVE  Core'
<1> DEFINE old == put[g].oldnext
<1> USE DEF Core, Rest, queues
<1>1. /\ pc[g] = "casnext" /\ OnP(g) /\ thrown = "none"
      /\ UNCHANGED <<status, curg, runq, runqhead, runqtail, globrunq, thrown>>
  BY DEF runqputNext, At, OnP
<1>2. /\ put[g].gp \in Gs \cup Others /\ old \in Gs \cup Others \cup {Nil} /\ put[g] \in Put
      /\ P(g) \in Ps
  BY <1>1, OnItsP DEF InPut, Putting, Put, OnP
<1>3. CASE runnext[P(g)] # old
  <2>1. pc' = [pc EXCEPT ![g] = "oldnext"] /\ UNCHANGED <<runnext, put, glist>>
    BY <1>3 DEF runqputNext, Goto
  <2>2. Side'
    BY <1>1, <2>1, PutStep DEF Putting, chanVars, fields, flags
  <2>3. Ring' /\ ReadyFindsWaiting'
    BY <1>1, <2>1 DEF Ring, ReadyFindsWaiting
  <2>4. InPut'
    BY <1>1, <1>2, <2>1 DEF InPut, Types, HalfRing, Putting
  <2>5. Types' /\ Reasons'
    BY <1>1, <2>1, SchedTypes DEF Types, TypeOK, PcValues, Running, Putting
  <2> QED
    BY <2>2, <2>3, <2>4, <2>5 DEF Side
<1>4. CASE runnext[P(g)] = old
  <2>1. /\ runnext' = [runnext EXCEPT ![P(g)] = put[g].gp]
        /\ put' = [put EXCEPT ![g] = [PutLocals EXCEPT !.gp = old]]
        /\ \/ old = Nil /\ ReadyNext(g)
           \/ old # Nil /\ pc' = [pc EXCEPT ![g] = "load"] /\ UNCHANGED glist
    BY <1>4 DEF runqputNext, Goto
  <2>2. Ring' /\ ReadyFindsWaiting'
    BY <1>1, <1>2, <2>1 DEF Ring, ReadyFindsWaiting
  <2>3. /\ [PutLocals EXCEPT !.gp = old] \in Put
        /\ [PutLocals EXCEPT !.gp = old].gp = old
    BY <1>2, PutLocalsFacts
  <2>4. CASE old = Nil
    <3>1. Side' /\ glist' \in [Gs -> Seq(Gs)] /\ pc' \in [Gs -> PcValues]
      BY <1>1, <2>1, <2>4, DoneStep DEF Putting, chanVars, fields, flags
    <3>2. pc' = [pc EXCEPT ![g] = IF Len(glist[g]) > 1 THEN "ready" ELSE "idle"]
      BY <2>1, <2>4 DEF ReadyNext, Goto
    <3>3. InPut'
      BY <1>1, <2>1, <2>3, <3>2 DEF InPut, Types, HalfRing, Putting
    <3>4. Types' /\ Reasons'
      BY <1>1, <3>1, SchedTypes DEF Types, TypeOK
    <3> QED
      BY <2>2, <3>1, <3>3, <3>4 DEF Side
  <2>5. CASE old # Nil
    <3>1. Side'
      BY <1>1, <2>1, <2>5, PutStep DEF Putting, chanVars, fields, flags
    <3>2. InPut'
      BY <1>1, <1>2, <2>1, <2>3, <2>5 DEF InPut, Types, HalfRing, Putting
    <3>3. Types' /\ Reasons'
      BY <1>1, <2>1, <2>5, SchedTypes DEF Types, TypeOK, PcValues, Running, Putting
    <3> QED
      BY <2>2, <3>1, <3>2, <3>3 DEF Side
  <2> QED
    BY <2>4, <2>5
<1> QED
  BY <1>3, <1>4

\* What is loaded of runqhead may be stale at once; runqtail is the own P's.
LEMMA LoadStep ==
  ASSUME Core, NEW g \in Gs, runqputLoad(g), UNCHANGED chanVars
  PROVE  Core'
<1> DEFINE q == [put[g] EXCEPT !.h = runqhead[P(g)], !.t = runqtail[P(g)]]
<1> USE DEF Core, Rest, queues
<1>1. /\ pc[g] = "load" /\ OnP(g) /\ thrown = "none" /\ pc' = [pc EXCEPT ![g] = "store"]
      /\ put' = [put EXCEPT ![g].h = runqhead[P(g)], ![g].t = runqtail[P(g)]]
      /\ UNCHANGED <<status, curg, queues, glist, thrown>>
  BY DEF runqputLoad, At, OnP, Goto
<1>2. /\ put[g] \in Put /\ P(g) \in Ps /\ \A p \in Ps : curg[p] = g <=> p = P(g)
      /\ runqhead[P(g)] \in Nat /\ runqtail[P(g)] \in Nat /\ put[g].gp \in Gs \cup Others
  BY <1>1, OnItsP DEF InPut, Ring, Putting, OnP
<1>3. q \in Put /\ q.gp = put[g].gp /\ q.t = runqtail[P(g)]
  BY <1>2 DEF Put
<1>4. put' = [put EXCEPT ![g] = q]
  BY <1>1, <1>2 DEF InPut
<1> HIDE DEF q
<1>5. Side'
  BY <1>1, PutStep DEF Putting, chanVars, fields, flags
<1>6. Ring' /\ ReadyFindsWaiting'
  BY <1>1 DEF Ring, ReadyFindsWaiting
<1>7. InPut'
  <2>1. /\ curg' = curg /\ runq' = runq /\ runqtail' = runqtail /\ thrown' = thrown
        /\ InPut /\ thrown = "none"
    BY <1>1
  <2>2. /\ q.gp \in Gs \cup Others
        /\ \A p \in Ps : curg[p] = g => q.t = runqtail[p]
    BY <1>2, <1>3
  <2>3. /\ put' \in [Gs -> Put] /\ pc'[g] = "store" /\ put'[g] = q
        /\ \A k \in Gs \ {g} : pc'[k] = pc[k] /\ put'[k] = put[k]
    <3>1. put \in [Gs -> Put] /\ pc \in [Gs -> PcValues] /\ "store" \in PcValues
      BY DEF Types, InPut, PcValues, Running, Putting
    <3>2. pc' = [pc EXCEPT ![g] = "store"] /\ q \in Put
      BY <1>1, <1>3
    <3>3. put' \in [Gs -> Put] /\ put'[g] = q /\ \A k \in Gs \ {g} : put'[k] = put[k]
      BY <1>4, <3>1, <3>2, OneChanged, Zenon
    <3>4. pc'[g] = "store" /\ \A k \in Gs \ {g} : pc'[k] = pc[k]
      BY <3>1, <3>2, OneChanged, Zenon
    <3> QED
      BY <3>3, <3>4, Zenon
  <2> QED
    BY <2>1, <2>2, <2>3, PutFrame
<1>8. Types' /\ Reasons'
  BY <1>1, SchedTypes DEF Types, TypeOK, PcValues, Running, Putting
<1> QED
  BY <1>5, <1>6, <1>7, <1>8 DEF Side

\* The half of the ring that runqputslow takes are goroutines.
LEMMA BatchFacts ==
  ASSUME Ring, thrown = "none", NEW p \in Ps, runqtail[p] = RunqLen, runqhead[p] = 0
  PROVE  HalfRing(p) \in Seq(Gs \cup Others) /\ Len(HalfRing(p)) = RunqLen \div 2
<1>1. RunqLen \div 2 \in Nat /\ \A i \in 1 .. RunqLen \div 2 : i - 1 \in 0 .. RunqLen - 1
  BY RunqLenAssumption
<1>2. \A i \in 1 .. RunqLen \div 2 : runq[p][i - 1] \in Gs \cup Others
  BY <1>1, RunqLenAssumption DEF Ring
<1> QED
  BY <1>1, <1>2 DEF HalfRing

\* The ring has room, and runqputslow throws, or half of a full one is copied.
LEMMA StoreStep ==
  ASSUME Core, NEW g \in Gs, runqputStore(g), UNCHANGED chanVars
  PROVE  Core'
<1> DEFINE p == P(g)
<1> DEFINE h == put[g].h
<1> DEFINE t == put[g].t
<1> USE DEF Core, Rest, queues
<1>1. /\ pc[g] = "store" /\ OnP(g) /\ thrown = "none"
      /\ UNCHANGED <<status, curg, runnext, runqhead, globrunq, glist>>
  BY DEF runqputStore, At, OnP
<1>2. /\ put[g] \in Put /\ p \in Ps /\ \A q \in Ps : curg[q] = g <=> q = p
      /\ put[g].gp \in Gs \cup Others /\ h \in Nat /\ t \in Nat
      /\ t = runqtail[p] /\ t \in {0, RunqLen} /\ RunqLen \in Nat
  BY <1>1, OnItsP, RunqLenAssumption DEF InPut, Ring, Putting, OnP, Put
<1>3. CASE t - h < RunqLen
  <2>1. /\ runq' = [runq EXCEPT ![p][t % RunqLen] = put[g].gp]
        /\ runqtail' = [runqtail EXCEPT ![p] = t + 1]
        /\ thrown' = "runqputslow: queue is not full" /\ UNCHANGED <<put, pc>>
    BY <1>2, <1>3, HalfFacts DEF runqputStore
  <2>2. Side'
    <3> USE <1>1, <2>1 DEF chanVars, fields, flags
    <3>1. Placed' /\ LockKept' /\ Members'
      <4>1. Placed'
        BY DEF Placed, OnP
      <4>2. LockKept'
        BY DEF LockKept, Waiters
      <4>3. Members'
        BY DEF Members, Waiters
      <4> QED
        BY <4>1, <4>2, <4>3
    <3>2. Waiters' = Waiters /\ \A k \in Gs : Pending(k)' = Pending(k)
      BY DEF Waiters, Pending, FirstPending
    <3>3. Pended'
      BY <3>2 DEF Pended, Listing, PendingWait, PendingOnce
    <3>4. Kept' /\ Flagged'
      BY <3>2 DEF Kept, Stuck, Flagged
    <3> QED
      BY <3>1, <3>3, <3>4 DEF Side
  <2>3. t % RunqLen \in 0 .. RunqLen - 1
    BY <1>2, RunqLenAssumption
  <2>4. Ring' /\ ReadyFindsWaiting'
    <3>1. runq' \in [Ps -> [0 .. RunqLen - 1 -> Gs \cup Others \cup {Nil}]]
      <4> DEFINE ring == [runq[p] EXCEPT ![t % RunqLen] = put[g].gp]
      <4>1. ring \in [0 .. RunqLen - 1 -> Gs \cup Others \cup {Nil}]
        BY <1>2, <2>3 DEF Ring
      <4>2. runq' = [runq EXCEPT ![p] = ring]
        BY <2>1
      <4> HIDE DEF ring
      <4> QED
        BY <1>2, <4>1, <4>2 DEF Ring
    <3>2. runqtail' \in [Ps -> Nat]
      <4>1. runqtail' = [runqtail EXCEPT ![p] = t + 1] /\ runqtail \in [Ps -> Nat]
        BY <2>1 DEF Ring
      <4>2. t + 1 \in Nat /\ p \in Ps
        BY <1>2
      <4> HIDE DEF t, p
      <4> QED
        BY <4>1, <4>2
    <3>3. thrown' # "none" /\ thrown' # "bad g->status in ready"
      BY <2>1
    <3> QED
      BY <1>1, <3>1, <3>2, <3>3 DEF Ring, ReadyFindsWaiting
  <2>5. InPut'
    BY <2>1 DEF InPut
  <2>6. Types' /\ Reasons'
    BY <1>1, <2>1, SchedTypes DEF Types, TypeOK
  <2> QED
    BY <2>2, <2>4, <2>5, <2>6 DEF Side
<1>4. CASE ~ (t - h < RunqLen)
  <2>1. h = 0 /\ t = RunqLen /\ RunqLen \div 2 \in Nat /\ (t - h) \div 2 = RunqLen \div 2
    BY <1>2, <1>4, HalfFacts
  <2>2. /\ UNCHANGED <<runq, runqtail, thrown>>
        /\ put' = [put EXCEPT ![g].batch =
                     [i \in 1 .. (t - h) \div 2 |-> runq[p][(h + i - 1) % RunqLen]]]
        /\ pc' = [pc EXCEPT ![g] = "cashead"]
    BY <1>4, <2>1 DEF runqputStore, Goto
  <2>3. [i \in 1 .. (t - h) \div 2 |-> runq[p][(h + i - 1) % RunqLen]] = HalfRing(p)
    <3>1. \A i \in 1 .. RunqLen \div 2 : (0 + i - 1) % RunqLen = i - 1
      BY RunqLenAssumption
    <3> QED
      BY <2>1, <3>1 DEF HalfRing
  <2>4. HalfRing(p) \in Seq(Gs \cup Others \cup {Nil})
    <3>1. \A i \in 1 .. RunqLen \div 2 : i - 1 \in 0 .. RunqLen - 1
      BY RunqLenAssumption
    <3>2. \A i \in 1 .. RunqLen \div 2 : runq[p][i - 1] \in Gs \cup Others \cup {Nil}
      BY <1>2, <3>1 DEF Ring
    <3> QED
      BY <2>1, <3>2 DEF HalfRing
  <2> DEFINE q == [put[g] EXCEPT !.batch = HalfRing(p)]
  <2>5. q \in Put /\ q.gp = put[g].gp /\ q.h = 0 /\ q.batch = HalfRing(p)
    BY <1>2, <2>1, <2>4 DEF Put
  <2>6. put' = [put EXCEPT ![g] = q]
    BY <2>2, <2>3
  <2> HIDE DEF q
  <2>7. Side'
    BY <1>1, <2>2, PutStep DEF Putting, chanVars, fields, flags
  <2>8. Ring' /\ ReadyFindsWaiting'
    BY <1>1, <2>2 DEF Ring, ReadyFindsWaiting
  <2>9. InPut'
    <3>1. \A r \in Ps : curg[r] = g => r = p /\ runqtail[r] = RunqLen
      BY <1>2, <2>1
    <3>2. curg' = curg /\ runq' = runq /\ runqtail' = runqtail /\ thrown' = thrown
      BY <1>1, <2>2
    <3>3. /\ q.gp \in Gs \cup Others
          /\ \A r \in Ps : curg[r] = g => q.h = 0 /\ runqtail[r] = RunqLen
                                                  /\ q.batch = HalfRing(r)
      BY <1>2, <2>5, <3>1
    <3>4. /\ put' \in [Gs -> Put] /\ pc'[g] = "cashead" /\ put'[g] = q
          /\ \A k \in Gs \ {g} : pc'[k] = pc[k] /\ put'[k] = put[k]
      <4>1. put \in [Gs -> Put] /\ pc \in [Gs -> PcValues] /\ "cashead" \in PcValues
        BY DEF Types, InPut, PcValues, Running, Putting
      <4>2. pc' = [pc EXCEPT ![g] = "cashead"] /\ q \in Put
        BY <2>2, <2>5
      <4>3. put' \in [Gs -> Put] /\ put'[g] = q /\ \A k \in Gs \ {g} : put'[k] = put[k]
        BY <2>6, <4>1, <4>2, OneChanged, Zenon
      <4>4. pc'[g] = "cashead" /\ \A k \in Gs \ {g} : pc'[k] = pc[k]
        BY <4>1, <4>2, OneChanged, Zenon
      <4> QED
        BY <4>3, <4>4, Zenon
    <3> QED
      BY <1>1, <3>2, <3>3, <3>4, PutFrame
  <2>10. Types' /\ Reasons'
    BY <1>1, <2>2, SchedTypes DEF Types, TypeOK, PcValues, Running, Putting
  <2> QED
    BY <2>7, <2>8, <2>9, <2>10 DEF Side
<1> QED
  BY <1>3, <1>4

\* runqputslow commits when the head has not moved, or runqput starts again.
LEMMA SlowStep ==
  ASSUME Core, NEW g \in Gs, runqputslow(g), UNCHANGED chanVars
  PROVE  Core'
<1> DEFINE p == P(g)
<1> USE DEF Core, Rest, queues
<1>1. /\ pc[g] = "cashead" /\ OnP(g) /\ thrown = "none"
      /\ UNCHANGED <<status, curg, runnext, runq, runqtail, thrown>>
  BY DEF runqputslow, At, OnP
<1>2. /\ p \in Ps /\ put[g].gp \in Gs \cup Others
      /\ put[g].h = 0 /\ runqtail[p] = RunqLen /\ put[g].batch = HalfRing(p)
  BY <1>1, OnItsP DEF InPut, Putting, OnP
<1>3. CASE runqhead[p] # put[g].h
  <2>1. pc' = [pc EXCEPT ![g] = "load"] /\ UNCHANGED <<runqhead, globrunq, put, glist>>
    BY <1>3 DEF runqputslow, Goto
  <2>2. Side'
    BY <1>1, <2>1, PutStep DEF Putting, chanVars, fields, flags
  <2>3. Ring' /\ ReadyFindsWaiting'
    BY <1>1, <2>1 DEF Ring, ReadyFindsWaiting
  <2>4. InPut'
    BY <1>1, <1>2, <2>1 DEF InPut, Types, HalfRing, Putting
  <2>5. Types' /\ Reasons'
    BY <1>1, <2>1, SchedTypes DEF Types, TypeOK, PcValues, Running, Putting
  <2> QED
    BY <2>2, <2>3, <2>4, <2>5 DEF Side
<1>4. CASE runqhead[p] = put[g].h
  <2>1. HalfRing(p) \in Seq(Gs \cup Others) /\ Len(HalfRing(p)) = RunqLen \div 2
    BY <1>1, <1>2, <1>4, BatchFacts
  <2>2. /\ runqhead' = [runqhead EXCEPT ![p] = runqhead[p] + RunqLen \div 2]
        /\ globrunq' = globrunq \o Append(HalfRing(p), put[g].gp)
        /\ put' = [put EXCEPT ![g] = PutLocals] /\ ReadyNext(g)
    BY <1>2, <1>4, <2>1 DEF runqputslow, globrunqputbatch, pushBackAll
  <2>3. globrunq' \in Seq(Gs \cup Others)
    BY <1>2, <2>1, <2>2 DEF Ring
  <2>4. Ring' /\ ReadyFindsWaiting'
    <3>1. RunqLen \div 2 \in Nat /\ RunqLen \div 2 <= RunqLen /\ RunqLen \in Nat
      BY RunqLenAssumption
    <3>2. /\ runqhead' \in [Ps -> Nat]
          /\ \A q \in Ps : runqhead[q] <= runqhead'[q] /\ runqhead'[q] <= runqtail[q]
      BY <1>1, <1>2, <1>4, <2>2, <3>1 DEF Ring
    <3> QED
      BY <1>1, <2>3, <3>2, RunqLenAssumption DEF Ring, ReadyFindsWaiting
  <2>5. Side' /\ glist' \in [Gs -> Seq(Gs)] /\ pc' \in [Gs -> PcValues]
    BY <1>1, <2>2, DoneStep DEF Putting, chanVars, fields, flags
  <2>6. pc' = [pc EXCEPT ![g] = IF Len(glist[g]) > 1 THEN "ready" ELSE "idle"]
    BY <2>2 DEF ReadyNext, Goto
  <2>7. InPut'
    <3>1. pc' = [pc EXCEPT ![g] = "ready"] \/ pc' = [pc EXCEPT ![g] = "idle"]
      BY <2>6
    <3>2. PutLocals \in Put
      BY PutLocalsFacts
    <3>3. curg' = curg /\ runq' = runq /\ runqtail' = runqtail /\ thrown' = thrown
      BY <1>1
    <3>4. /\ put' \in [Gs -> Put] /\ pc'[g] \in {"ready", "idle"}
          /\ \A k \in Gs \ {g} : pc'[k] = pc[k] /\ put'[k] = put[k]
      BY <2>2, <3>1, <3>2 DEF Types, InPut
    <3> QED
      BY <1>1, <3>3, <3>4, PutFrame DEF Putting
  <2>8. Types' /\ Reasons'
    BY <1>1, <2>5, SchedTypes DEF Types, TypeOK
  <2> QED
    BY <2>4, <2>5, <2>7, <2>8 DEF Side
<1> QED
  BY <1>3, <1>4

\* A P takes a goroutine that is runnable.
LEMMA ExecuteStep ==
  ASSUME Core, NEW p \in Ps, curg[p] = Nil, NEW x \in Gs \cup Others, execute(p, x),
         UNCHANGED <<runq, runqtail, glist, put, thrown>>, UNCHANGED chanVars
  PROVE  Side' /\ InPut' /\ Types' /\ Reasons'
<1> USE DEF Core, Rest, chanVars, fields, flags
<1>1. CASE x \in Others
  <2>1. status[x] = "runnable" /\ status' = [status EXCEPT ![x] = "dead"] /\ UNCHANGED <<curg, pc>>
    BY <1>1 DEF execute, casgstatus
  <2>2. \A g \in Gs : status'[g] = status[g]
    BY <1>1, <2>1, GoroutinesAssumption DEF Types, TypeOK
  <2>3. Waiters' = Waiters /\ \A k \in Gs : Pending(k)' = Pending(k)
    BY <2>1 DEF Waiters, Pending, FirstPending
  <2>4. Placed'
    BY <2>1, <2>2 DEF Placed, OnP
  <2>5. LockKept' /\ Flagged'
    BY <2>1, <2>2, <2>3 DEF LockKept, Flagged
  <2>6. Members'
    BY <2>1, <2>2, <2>3, ListedGs DEF Members
  <2>7. Pended'
    BY <2>1, <2>2, <2>3, ListedGs DEF Pended, Listing, PendingWait, PendingOnce
  <2>8. Kept'
    BY <2>1, <2>2, <2>3 DEF Kept, Stuck
  <2>9. InPut'
    BY <2>1 DEF InPut, HalfRing
  <2>10. Types' /\ Reasons'
    BY <2>1, SchedTypes DEF Types, TypeOK, Gstatus
  <2> QED
    BY <2>4, <2>5, <2>6, <2>7, <2>8, <2>9, <2>10 DEF Side
<1>2. CASE x \notin Others
  <2>1. /\ x \in Gs /\ status[x] = "runnable" /\ status' = [status EXCEPT ![x] = "running"]
        /\ curg' = [curg EXCEPT ![p] = x] /\ pc' = [pc EXCEPT ![x] = "idle"]
    BY <1>2 DEF execute, casgstatus, Goto
  <2>2. pc[x] \in {"idle", "parked"} /\ ~ OnP(x)
    BY <2>1 DEF Types, Placed, PcValues, Running, Parking
  <2>3. x \notin Waiters /\ \A h \in Gs : x \notin Pending(h)
    BY <2>1, <2>2 DEF Members, Parking, Pended, PendingWait
  <2>4. Waiters' = Waiters /\ \A k \in Gs : Pending(k)' = Pending(k)
    BY <2>1, <2>2 DEF Types, Waiters, Pending, FirstPending
  <2>5. \A g \in Gs : OnP(g)' <=> OnP(g) \/ g = x
    BY <2>1, NilGAssumption DEF Types, OnP
  <2>6. Placed'
    <3>1. \A r, q \in Ps : curg'[r] = curg'[q] /\ curg'[r] # Nil => r = q
      BY <2>1, <2>2 DEF Types, Placed, OnP
    <3> QED
      BY <2>1, <2>2, <2>5, <3>1 DEF Types, TypeOK, Placed, Running, Fast, Parking, Putting
  <2>7. LockKept'
    BY <2>1, <2>4 DEF Types, LockKept, Parking
  <2>8. Members'
    BY <2>1, <2>3, <2>4, ListedGs DEF Types, TypeOK, Members
  <2>9. Listing'
    BY <2>1, <2>2 DEF Types, Pended, Listing, Putting
  <2>10. PendingWait' /\ PendingOnce'
    BY <2>1, <2>3, <2>4, ListedGs DEF Types, TypeOK, Pended, PendingWait, PendingOnce
  <2>11. Kept'
    BY <2>1, <2>2, <2>4 DEF Types, TypeOK, Kept, Stuck, Parking
  <2>12. Flagged'
    BY <2>1, <2>2 DEF Types, TypeOK, Flagged, Parking
  <2>13. InPut'
    BY <2>1, NilGAssumption DEF Types, InPut, HalfRing, Putting
  <2>14. Types' /\ Reasons'
    BY <2>1, SchedTypes DEF Types, TypeOK, Gstatus, PcValues
  <2> QED
    BY <2>6, <2>7, <2>8, <2>9, <2>10, <2>11, <2>12, <2>13, <2>14 DEF Side, Pended
<1> QED
  BY <1>1, <1>2

\* A P takes a goroutine from runnext, from a ring or from the global queue.
LEMMA ScheduleStep ==
  ASSUME Core, NEW p \in Ps, schedule(p), UNCHANGED chanVars
  PROVE  Core'
<1> USE DEF Core, Rest
<1>1. curg[p] = Nil /\ thrown = "none" /\ UNCHANGED <<glist, put, thrown>>
  BY DEF schedule
<1>2. ASSUME NEW x \in Gs \cup Others, execute(p, x), UNCHANGED <<runq, runqtail>>, Ring'
      PROVE  Core'
  <2>1. Side' /\ InPut' /\ Types' /\ Reasons'
    BY <1>1, <1>2, ExecuteStep
  <2>2. ReadyFindsWaiting'
    BY <1>1 DEF ReadyFindsWaiting
  <2> QED
    BY <1>2, <2>1, <2>2 DEF Side
<1>3. CASE \E q \in Ps : /\ runnext[q] # Nil /\ execute(p, runnext[q])
                         /\ runnext' = [runnext EXCEPT ![q] = Nil]
                         /\ UNCHANGED <<runq, runqhead, runqtail, globrunq>>
  <2>1. PICK q \in Ps : /\ runnext[q] # Nil /\ execute(p, runnext[q])
                        /\ runnext' = [runnext EXCEPT ![q] = Nil]
                        /\ UNCHANGED <<runq, runqhead, runqtail, globrunq>>
    BY <1>3
  <2>2. runnext[q] \in Gs \cup Others
    BY <2>1 DEF Ring
  <2>3. Ring'
    BY <1>1, <2>1 DEF Ring
  <2> QED
    BY <1>2, <2>1, <2>2, <2>3
<1>4. CASE \E q \in Ps : /\ runqhead[q] < runqtail[q]
                         /\ execute(p, runq[q][runqhead[q] % RunqLen])
                         /\ runqhead' = [runqhead EXCEPT ![q] = @ + 1]
                         /\ UNCHANGED <<runnext, runq, runqtail, globrunq>>
  <2>1. PICK q \in Ps : /\ runqhead[q] < runqtail[q]
                        /\ execute(p, runq[q][runqhead[q] % RunqLen])
                        /\ runqhead' = [runqhead EXCEPT ![q] = @ + 1]
                        /\ UNCHANGED <<runnext, runq, runqtail, globrunq>>
    BY <1>4
  <2>2. /\ runqhead[q] \in Nat /\ runqhead[q] % RunqLen = runqhead[q]
        /\ runqhead[q] \in runqhead[q] .. runqtail[q] - 1
    <3>1. runqhead[q] \in Nat /\ runqtail[q] \in {0, RunqLen}
      BY <1>1 DEF Ring
    <3>2. RunqLen \in Nat /\ RunqLen > 0
      BY RunqLenAssumption
    <3>3. runqhead[q] < runqtail[q]
      BY <2>1
    <3>4. runqhead[q] % RunqLen = runqhead[q]
      BY <3>1, <3>2, <3>3
    <3> QED
      BY <3>1, <3>2, <3>3, <3>4
  <2>3. runq[q][runqhead[q] % RunqLen] \in Gs \cup Others
    BY <1>1, <2>2 DEF Ring
  <2>4. Ring'
    <3>1. /\ runqhead' \in [Ps -> Nat]
          /\ \A r \in Ps : runqhead[r] <= runqhead'[r] /\ runqhead'[r] <= runqtail[r]
      BY <1>1, <2>1, RunqLenAssumption DEF Ring
    <3> QED
      BY <1>1, <2>1, <3>1, RunqLenAssumption DEF Ring
  <2> QED
    BY <1>2, <2>1, <2>3, <2>4
<1>5. CASE /\ globrunq # <<>> /\ execute(p, Head(globrunq))
           /\ globrunq' = Tail(globrunq)
           /\ UNCHANGED <<runnext, runq, runqhead, runqtail>>
  <2>1. Head(globrunq) \in Gs \cup Others /\ Tail(globrunq) \in Seq(Gs \cup Others)
    BY <1>5 DEF Ring
  <2>2. Ring'
    BY <1>1, <1>5, <2>1 DEF Ring
  <2> QED
    BY <1>2, <1>5, <2>1, <2>2
<1> QED
  BY <1>3, <1>4, <1>5 DEF schedule

-----------------------------------------------------------------------------
(***************************************************************************)
(* The operations of the channel.                                          *)
(***************************************************************************)
\* An operation that is over is an operation.
LEMMA EndedIsOp ==
  /\ Ended("done") \in Op /\ Ended("done").kind = "done"
  /\ Ended("false") \in Op /\ Ended("false").kind = "false"
BY MaxOpsAssumption DEF Ended, Op

\* An operation begins, or takes a step of its fast path.
LEMMA CallCore ==
  ASSUME Core, NEW g \in Gs, Call(g) \/ FastSend(g) \/ FastRecv(g)
  PROVE  Core'
<1> USE DEF Core
<1>1. /\ pc[g] \in Local /\ OnP(g) /\ \E l \in Local : pc' = [pc EXCEPT ![g] = l]
      /\ UNCHANGED <<status, curg, queues, glist, put, thrown, fields, recvq, sendq, lock,
                     elem, flags>>
      /\ op' \in [Gs -> Op] /\ ops' \in 0 .. MaxOps
  <2>1. CASE Call(g)
    <3>1. PICK k \in {"send", "recv", "close"}, b \in BOOLEAN :
            /\ op' = [op EXCEPT ![g] = [kind |-> k, block |-> b, val |-> ops + 1]]
            /\ pc' = [pc EXCEPT ![g] = IF b THEN "lock" ELSE "fast1"]
      BY <2>1 DEF Call, Goto
    <3>2. ops \in 0 .. MaxOps /\ ops < MaxOps /\ ops' = ops + 1
      BY <2>1 DEF Call, Types
    <3>3. [kind |-> k, block |-> b, val |-> ops + 1] \in Op
      BY <3>1, <3>2, MaxOpsAssumption DEF Op
    <3>4. op' \in [Gs -> Op] /\ ops' \in 0 .. MaxOps
      BY <3>1, <3>2, <3>3, MaxOpsAssumption DEF Types, TypeOK
    <3>5. \E l \in Local : pc' = [pc EXCEPT ![g] = l]
      BY <3>1, Zenon DEF Local, Fast
    <3> QED
      BY <2>1, <3>4, <3>5 DEF Call, At, Local, OnP
  <2>2. CASE FastSend(g)
    <3>1. op' = op \/ op' = [op EXCEPT ![g] = Ended("false")]
      BY <2>2 DEF FastSend, Return
    <3>2. pc[g] \in Local /\ OnP(g) /\ \E l \in Local : pc' = [pc EXCEPT ![g] = l]
      BY <2>2 DEF FastSend, At, Return, Goto, Local, Fast, OnP
    <3> QED
      BY <2>2, <3>1, <3>2, EndedIsOp DEF FastSend, FastStep, Types, TypeOK
  <2>3. CASE FastRecv(g)
    <3>1. \/ op' = op \/ op' = [op EXCEPT ![g] = Ended("false")]
          \/ op' = [op EXCEPT ![g] = Ended("done")]
      BY <2>3 DEF FastRecv, Return
    <3>2. pc[g] \in Local /\ OnP(g) /\ \E l \in Local : pc' = [pc EXCEPT ![g] = l]
      BY <2>3 DEF FastRecv, At, Return, Goto, Local, Fast, OnP
    <3> QED
      BY <2>3, <3>1, <3>2, EndedIsOp DEF FastRecv, FastStep, Types, TypeOK
  <2> QED
    BY <2>1, <2>2, <2>3
<1>2. Rest'
  BY <1>1, LocalStep DEF fields
<1>3. pc' \in [Gs -> PcValues]
  BY <1>1 DEF Types, Local, PcValues, Running
<1>4. Types' /\ Reasons'
  BY <1>1, <1>3 DEF Types, TypeOK, Reasons, fields, flags
<1> QED
  BY <1>2, <1>4

\* An operation on a nil channel parks for ever.
LEMMA CallNilCore ==
  ASSUME Core, NEW g \in Gs, CallNil(g)
  PROVE  Core'
<1> USE DEF Core
<1>1. /\ pc[g] = "idle" /\ OnP(g) /\ dropg(g) /\ status' = [status EXCEPT ![g] = "waiting"]
      /\ pc' = [pc EXCEPT ![g] = "gone"]
      /\ UNCHANGED <<queues, glist, put, thrown, fields, recvq, sendq, lock, elem, flags, op>>
      /\ ops' \in 0 .. MaxOps
  BY MaxOpsAssumption DEF CallNil, At, OnP, casgstatus, Goto, Types
<1>2. Rest'
  BY <1>1, GoneStep DEF fields
<1>3. curg' \in [Ps -> Gs \cup {Nil}]
  BY <1>1 DEF dropg, Types
<1>4. Types' /\ Reasons'
  BY <1>1, <1>3 DEF Types, TypeOK, Reasons, fields, flags, Gstatus, PcValues
<1> QED
  BY <1>2, <1>4

\* A panic under the lock.
LEMMA PanicCore ==
  ASSUME Core, NEW g \in Gs, pc[g] = "lock", OnP(g), Panic(g),
         UNCHANGED <<queues, glist, put, thrown, fields, recvq, sendq, lock, elem, flags, ops>>
  PROVE  Core'
<1> USE DEF Core
<1>1. /\ dropg(g) /\ status' = [status EXCEPT ![g] = "dead"]
      /\ pc' = [pc EXCEPT ![g] = "gone"] /\ op' = [op EXCEPT ![g] = Ended("done")]
  BY DEF Panic, Goto
<1>2. Rest'
  BY <1>1, GoneStep DEF fields
<1>3. curg' \in [Ps -> Gs \cup {Nil}]
  BY <1>1 DEF dropg, Types
<1>4. Types' /\ Reasons'
  BY <1>1, <1>3, EndedIsOp DEF Types, TypeOK, Reasons, fields, flags, Gstatus, PcValues
<1> QED
  BY <1>2, <1>4

\* An operation that ends under the lock; it may have used the buffer.
LEMMA ReturnCore ==
  ASSUME Core, NEW g \in Gs, pc[g] = "lock", OnP(g),
         pc' = [pc EXCEPT ![g] = "idle"],
         op' = [op EXCEPT ![g] = Ended("done")] \/ op' = [op EXCEPT ![g] = Ended("false")],
         UNCHANGED <<status, curg, queues, glist, put, thrown, closed, dataqsiz, recvq, sendq,
                     lock, elem, flags, ops>>,
         qcount' \in 0 .. dataqsiz, sendx' \in 0 .. dataqsiz, recvx' \in 0 .. dataqsiz,
         dataqsiz > 0 => sendx' < dataqsiz /\ recvx' < dataqsiz,
         recvq # <<>> => qcount' = 0, sendq # <<>> => qcount' = dataqsiz
  PROVE  Core'
<1> USE DEF Core
<1>1. Rest'
  BY LocalStep DEF Local
<1>2. Types' /\ Reasons'
  BY EndedIsOp DEF Types, TypeOK, Reasons, flags, PcValues
<1> QED
  BY <1>1, <1>2

\* The indices of the buffer stay in it.
LEMMA AdvanceFacts ==
  ASSUME Types, NEW x \in 0 .. dataqsiz, dataqsiz > 0 => x < dataqsiz
  PROVE  dataqsiz > 0 => Advance(x) \in 0 .. dataqsiz /\ Advance(x) < dataqsiz
BY DEF Types, Advance

\* Every outcome of chansend keeps the invariant.
LEMMA chansendCore ==
  ASSUME Core, NEW g \in Gs, chansend(g)
  PROVE  Core'
<1> USE DEF Core
<1>1. /\ pc[g] = "lock" /\ OnP(g) /\ lock = Nil
      /\ UNCHANGED <<dataqsiz, recvx, closed, ops, received, queues, put, thrown>>
  BY DEF chansend, Locks, At, OnP
<1>2. CASE closed # 0
  BY <1>1, <1>2, PanicCore DEF chansend, fields
<1>3. CASE closed = 0 /\ recvq # <<>>
  <2>1. /\ recvq' = dequeue(recvq) /\ lock' = g
        /\ pc' = [pc EXCEPT ![g] = "idle"] /\ op' = [op EXCEPT ![g] = Ended("done")]
        /\ UNCHANGED <<status, curg, qcount, sendx, buf, sendq, elem, flags, glist>>
    BY <1>3 DEF chansend, Return, Goto
  <2>2. Rest' /\ recvq' \in Seq(Gs)
    BY <1>1, <1>3, <2>1, HandOffStep
  <2>3. Types' /\ Reasons'
    BY <1>1, <1>3, <2>1, <2>2, EndedIsOp, NilGAssumption
       DEF Types, TypeOK, Reasons, flags, PcValues
  <2> QED
    BY <2>2, <2>3
<1>4. CASE closed = 0 /\ recvq = <<>> /\ qcount < dataqsiz
  <2>1. /\ sendx' = Advance(sendx) /\ qcount' = qcount + 1
        /\ pc' = [pc EXCEPT ![g] = "idle"] /\ op' = [op EXCEPT ![g] = Ended("done")]
        /\ UNCHANGED <<status, curg, recvq, sendq, lock, elem, flags, glist>>
    BY <1>4 DEF chansend, Return, Goto, Types, TypeOK
  <2>2. /\ qcount' \in 0 .. dataqsiz /\ sendx' \in 0 .. dataqsiz /\ recvx' \in 0 .. dataqsiz
        /\ dataqsiz > 0 => sendx' < dataqsiz /\ recvx' < dataqsiz
        /\ recvq # <<>> => qcount' = 0
        /\ sendq # <<>> => qcount' = dataqsiz
    BY <1>1, <1>4, <2>1, AdvanceFacts DEF Types, TypeOK, Reasons
  <2> QED
    BY <1>1, <2>1, <2>2, ReturnCore
<1>5. CASE closed = 0 /\ recvq = <<>> /\ qcount >= dataqsiz /\ ~ op[g].block
  <2>1. /\ pc' = [pc EXCEPT ![g] = "idle"] /\ op' = [op EXCEPT ![g] = Ended("false")]
        /\ UNCHANGED <<status, curg, qcount, sendx, buf, recvq, sendq, lock, elem, flags, glist>>
    BY <1>5 DEF chansend, Return, Goto, Types, TypeOK
  <2>2. /\ qcount' \in 0 .. dataqsiz /\ sendx' \in 0 .. dataqsiz /\ recvx' \in 0 .. dataqsiz
        /\ dataqsiz > 0 => sendx' < dataqsiz /\ recvx' < dataqsiz
        /\ recvq # <<>> => qcount' = 0
        /\ sendq # <<>> => qcount' = dataqsiz
    BY <1>1, <2>1 DEF Types, TypeOK, Reasons
  <2> QED
    BY <1>1, <2>1, <2>2, ReturnCore
<1>6. CASE closed = 0 /\ recvq = <<>> /\ qcount >= dataqsiz /\ op[g].block
  <2>1. /\ sendq' = enqueue(sendq, g) /\ Enqueue(g, op[g].val)
        /\ UNCHANGED <<qcount, sendx, buf, recvq>>
    BY <1>6 DEF chansend, Types, TypeOK
  <2>2. Rest' /\ recvq' \in Seq(Gs) /\ sendq' \in Seq(Gs)
    BY <1>1, <1>6, <2>1, EnqueueStep
  <2>3. /\ lock' = g /\ pc' = [pc EXCEPT ![g] = "park"]
        /\ elem' = [elem EXCEPT ![g] = op[g].val]
        /\ parkingOnChan' = [parkingOnChan EXCEPT ![g] = TRUE]
        /\ UNCHANGED <<status, curg, activeStackChans, glist, op>>
    BY <2>1 DEF Enqueue, Goto
  <2>4. Types'
    BY <1>1, <2>1, <2>2, <2>3 DEF Types, TypeOK, PcValues, Running
  <2>5. Reasons'
    BY <1>1, <1>6, <2>1, <2>3, NilGAssumption DEF Types, TypeOK, Reasons
  <2> QED
    BY <2>2, <2>4, <2>5
<1>7. qcount \in Nat /\ dataqsiz \in Nat
  BY DEF Types, TypeOK
<1> QED
  BY <1>2, <1>3, <1>4, <1>5, <1>6, <1>7

\* Every outcome of chanrecv keeps the invariant.
LEMMA chanrecvCore ==
  ASSUME Core, NEW g \in Gs, chanrecv(g)
  PROVE  Core'
<1> USE DEF Core
<1>1. /\ pc[g] = "lock" /\ OnP(g) /\ lock = Nil
      /\ UNCHANGED <<dataqsiz, closed, ops, accepted, queues, put, thrown>>
  BY DEF chanrecv, Locks, At, OnP
<1>2. /\ qcount \in Nat /\ dataqsiz \in Nat /\ qcount <= dataqsiz
      /\ sendx \in 0 .. dataqsiz /\ recvx \in 0 .. dataqsiz
      /\ dataqsiz > 0 => sendx < dataqsiz /\ recvx < dataqsiz
  BY DEF Types, TypeOK
<1>3. ASSUME \/ closed # 0 /\ qcount = 0
             \/ closed = 0 /\ sendq = <<>> /\ qcount = 0 /\ ~ op[g].block
      PROVE  Core'
  <2>1. /\ pc' = [pc EXCEPT ![g] = "idle"]
        /\ op' = [op EXCEPT ![g] = Ended("done")] \/ op' = [op EXCEPT ![g] = Ended("false")]
        /\ UNCHANGED <<status, curg, qcount, sendx, recvx, buf, recvq, sendq, lock, elem,
                       flags, glist>>
    BY <1>3, <1>2 DEF chanrecv, Return, Goto
  <2>2. /\ qcount' \in 0 .. dataqsiz /\ sendx' \in 0 .. dataqsiz /\ recvx' \in 0 .. dataqsiz
        /\ dataqsiz > 0 => sendx' < dataqsiz /\ recvx' < dataqsiz
        /\ recvq # <<>> => qcount' = 0
        /\ sendq # <<>> => qcount' = dataqsiz
    BY <1>2, <2>1 DEF Reasons
  <2> QED
    BY <1>1, <2>1, <2>2, ReturnCore
<1>4. CASE closed = 0 /\ sendq # <<>>
  <2>1. /\ sendq' = dequeue(sendq) /\ recv(g, Head(sendq)) /\ pc' = [pc EXCEPT ![g] = "ready"]
        /\ op' = [op EXCEPT ![g] = Ended("done")]
        /\ UNCHANGED <<status, curg, qcount, recvq, lock, flags>>
    BY <1>4 DEF chanrecv, Goto
  <2>2. /\ elem' = [elem EXCEPT ![Head(sendq)] = Nil]
        /\ glist' = [glist EXCEPT ![g] = <<Head(sendq)>>]
        /\ \/ dataqsiz = 0 /\ UNCHANGED <<buf, sendx, recvx>>
           \/ dataqsiz # 0 /\ recvx' = Advance(recvx) /\ sendx' = Advance(recvx)
    BY <2>1 DEF recv
  <2>3. Rest' /\ sendq' \in Seq(Gs) /\ glist' \in [Gs -> Seq(Gs)]
    BY <1>1, <1>4, <2>1, <2>2, DequeueStep
  <2>4. /\ sendx' \in 0 .. dataqsiz /\ recvx' \in 0 .. dataqsiz
        /\ dataqsiz > 0 => sendx' < dataqsiz /\ recvx' < dataqsiz
    BY <1>2, <2>2, AdvanceFacts
  <2>5. elem' = [h \in Gs |-> elem'[h]] /\ pc' \in [Gs -> PcValues] /\ op' \in [Gs -> Op]
    BY <2>1, <2>2, EndedIsOp DEF Types, TypeOK, PcValues, Running
  <2>6. Types'
    BY <1>1, <2>1, <2>3, <2>4, <2>5 DEF Types, TypeOK, flags
  <2>7. Reasons'
    BY <1>1, <1>4, <2>1 DEF Reasons
  <2> QED
    BY <2>3, <2>6, <2>7
<1>5. CASE (closed # 0 \/ sendq = <<>>) /\ qcount > 0
  <2>1. /\ recvx' = Advance(recvx) /\ qcount' = qcount - 1
        /\ pc' = [pc EXCEPT ![g] = "idle"] /\ op' = [op EXCEPT ![g] = Ended("done")]
        /\ UNCHANGED <<status, curg, sendx, recvq, sendq, lock, elem, flags, glist>>
    BY <1>5, <1>2 DEF chanrecv, Return, Goto
  <2>2. /\ qcount' \in 0 .. dataqsiz /\ sendx' \in 0 .. dataqsiz /\ recvx' \in 0 .. dataqsiz
        /\ dataqsiz > 0 => sendx' < dataqsiz /\ recvx' < dataqsiz
        /\ recvq # <<>> => qcount' = 0
        /\ sendq # <<>> => qcount' = dataqsiz
    BY <1>1, <1>2, <1>5, <2>1, AdvanceFacts DEF Reasons
  <2> QED
    BY <1>1, <2>1, <2>2, ReturnCore
<1>6. CASE closed = 0 /\ sendq = <<>> /\ qcount = 0 /\ op[g].block
  <2>1. /\ recvq' = enqueue(recvq, g) /\ Enqueue(g, "slot")
        /\ UNCHANGED <<qcount, sendx, recvx, buf, sendq>>
    BY <1>6 DEF chanrecv
  <2>2. Rest' /\ recvq' \in Seq(Gs) /\ sendq' \in Seq(Gs)
    BY <1>1, <1>6, <2>1, EnqueueStep
  <2>3. /\ lock' = g /\ pc' = [pc EXCEPT ![g] = "park"]
        /\ elem' = [elem EXCEPT ![g] = "slot"]
        /\ parkingOnChan' = [parkingOnChan EXCEPT ![g] = TRUE]
        /\ UNCHANGED <<status, curg, activeStackChans, glist, op>>
    BY <2>1 DEF Enqueue, Goto
  <2>4. Types'
    BY <1>1, <2>1, <2>2, <2>3 DEF Types, TypeOK, PcValues, Running
  <2>5. Reasons'
    BY <1>1, <1>6, <2>1, <2>3, NilGAssumption DEF Reasons
  <2> QED
    BY <2>2, <2>4, <2>5
<1> QED
  BY <1>2, <1>3, <1>4, <1>5, <1>6 DEF chanrecv

\* Both steps of closechan keep the invariant, and so does its panic.
LEMMA closechanCore ==
  ASSUME Core, NEW g \in Gs, closechan(g)
  PROVE  Core'
<1> USE DEF Core
<1>1. UNCHANGED <<dataqsiz, qcount, sendx, recvx, buf, flags, ops, queues, put, thrown>>
  BY DEF closechan
<1>2. CASE /\ Locks(g, "close") /\ closed # 0 /\ Panic(g)
           /\ UNCHANGED <<closed, recvq, sendq, lock, elem, glist>>
  BY <1>1, <1>2, PanicCore DEF Locks, At, OnP, fields
<1>3. CASE /\ Locks(g, "close") /\ closed = 0
           /\ closed' = 1 /\ lock' = g /\ Goto(g, "release")
           /\ UNCHANGED <<status, curg, op, recvq, sendq, elem, glist>>
  <2>1. pc[g] = "lock" /\ OnP(g) /\ lock = Nil /\ pc' = [pc EXCEPT ![g] = "release"]
    BY <1>3 DEF Locks, At, OnP, Goto
  <2>2. Rest'
    BY <1>1, <1>3, <2>1, CloseStep
  <2>3. Types' /\ Reasons'
    BY <1>1, <1>3, <2>1, NilGAssumption DEF Types, TypeOK, Reasons, flags, PcValues, Running
  <2> QED
    BY <2>2, <2>3
<1>4. CASE /\ At(g, "release")
           /\ LET all == recvq \o sendq IN
                /\ glist' = [glist EXCEPT ![g] = glistOf(all)]
                /\ elem' = [h \in Gs |-> IF h \in Range(all) THEN Nil ELSE elem[h]]
                /\ Goto(g, IF all = <<>> THEN "idle" ELSE "ready")
           /\ recvq' = <<>> /\ sendq' = <<>> /\ lock' = Nil
           /\ op' = [op EXCEPT ![g] = Ended("done")] /\ UNCHANGED <<status, curg, closed>>
  <2>1. /\ pc[g] = "release" /\ OnP(g)
        /\ glist' = [glist EXCEPT ![g] = glistOf(recvq \o sendq)]
        /\ elem' = [h \in Gs |-> IF h \in Range(recvq \o sendq) THEN Nil ELSE elem[h]]
        /\ pc' = [pc EXCEPT ![g] = IF recvq \o sendq = <<>> THEN "idle" ELSE "ready"]
    BY <1>4, Zenon DEF At, OnP, Goto
  <2>2. Rest' /\ glist' \in [Gs -> Seq(Gs)]
    BY <1>1, <1>4, <2>1, ReleaseStep
  <2>3. elem' = [h \in Gs |-> elem'[h]]
    BY <2>1
  <2>4. pc' \in [Gs -> PcValues]
    BY <2>1 DEF Types, PcValues, Running
  <2>5. Types'
    BY <1>1, <1>4, <2>2, <2>3, <2>4, EndedIsOp DEF Types, TypeOK, flags
  <2>6. Reasons'
    BY <1>4 DEF Reasons
  <2> QED
    BY <2>2, <2>5, <2>6
<1> QED
  BY <1>2, <1>3, <1>4 DEF closechan

\* Parking, up to the unlock of chanparkcommit, keeps the invariant.
LEMMA ParkCore ==
  ASSUME Core, NEW g \in Gs, Park(g) \/ chanparkcommit(g)
  PROVE  Core'
<1> USE DEF Core
<1>1. CASE Park(g)
  <2>1. /\ pc' = [pc EXCEPT ![g] = "active"] /\ status' = [status EXCEPT ![g] = "waiting"]
        /\ UNCHANGED <<curg, glist>> /\ UNCHANGED chanVars
    BY <1>1 DEF Park, gopark, casgstatus, Goto
  <2>2. Types' /\ Reasons'
    BY <2>1, SchedTypes DEF Types, TypeOK, PcValues, Parking, Gstatus
  <2> QED
    BY <1>1, <2>2, ParkStep
<1>2. CASE chanparkcommit(g)
  <2>1. /\ UNCHANGED <<status, queues, glist, put, thrown>>
        /\ UNCHANGED <<fields, recvq, sendq, elem, op, ops, accepted, received>>
    BY <1>2 DEF chanparkcommit
  <2>2. CASE At(g, "active")
    <3>1. /\ pc[g] = "active" /\ OnP(g) /\ pc' = [pc EXCEPT ![g] = "unlock"]
          /\ activeStackChans' = [activeStackChans EXCEPT ![g] = TRUE]
          /\ UNCHANGED <<curg, lock, parkingOnChan>>
      BY <1>2, <2>2 DEF chanparkcommit, At, OnP, Goto
    <3>2. Rest'
      BY <2>1, <3>1, ActiveStep DEF fields
    <3>3. Types' /\ Reasons'
      BY <2>1, <3>1 DEF Types, TypeOK, Reasons, fields, PcValues, Parking
    <3> QED
      BY <3>2, <3>3
  <2>3. CASE At(g, "unlock")
    <3>1. /\ pc[g] = "unlock" /\ OnP(g) /\ pc' = [pc EXCEPT ![g] = "parked"]
          /\ parkingOnChan' = [parkingOnChan EXCEPT ![g] = FALSE]
          /\ lock' = Nil /\ dropg(g) /\ UNCHANGED activeStackChans
      BY <1>2, <2>3 DEF chanparkcommit, At, OnP, Goto
    <3>2. Rest'
      BY <2>1, <3>1, UnlockStep DEF fields
    <3>3. curg' \in [Ps -> Gs \cup {Nil}]
      BY <3>1 DEF dropg, Types
    <3>4. closed = 0
      BY <3>1 DEF Rest, LockKept, Parking
    <3>5. Types' /\ Reasons'
      BY <2>1, <3>1, <3>3, <3>4 DEF Types, TypeOK, Reasons, fields, PcValues, Parking
    <3> QED
      BY <3>2, <3>5
  <2> QED
    BY <1>2, <2>2, <2>3 DEF chanparkcommit
<1> QED
  BY <1>1, <1>2

\* Every step of ready and runqput keeps the invariant.
LEMMA ReadyingCore ==
  ASSUME Core, NEW g \in Gs, Readying(g), UNCHANGED chanVars
  PROVE  Core'
<1> USE DEF Core
<1>1. CASE ready(g)
  <2>1. Rest' /\ status' \in [Gs \cup Others -> Gstatus] /\ pc' = [pc EXCEPT ![g] = "oldnext"]
    BY <1>1, ReadyStep DEF chanVars, fields
  <2>2. UNCHANGED <<curg, glist>>
    BY <1>1 DEF ready
  <2>3. Types' /\ Reasons'
    BY <2>1, <2>2, SchedTypes DEF Types, PcValues, Running, Putting
  <2> QED
    BY <2>1, <2>3
<1> QED
  BY <1>1, OldnextStep, NextStep, LoadStep, StoreStep, SlowStep DEF Readying

\* What a step may do, whoever takes it.
Act ==
  \/ \E g \in Gs : Call(g) \/ CallNil(g) \/ Operating(g)
  \/ \E p \in Ps : schedule(p) /\ UNCHANGED chanVars

\* Every step keeps the invariant.
LEMMA CoreStep ==
  ASSUME Core, Act
  PROVE  Core'
<1>1. ASSUME NEW g \in Gs, Call(g) \/ CallNil(g) \/ Operating(g) PROVE Core'
  BY <1>1, CallCore, CallNilCore, chansendCore, chanrecvCore, closechanCore, ParkCore,
     ReadyingCore DEF Operating
<1> QED
  BY <1>1, ScheduleStep DEF Act

-----------------------------------------------------------------------------
(***************************************************************************)
(* The initial states.                                                     *)
(***************************************************************************)
\* SetToSeq lists every member of a finite set once.
LEMMA SetToSeqFacts ==
  ASSUME NEW S, IsFiniteSet(S)
  PROVE  /\ SetToSeq(S) \in [1 .. Cardinality(S) -> S] /\ Cardinality(S) \in Nat
         /\ IsInjective(SetToSeq(S))
         /\ \A x \in S : \E i \in 1 .. Cardinality(S) : SetToSeq(S)[i] = x
<1> DEFINE n == Cardinality(S)
<1>1. n \in Nat /\ ExistsBijection(1 .. n, S)
  BY FS_CardinalityType
<1>2. PICK f : f \in Bijection(1 .. n, S)
  BY <1>1, Zenon DEF ExistsBijection
<1>3. f \in [1 .. n -> S] /\ IsInjective(f)
  BY <1>2, Zenon DEF Bijection, Injection
<1>4. SetToSeq(S) \in [1 .. n -> S] /\ IsInjective(SetToSeq(S))
  BY <1>3, Zenon DEF SetToSeq
<1>5. SetToSeq(S) \in Injection(1 .. n, S)
  BY <1>4, Zenon DEF Injection
<1>6. Cardinality(1 .. n) = n
  BY <1>1, FS_Interval
<1>7. SetToSeq(S) \in Surjection(1 .. n, S)
  BY <1>5, <1>6, FS_Injection, Zenon
<1>8. \A x \in S : \E i \in 1 .. n : SetToSeq(S)[i] = x
  BY <1>7, Zenon DEF Surjection
<1> QED
  BY <1>1, <1>4, <1>8

\* A function on 1 .. n is a sequence.
LEMMA FunIsSeq ==
  ASSUME NEW S, NEW T, S \subseteq T, NEW n \in Nat, NEW f \in [1 .. n -> S]
  PROVE  f \in Seq(T) /\ Len(f) = n
OBVIOUS

\* The invariant holds when nobody has used the channel.
LEMMA InitCore ==
  ASSUME Init
  PROVE  Core /\ Moments /\ RecvHadMoment
<1> USE DEF Init, SchedInit
<1>1. PICK n \in {0, RunqLen} :
        LET first == CHOOSE p \in Ps : TRUE IN
        /\ runqtail = [p \in Ps |-> IF p = first THEN n ELSE 0]
        /\ runq = [p \in Ps |-> [i \in 0 .. RunqLen - 1 |->
                     IF p = first /\ i < n THEN SetToSeq(Others)[i + 1] ELSE Nil]]
        /\ status = [g \in Gs \cup Others |->
                       IF g \in Others /\ n = 0 THEN "dead" ELSE "runnable"]
  OBVIOUS
<1> DEFINE first == CHOOSE p \in Ps : TRUE
<1>2. /\ runqtail = [p \in Ps |-> IF p = first THEN n ELSE 0]
      /\ runq = [p \in Ps |-> [i \in 0 .. RunqLen - 1 |->
                   IF p = first /\ i < n THEN SetToSeq(Others)[i + 1] ELSE Nil]]
      /\ status = [g \in Gs \cup Others |->
                     IF g \in Others /\ n = 0 THEN "dead" ELSE "runnable"]
  BY <1>1, Zenon
<1> HIDE DEF first
<1>3. /\ RunqLen \in Nat /\ RunqLen > 0 /\ Cardinality(Others) = RunqLen
      /\ \A i \in 1 .. RunqLen : SetToSeq(Others)[i] \in Others
  <2>1. SetToSeq(Others) \in [1 .. Cardinality(Others) -> Others]
    BY GoroutinesAssumption, SetToSeqFacts, Zenon
  <2> QED
    BY <2>1, RunqLenAssumption, NilGAssumption
<1>4. globrunq \in Seq(Gs \cup Others)
  <2>1. globrunq \in [1 .. Cardinality(Gs) -> Gs] /\ Cardinality(Gs) \in Nat
    BY GoroutinesAssumption, SetToSeqFacts, Zenon
  <2>2. Gs \subseteq Gs \cup Others
    OBVIOUS
  <2> QED
    BY <2>1, <2>2, FunIsSeq, Zenon
<1>5. \A g \in Gs : ~ OnP(g) /\ status[g] = "runnable" /\ pc[g] = "idle"
  BY <1>2, NilGAssumption, GoroutinesAssumption DEF OnP
<1>6. Types
  <2>1. status \in [Gs \cup Others -> Gstatus]
    BY <1>2 DEF Gstatus
  <2>2. dataqsiz \in Nat
    BY DataqSizesAssumption
  <2>3. op \in [Gs -> Op]
    BY EndedIsOp
  <2> QED
    BY <2>1, <2>2, <2>3, MaxOpsAssumption DEF Types, TypeOK, PcValues
<1>7. Placed
  BY <1>5 DEF Placed, Running, Fast, Putting
<1>8. Waiters = {} /\ \A h \in Gs : Pending(h) = {} /\ glist[h] = <<>>
  BY DEF Waiters, Range, Pending, FirstPending
<1>9. LockKept /\ Kept
  BY <1>5 DEF LockKept, Kept, Parking
<1>10. Reasons /\ Members
  BY <1>8 DEF Reasons, Members, IsInjective
<1>11. Pended
  BY <1>5, <1>8 DEF Pended, Listing, PendingWait, PendingOnce, Putting, IsInjective
<1>12. Flagged
  BY <1>5 DEF Flagged
<1>13. Ring
  <2>1. \A p \in Ps, i \in 0 .. RunqLen - 1 : runq[p][i] \in Gs \cup Others \cup {Nil}
    BY <1>2, <1>3
  <2>2. runq \in [Ps -> [0 .. RunqLen - 1 -> Gs \cup Others \cup {Nil}]]
    BY <1>2, <2>1
  <2>3. \A p \in Ps : runqtail[p] \in {0, RunqLen} /\ runqhead[p] = 0
    BY <1>2
  <2>4. ASSUME NEW p \in Ps, NEW j \in 0 .. runqtail[p] - 1 PROVE runq[p][j] \in Gs \cup Others
    <3>1. p = first /\ j < n /\ j \in 0 .. RunqLen - 1 /\ j + 1 \in 1 .. RunqLen
      BY <1>2, <1>3, <2>4
    <3>2. runq[p][j] = SetToSeq(Others)[j + 1]
      BY <1>2, <3>1
    <3> QED
      BY <1>3, <3>1, <3>2
  <2>5. /\ runnext \in [Ps -> Gs \cup Others \cup {Nil}] /\ runqhead \in [Ps -> Nat]
        /\ runqtail \in [Ps -> Nat]
    BY <1>2, <1>3
  <2> QED
    BY <1>3, <1>4, <2>2, <2>3, <2>4, <2>5 DEF Ring
<1>14. InPut
  BY <1>5, PutLocalsFacts DEF InPut, Putting, OnP
<1>15. ReadyFindsWaiting /\ RecvHadMoment
  BY DEF ReadyFindsWaiting, RecvHadMoment
<1>16. Moments
  BY <1>5 DEF Moments, Fast, InNonblocking
<1> QED
  BY <1>6, <1>7, <1>9, <1>10, <1>11, <1>12, <1>13, <1>14, <1>15, <1>16 DEF Core, Rest

-----------------------------------------------------------------------------
(***************************************************************************)
(* The history of non-blocking operations.                                 *)
(***************************************************************************)
\* Between its call and the moment it gets the lock or returns.
Calling == Fast \cup {"lock"}

\* How the goroutine k, its operation and closed may change in a step.
OpFrame(k) ==
  /\ pc'[k] \in Calling =>
       \/ /\ pc[k] \in Calling /\ op'[k] = op[k] /\ (pc'[k] \in Fast => pc[k] \in Fast)
       \/ /\ op'[k].kind \in {"send", "recv", "close"}
          /\ pc'[k] \in Fast => ~ op'[k].block
          /\ pc'[k] # "fast2"
  /\ pc'[k] = "fast2" /\ pc[k] # "fast2" /\ op'[k].kind = "recv" => empty'
  /\ pc[k] \in Calling /\ op[k].kind # "false" /\ op'[k].kind = "false" =>
       \/ op[k].kind = "send"
       \/ op[k].kind = "recv" /\ pc[k] = "fast2" /\ closed = 0
       \/ op[k].kind = "recv" /\ NotReady(k)

\* Steps of g that begin no operation and end none with false.
LEMMA QuietFrame ==
  ASSUME Types, NEW g \in Gs, NEW l, pc' = [pc EXCEPT ![g] = l], l \notin Calling,
         op' = op \/ op' = [op EXCEPT ![g] = Ended("done")]
  PROVE  \A k \in Gs : OpFrame(k)
<1>1. Ended("done").kind # "false"
  BY EndedIsOp
<1>2. \A k \in Gs : pc'[k] \in Calling => k # g /\ pc'[k] = pc[k] /\ op'[k] = op[k]
  BY DEF Types, TypeOK
<1>3. \A k \in Gs : op'[k].kind = "false" => op'[k] = op[k]
  BY <1>1 DEF Types, TypeOK
<1> QED
  BY <1>2, <1>3 DEF OpFrame, Calling, Fast

\* Steps of g that end an operation with false, for a reason.
LEMMA FalseFrame ==
  ASSUME Types, NEW g \in Gs, pc' = [pc EXCEPT ![g] = "idle"],
         op' = [op EXCEPT ![g] = Ended("false")],
         \/ op[g].kind = "send"
         \/ op[g].kind = "recv" /\ pc[g] = "fast2" /\ closed = 0
         \/ op[g].kind = "recv" /\ NotReady(g)
  PROVE  \A k \in Gs : OpFrame(k)
<1>1. \A k \in Gs : pc'[k] \in Calling => k # g /\ pc'[k] = pc[k] /\ op'[k] = op[k]
  BY DEF Types, TypeOK, Calling, Fast
<1>2. \A k \in Gs : k # g => op'[k] = op[k]
  BY DEF Types, TypeOK
<1> QED
  BY <1>1, <1>2 DEF OpFrame, Calling, Fast

\* Steps of g along its fast path.
LEMMA AlongFrame ==
  ASSUME Types, NEW g \in Gs, pc[g] \in Fast, NEW l \in {"fast2", "fast3", "lock"},
         pc' = [pc EXCEPT ![g] = l], op' = op, l = "fast2" /\ op[g].kind = "recv" => empty'
  PROVE  \A k \in Gs : OpFrame(k)
BY DEF Types, OpFrame, Calling, Fast

\* Every step treats the operations of all goroutines as OpFrame says.
LEMMA ActFrame ==
  ASSUME Core, Act
  PROVE  (\A k \in Gs : OpFrame(k)) /\ (closed # 0 => closed' # 0)
<1> USE DEF Core
<1>1. ASSUME NEW g \in Gs, Call(g)
      PROVE  (\A k \in Gs : OpFrame(k)) /\ closed' = closed
  <2>1. PICK m \in {"send", "recv", "close"}, b \in BOOLEAN :
          /\ op' = [op EXCEPT ![g] = [kind |-> m, block |-> b, val |-> ops + 1]]
          /\ pc' = [pc EXCEPT ![g] = IF b THEN "lock" ELSE "fast1"]
    BY <1>1 DEF Call, Goto
  <2>2. pc[g] = "idle" /\ closed' = closed
    BY <1>1 DEF Call, At, fields
  <2>3. \A k \in Gs : k # g => pc'[k] = pc[k] /\ op'[k] = op[k]
    BY <2>1 DEF Types, TypeOK
  <2>4. op'[g] = [kind |-> m, block |-> b, val |-> ops + 1]
    BY <2>1 DEF Types, TypeOK
  <2>5. op'[g].kind \in {"send", "recv", "close"}
    BY <2>4
  <2>6. pc'[g] = IF b THEN "lock" ELSE "fast1"
    BY <2>1 DEF Types
  <2>7. pc'[g] \in Fast => ~ op'[g].block
    <3>1. op'[g].block = b
      BY <2>4
    <3>2. CASE b
      BY <2>6, <3>2 DEF Fast
    <3>3. CASE ~ b
      BY <3>1, <3>3, Zenon
    <3> QED
      BY <3>2, <3>3
  <2>8. pc'[g] # "fast2"
    BY <2>6
  <2> QED
    BY <2>2, <2>3, <2>5, <2>7, <2>8 DEF OpFrame, Calling, Fast
<1>2. ASSUME NEW g \in Gs, CallNil(g)
      PROVE  (\A k \in Gs : OpFrame(k)) /\ closed' = closed
  BY <1>2, QuietFrame DEF CallNil, Goto, fields, Calling, Fast
<1>3. ASSUME NEW g \in Gs, FastSend(g)
      PROVE  (\A k \in Gs : OpFrame(k)) /\ closed' = closed
  <2>1. closed' = closed /\ op[g].kind = "send"
    BY <1>3 DEF FastSend, FastStep, fields
  <2>2. \/ /\ pc[g] \in Fast /\ op' = op
           /\ \E l \in {"fast2", "fast3", "lock"} : pc' = [pc EXCEPT ![g] = l]
        \/ pc' = [pc EXCEPT ![g] = "idle"] /\ op' = [op EXCEPT ![g] = Ended("false")]
    BY <1>3 DEF FastSend, At, Goto, Return, Fast
  <2> QED
    BY <2>1, <2>2, AlongFrame, FalseFrame
<1>4. ASSUME NEW g \in Gs, FastRecv(g)
      PROVE  (\A k \in Gs : OpFrame(k)) /\ closed' = closed
  <2>1. closed' = closed /\ op[g].kind = "recv" /\ empty' = empty
    BY <1>4 DEF FastRecv, FastStep, fields, empty
  <2>2. CASE At(g, "fast1")
    <3>1. /\ pc[g] = "fast1" /\ op' = op
          /\ \E l \in {"fast2", "lock"} : pc' = [pc EXCEPT ![g] = l] /\ (l = "fast2" => empty)
      BY <1>4, <2>2, Zenon DEF FastRecv, At, Goto
    <3> QED
      BY <2>1, <3>1, AlongFrame DEF Fast
  <2>3. CASE At(g, "fast2")
    <3>1. /\ pc[g] = "fast2"
          /\ \/ op' = op /\ pc' = [pc EXCEPT ![g] = "fast3"]
             \/ /\ closed = 0 /\ pc' = [pc EXCEPT ![g] = "idle"]
                /\ op' = [op EXCEPT ![g] = Ended("false")]
      BY <1>4, <2>3 DEF FastRecv, At, Goto, Return
    <3> QED
      BY <2>1, <3>1, AlongFrame, FalseFrame DEF Fast
  <2>4. CASE At(g, "fast3")
    <3>1. /\ pc[g] = "fast3"
          /\ \/ op' = op /\ pc' = [pc EXCEPT ![g] = "lock"]
             \/ pc' = [pc EXCEPT ![g] = "idle"] /\ op' = [op EXCEPT ![g] = Ended("done")]
      BY <1>4, <2>4 DEF FastRecv, At, Goto, Return
    <3> QED
      BY <2>1, <3>1, AlongFrame, QuietFrame DEF Fast, Calling
  <2> QED
    BY <1>4, <2>2, <2>3, <2>4 DEF FastRecv
<1>5. ASSUME NEW g \in Gs, chansend(g)
      PROVE  (\A k \in Gs : OpFrame(k)) /\ closed' = closed
  <2>1. closed' = closed /\ op[g].kind = "send"
    BY <1>5 DEF chansend, Locks
  <2>2. \/ /\ \E l \in {"gone", "idle", "park"} : pc' = [pc EXCEPT ![g] = l]
           /\ op' = op \/ op' = [op EXCEPT ![g] = Ended("done")]
        \/ pc' = [pc EXCEPT ![g] = "idle"] /\ op' = [op EXCEPT ![g] = Ended("false")]
    BY <1>5 DEF chansend, Panic, Return, Enqueue, Goto
  <2> QED
    BY <2>1, <2>2, QuietFrame, FalseFrame DEF Calling, Fast
<1>6. ASSUME NEW g \in Gs, chanrecv(g)
      PROVE  (\A k \in Gs : OpFrame(k)) /\ closed' = closed
  <2>1. closed' = closed /\ op[g].kind = "recv"
    BY <1>6 DEF chanrecv, Locks
  <2>2. \/ /\ \E l \in {"idle", "park", "ready"} : pc' = [pc EXCEPT ![g] = l]
           /\ op' = op \/ op' = [op EXCEPT ![g] = Ended("done")]
        \/ /\ pc' = [pc EXCEPT ![g] = "idle"] /\ op' = [op EXCEPT ![g] = Ended("false")]
           /\ closed = 0 /\ sendq = <<>> /\ qcount = 0
    BY <1>6 DEF chanrecv, Return, Enqueue, Goto
  <2>3. closed = 0 /\ sendq = <<>> /\ qcount = 0 => NotReady(g)
    BY <2>1 DEF NotReady, empty
  <2> QED
    BY <2>1, <2>2, <2>3, QuietFrame, FalseFrame DEF Calling, Fast
<1>7. ASSUME NEW g \in Gs, closechan(g)
      PROVE  (\A k \in Gs : OpFrame(k)) /\ (closed # 0 => closed' # 0)
  <2>1. closed # 0 => closed' # 0
    BY <1>7 DEF closechan
  <2>2. /\ \E l \in {"gone", "release", "idle", "ready"} : pc' = [pc EXCEPT ![g] = l]
        /\ op' = op \/ op' = [op EXCEPT ![g] = Ended("done")]
    BY <1>7 DEF closechan, Panic, Goto
  <2> QED
    BY <2>1, <2>2, QuietFrame DEF Calling, Fast
<1>8. ASSUME NEW g \in Gs, Park(g) \/ chanparkcommit(g)
      PROVE  (\A k \in Gs : OpFrame(k)) /\ closed' = closed
  <2>1. closed' = closed /\ op' = op
    BY <1>8 DEF Park, chanparkcommit, chanVars, fields
  <2>2. \E l \in {"active", "unlock", "parked"} : pc' = [pc EXCEPT ![g] = l]
    BY <1>8 DEF Park, chanparkcommit, gopark, Goto
  <2> QED
    BY <2>1, <2>2, QuietFrame DEF Calling, Fast
<1>9. ASSUME NEW g \in Gs, Readying(g), UNCHANGED chanVars
      PROVE  (\A k \in Gs : OpFrame(k)) /\ closed' = closed
  <2>1. closed' = closed /\ op' = op
    BY <1>9 DEF chanVars, fields
  <2>2. pc' = pc \/ \E l \in Putting \cup {"ready", "idle"} : pc' = [pc EXCEPT ![g] = l]
    BY <1>9 DEF Readying, ready, runqputOldnext, runqputNext, runqputLoad, runqputStore,
                runqputslow, ReadyNext, Goto, Putting
  <2>3. pc' = pc => \A k \in Gs : OpFrame(k)
    BY <2>1 DEF OpFrame
  <2> QED
    BY <2>1, <2>2, <2>3, QuietFrame DEF Calling, Fast, Putting
<1>10. ASSUME NEW p \in Ps, schedule(p), UNCHANGED chanVars
       PROVE  (\A k \in Gs : OpFrame(k)) /\ closed' = closed
  <2>1. closed' = closed /\ op' = op
    BY <1>10 DEF chanVars, fields
  <2>2. pc' = pc \/ \E x : pc' = [pc EXCEPT ![x] = "idle"]
    BY <1>10 DEF schedule, execute, Goto
  <2>3. \A k \in Gs : pc'[k] = pc[k] \/ pc'[k] = "idle"
    BY <2>2 DEF Types
  <2> QED
    BY <2>1, <2>3 DEF OpFrame, Calling, Fast
<1> QED
  BY <1>1, <1>2, <1>3, <1>4, <1>5, <1>6, <1>7, <1>8, <1>9, <1>10 DEF Act, Operating

\* Every step keeps what the invariant says of non-blocking operations.
LEMMA MomentsStep ==
  ASSUME IInv, Next
  PROVE  Moments' /\ RecvHadMoment'
<1>1. (\A k \in Gs : OpFrame(k)) /\ (closed # 0 => closed' # 0)
  <2>1. Core /\ Act
    BY DEF IInv, Next, Act
  <2> QED
    BY <2>1, ActFrame
<1>2. couldNot' = [g \in Gs |-> InNonblocking(g)' /\ (couldNot[g] \/ NotReady(g)')]
  BY DEF Next
<1>3. couldNot' \in [Gs -> BOOLEAN]
  BY <1>2, Zenon
<1>4. \A k \in Gs : InNonblocking(k)' /\ (couldNot[k] \/ NotReady(k)') => couldNot'[k]
  BY <1>2, Zenon
<1>5. ASSUME NEW k \in Gs
      PROVE  /\ pc'[k] \in Fast => ~ op'[k].block
             /\ pc'[k] \in Fast \cup {"lock"} => op'[k].kind \in {"send", "recv", "close"}
  <2>1. /\ pc[k] \in Fast => ~ op[k].block
        /\ pc[k] \in Fast \cup {"lock"} => op[k].kind \in {"send", "recv", "close"}
    BY Zenon DEF IInv, Moments
  <2>2. /\ pc'[k] \in Calling =>
             \/ pc[k] \in Calling /\ op'[k] = op[k] /\ (pc'[k] \in Fast => pc[k] \in Fast)
             \/ /\ op'[k].kind \in {"send", "recv", "close"}
                /\ pc'[k] \in Fast => ~ op'[k].block
    BY <1>1, Zenon DEF OpFrame
  <2> QED
    BY <2>1, <2>2, Zenon DEF Calling
<1>6. ASSUME NEW k \in Gs, pc'[k] = "fast2", op'[k].kind = "recv"
      PROVE  couldNot'[k] \/ closed' # 0
  <2>1. InNonblocking(k)'
    BY <1>5, <1>6, Zenon DEF InNonblocking, Fast
  <2>2. CASE pc[k] = "fast2"
    <3>1. op'[k] = op[k]
      BY <1>1, <1>6, <2>2 DEF OpFrame, Calling, Fast
    <3>2. couldNot[k] \/ closed # 0
      BY <1>6, <2>2, <3>1, Zenon DEF IInv, Moments
    <3> QED
      BY <1>1, <1>4, <2>1, <3>2, Zenon
  <2>3. CASE pc[k] # "fast2"
    <3>1. empty'
      BY <1>1, <1>6, <2>3, Zenon DEF OpFrame
    <3>2. closed' = 0 => NotReady(k)'
      BY <1>6, <3>1, Zenon DEF NotReady
    <3> QED
      BY <1>4, <2>1, <3>2, Zenon
  <2> QED
    BY <2>2, <2>3
<1>7. Moments'
  BY <1>3, <1>4, <1>5, <1>6, Zenon DEF Moments
<1>8. RecvHadMoment'
  <2>1. SUFFICES ASSUME NEW k \in Gs, InNonblocking(k), ~ couldNot[k], op'[k].kind = "false",
                        op[k].kind = "recv"
                 PROVE  FALSE
    BY Zenon DEF Next, IInv, RecvHadMoment
  <2>2. pc[k] \in Calling /\ op[k].kind # "false" /\ op[k].kind # "send"
    BY <2>1 DEF InNonblocking, Calling, Fast
  <2>3. \/ pc[k] = "fast2" /\ closed = 0
        \/ NotReady(k)
    BY <1>1, <2>1, <2>2, Zenon DEF OpFrame
  <2>4. NotReady(k) => couldNot[k]
    BY <2>1, Zenon DEF IInv, Moments
  <2>5. pc[k] = "fast2" => couldNot[k] \/ closed # 0
    BY <2>1, Zenon DEF IInv, Moments
  <2> QED
    BY <2>1, <2>3, <2>4, <2>5, Zenon
<1> QED
  BY <1>7, <1>8

\* The locals of runqput keep what they say of queues that do not change.
LEMMA InPutSame ==
  ASSUME InPut, UNCHANGED <<put, thrown, curg, pc, runq, runqtail>>
  PROVE  InPut'
BY DEF InPut, HalfRing

\* A step that changes nothing keeps the invariant.
LEMMA Stutter ==
  ASSUME IInv, UNCHANGED vars
  PROVE  IInv'
<1> USE DEF IInv, Core, Rest, vars, schedVars, chanVars, queues, fields, flags
<1>1. Types' /\ Reasons' /\ Placed'
  BY DEF Types, TypeOK, Reasons, Placed, OnP
<1>2. Waiters' = Waiters /\ \A k \in Gs : Pending(k)' = Pending(k)
  BY DEF Waiters, Pending, FirstPending
<1>3. LockKept' /\ Members' /\ Kept' /\ Flagged'
  BY <1>2 DEF LockKept, Members, Kept, Stuck, Flagged
<1>4. Pended'
  BY <1>2 DEF Pended, Listing, PendingWait, PendingOnce
<1>5. Ring' /\ InPut' /\ ReadyFindsWaiting' /\ RecvHadMoment'
  <2>1. Ring'
    BY DEF Ring
  <2>4. InPut'
    BY InPutSame
  <2>5. ReadyFindsWaiting' /\ RecvHadMoment'
    BY DEF ReadyFindsWaiting, RecvHadMoment
  <2> QED
    BY <2>1, <2>4, <2>5
<1>6. ASSUME NEW k \in Gs
      PROVE  (InNonblocking(k)' <=> InNonblocking(k)) /\ (NotReady(k)' <=> NotReady(k))
  BY DEF InNonblocking, NotReady, full, empty
<1>7. couldNot' = couldNot /\ pc' = pc /\ op' = op /\ closed' = closed
  OBVIOUS
<1>8. Moments'
  BY <1>6, <1>7, Zenon DEF Moments
<1> QED
  BY <1>1, <1>3, <1>4, <1>5, <1>8

\* The inductive invariant: however the goroutines, the Ps and the channel
\* operations interleave, the state of the channel and of Sched is as IInv says.
THEOREM Invariance == Spec => []IInv
<1>1. Init => IInv
  BY InitCore DEF IInv
<1>2. IInv /\ [Next]_vars => IInv'
  <2>1. ASSUME IInv, Next PROVE IInv'
    <3>1. Core /\ Act
      BY <2>1 DEF IInv, Next, Act
    <3> QED
      BY <2>1, <3>1, CoreStep, MomentsStep DEF IInv
  <2> QED
    BY <2>1, Stutter
<1> QED
  BY <1>1, <1>2, PTL DEF Spec

\* Every variable of the channel keeps its type: the indices of the buffer stay
\* within it, the count is at most its size.
THEOREM TypeCorrect == Spec => []TypeOK
<1>1. IInv => TypeOK
  BY DEF IInv, Core, Types
<1> QED
  BY <1>1, Invariance, PTL

\* Whoever waits, waits for a reason, which recv relies on when it takes the
\* head of a buffer it believes to be full.
THEOREM WaitersJustified == Spec => []WaitersHaveReason
<1>1. IInv => WaitersHaveReason
  BY DEF IInv, Core, Reasons, WaitersHaveReason
<1> QED
  BY <1>1, Invariance, PTL

\* goready never meets a goroutine that has not parked yet or was readied by
\* somebody else: the lock is kept until chanparkcommit has run, and a goroutine
\* is on one queue or one list.
THEOREM ReadyIsSafe == Spec => []ReadyFindsWaiting
<1>1. IInv => ReadyFindsWaiting
  BY DEF IInv, Core, Rest
<1> QED
  BY <1>1, Invariance, PTL

\* A goroutine that waits on the channel shows parkingOnChan or
\* activeStackChans at every moment, the steps of chanparkcommit included.
THEOREM StackShrinkSeesFlags == Spec => []StackChansFlagged
<1>1. IInv => StackChansFlagged
  <2> SUFFICES ASSUME IInv, NEW g \in Gs, status[g] = "waiting", elem[g] # Nil
               PROVE  parkingOnChan[g] \/ activeStackChans[g]
    BY DEF StackChansFlagged
  <2>1. pc[g] \in Parking \/ pc[g] = "parked"
    BY DEF IInv, Core, Rest, Flagged
  <2>2. pc[g] \in {"park", "active"} \/ pc[g] \in {"unlock", "parked"}
    BY <2>1 DEF Parking
  <2> QED
    BY <2>2, Zenon DEF IInv, Core, Rest, Flagged
<1> QED
  BY <1>1, Invariance, PTL

\* The three unlocked reads of a non-blocking chanrecv never make it report
\* "not ready" unless the channel was open and empty at one moment of the call.
THEOREM FastRecvHadMoment == Spec => []RecvHadMoment
<1>1. IInv => RecvHadMoment
  BY DEF IInv
<1> QED
  BY <1>1, Invariance, PTL

\* Nobody is taken off a wait queue and forgotten: a parked goroutine is on a
\* queue of the open channel or on the list of somebody who will ready it.
THEOREM NobodyForgotten == Spec => []NobodyStranded
<1>1. IInv => NobodyStranded
  <2> SUFFICES ASSUME IInv, lock = Nil, NEW g \in Gs, pc[g] = "parked", status[g] = "waiting"
               PROVE  \/ closed = 0 /\ g \in Range(recvq) \cup Range(sendq)
                      \/ \E h \in Gs : g \in Range(glist[h])
    BY DEF NobodyStranded
  <2>1. g \in Waiters \/ \E h \in Gs : g \in Pending(h)
    BY DEF IInv, Core, Rest, Kept, Stuck
  <2>2. g \in Waiters => closed = 0
    BY DEF IInv, Core, Reasons, Waiters, Range
  <2>3. ASSUME NEW h \in Gs, g \in Pending(h) PROVE g \in Range(glist[h])
    <3>1. glist[h] \in Seq(Gs)
      BY DEF IInv, Core, Types
    <3>2. PICK i \in FirstPending(h) .. Len(glist[h]) : g = glist[h][i]
      BY <2>3 DEF Pending
    <3>3. i \in DOMAIN glist[h]
      BY <3>1 DEF FirstPending
    <3> QED
      BY <3>2, <3>3, Zenon DEF Range
  <2> QED
    BY <2>1, <2>2, <2>3 DEF Waiters
<1> QED
  BY <1>1, Invariance, PTL

-----------------------------------------------------------------------------
(***************************************************************************)
(* Every runnable goroutine is in one place: the run queues of Sched under *)
(* the channel operations, for any even length of the ring.                *)
(*                                                                         *)
(* The invariant is stated without counting.  The places of a goroutine    *)
(* form four sets (runnext slots, slots of a ring, indices of the global   *)
(* queue, goroutines whose runqput works for it); at most one of the sets  *)
(* has a member, that set has one, and there is one exactly while the      *)
(* goroutine is runnable.                                                  *)
(***************************************************************************)
AtMostOne(S) == \A a, b \in S : a = b

InNext(x) == {p \in Ps : runnext[p] = x}
InGlobal(x) == {i \in DOMAIN globrunq : globrunq[i] = x}

\* While the tail of a ring is 0 or RunqLen, a slot is its own index.
Slots(x) ==
  {s \in Ps \X (0 .. RunqLen - 1) :
     runqhead[s[1]] <= s[2] /\ s[2] < runqtail[s[1]] /\ runq[s[1]][s[2]] = x}

\* In one place if and only if runnable.
OnePlaceOf(N, R, G, H, runnable) ==
  /\ AtMostOne(N) /\ AtMostOne(R) /\ AtMostOne(G) /\ AtMostOne(H)
  /\ N # {} => R = {} /\ G = {} /\ H = {}
  /\ R # {} => G = {} /\ H = {}
  /\ G # {} => H = {}
  /\ runnable <=> N # {} \/ R # {} \/ G # {} \/ H # {}

UniqueFor(x) == OnePlaceOf(InNext(x), Slots(x), InGlobal(x), InHand(x), status[x] = "runnable")
Unique == thrown = "none" => \A x \in Gs \cup Others : UniqueFor(x)

-----------------------------------------------------------------------------
(***************************************************************************)
(* Moving between places.                                                  *)
(***************************************************************************)
\* The places of x stay what they are.
LEMMA SamePlaces ==
  ASSUME NEW x \in Gs \cup Others, UniqueFor(x),
         InNext(x)' = InNext(x), Slots(x)' = Slots(x), InGlobal(x)' = InGlobal(x),
         InHand(x)' = InHand(x), status'[x] = "runnable" <=> status[x] = "runnable"
  PROVE  UniqueFor(x)'
BY DEF UniqueFor, OnePlaceOf, AtMostOne

\* What a goroutine holds in hand depends on its pc and its locals only.
LEMMA HandFrame ==
  ASSUME NEW g \in Gs, \A k \in Gs \ {g} : pc'[k] = pc[k] /\ put'[k] = put[k], NEW x
  PROVE  /\ \A k \in Gs : k \in InHand(x) <=> put[k].gp = x /\ pc[k] \in Putting
         /\ \A k \in Gs : k \in InHand(x)' <=> put'[k].gp = x /\ pc'[k] \in Putting
         /\ \A k \in Gs \ {g} : k \in InHand(x)' <=> k \in InHand(x)
BY DEF InHand, Putting

\* The run queues do not change.
LEMMA QueueFrame ==
  ASSUME UNCHANGED queues, NEW x
  PROVE  InNext(x)' = InNext(x) /\ Slots(x)' = Slots(x) /\ InGlobal(x)' = InGlobal(x)
BY DEF InNext, Slots, InGlobal, queues

\* A step of g that is in no runqput and makes nobody runnable.
LEMMA QuietStep ==
  ASSUME Core, Unique, NEW g \in Gs, pc[g] \notin Putting,
         NEW l, l \notin Putting, pc' = [pc EXCEPT ![g] = l],
         \A x \in Gs \cup Others : status'[x] = "runnable" <=> status[x] = "runnable",
         UNCHANGED queues, put' = put, thrown' = thrown
  PROVE  Unique'
<1>1. pc'[g] = l /\ \A k \in Gs \ {g} : pc'[k] = pc[k]
  BY DEF Core, Types
<1>2. ASSUME NEW x \in Gs \cup Others PROVE InHand(x)' = InHand(x)
  <2>1. \A k \in Gs : k \in InHand(x)' <=> k \in InHand(x)
    BY <1>1, HandFrame
  <2> QED
    BY <2>1 DEF InHand
<1> QED
  BY <1>2, QueueFrame, SamePlaces DEF Unique

\* A step of g within runqput that moves nobody.
LEMMA StayStep ==
  ASSUME Core, Unique, NEW g \in Gs, pc[g] \in Putting, pc'[g] \in Putting,
         put'[g].gp = put[g].gp, \A k \in Gs \ {g} : pc'[k] = pc[k] /\ put'[k] = put[k],
         status' = status, UNCHANGED queues, thrown' = thrown
  PROVE  Unique'
<1>1. ASSUME NEW x \in Gs \cup Others PROVE InHand(x)' = InHand(x)
  <2>1. \A k \in Gs : k \in InHand(x)' <=> k \in InHand(x)
    BY HandFrame
  <2> QED
    BY <2>1 DEF InHand
<1> QED
  BY <1>1, QueueFrame, SamePlaces DEF Unique

-----------------------------------------------------------------------------
(***************************************************************************)
(* One lemma for each step that moves a goroutine.                         *)
(***************************************************************************)
\* ready takes a goroutine that was nowhere into the hands of g.
LEMMA ReadyMoves ==
  ASSUME Core, Unique, NEW g \in Gs, ready(g)
  PROVE  Unique'
<1> DEFINE gp == Head(glist[g])
<1>1. pc[g] = "ready" /\ thrown = "none" /\ UNCHANGED queues
  BY DEF ready, At
<1>2. CASE status[gp] # "waiting"
  <2>1. thrown' # "none"
    BY <1>2 DEF ready
  <2> QED
    BY <2>1 DEF Unique
<1>3. CASE status[gp] = "waiting"
  <2>1. /\ status' = [status EXCEPT ![gp] = "runnable"]
        /\ put' = [put EXCEPT ![g] = [PutLocals EXCEPT !.gp = gp]]
        /\ pc' = [pc EXCEPT ![g] = "oldnext"] /\ thrown' = thrown
    BY <1>3 DEF ready, casgstatus, Goto
  <2>2. gp \in Gs
    BY <1>1 DEF Core, Types, Rest, Pended, Listing
  <2>3. [PutLocals EXCEPT !.gp = gp].gp = gp
    BY DEF PutLocals
  <2>4. /\ pc'[g] = "oldnext" /\ put'[g].gp = gp
        /\ \A k \in Gs \ {g} : pc'[k] = pc[k] /\ put'[k] = put[k]
    BY <2>1, <2>3 DEF Core, Types, Rest, InPut
  <2>5. /\ status'[gp] = "runnable"
        /\ \A x \in Gs \cup Others : x # gp => status'[x] = status[x]
    BY <2>1, <2>2 DEF Core, Types, TypeOK
  <2>6. ASSUME NEW x \in Gs \cup Others PROVE UniqueFor(x)'
    <3>1. UniqueFor(x) /\ InNext(x)' = InNext(x) /\ Slots(x)' = Slots(x) /\ InGlobal(x)' = InGlobal(x)
      BY <1>1, QueueFrame DEF Unique
    <3>2. /\ g \notin InHand(x) /\ (g \in InHand(x)' <=> x = gp)
          /\ \A k \in Gs \ {g} : k \in InHand(x)' <=> k \in InHand(x)
      BY <1>1, <2>4, HandFrame DEF Putting
    <3>3. CASE x = gp
      <4>1. InHand(x) = {}
        BY <1>3, <3>1, <3>3 DEF UniqueFor, OnePlaceOf
      <4>2. InHand(x)' = {g}
        BY <3>2, <3>3, <4>1 DEF InHand
      <4> QED
        BY <1>3, <2>5, <3>1, <3>3, <4>2 DEF UniqueFor, OnePlaceOf, AtMostOne
    <3>4. CASE x # gp
      <4>1. InHand(x)' = InHand(x)
        BY <3>2, <3>4 DEF InHand
      <4> QED
        BY <2>5, <3>1, <3>4, <4>1, SamePlaces
    <3> QED
      BY <3>3, <3>4
  <2> QED
    BY <2>6 DEF Unique
<1> QED
  BY <1>2, <1>3

\* runqput puts the goroutine in hand into runnext, and has in hand what was
\* there.
LEMMA NextMoves ==
  ASSUME Core, Unique, NEW g \in Gs, runqputNext(g)
  PROVE  Unique'
<1> DEFINE p == P(g)
<1> DEFINE old == put[g].oldnext
<1> DEFINE gp == put[g].gp
<1>1. /\ pc[g] = "casnext" /\ OnP(g) /\ thrown = "none"
      /\ UNCHANGED <<status, curg, runq, runqhead, runqtail, globrunq, thrown>>
  BY DEF runqputNext, At, OnP
<1>2. CASE runnext[p] # old
  <2>1. pc' = [pc EXCEPT ![g] = "oldnext"] /\ UNCHANGED <<runnext, put>>
    BY <1>2 DEF runqputNext, Goto
  <2> QED
    BY <1>1, <2>1, StayStep DEF Core, Types, Putting, queues
<1>3. CASE runnext[p] = old
  <2>1. /\ runnext' = [runnext EXCEPT ![p] = gp]
        /\ put' = [put EXCEPT ![g] = [PutLocals EXCEPT !.gp = old]]
        /\ IF old = Nil THEN ReadyNext(g) ELSE Goto(g, "load")
    BY <1>3 DEF runqputNext
  <2>2. p \in Ps /\ gp \in Gs \cup Others /\ old \in Gs \cup Others \cup {Nil}
    BY <1>1, <1>3, OnItsP DEF Core, Rest, InPut, Ring, Putting, OnP
  <2>3. [PutLocals EXCEPT !.gp = old].gp = old
    BY DEF PutLocals
  <2>4. /\ put'[g].gp = old /\ (pc'[g] \in Putting <=> old # Nil)
        /\ \A k \in Gs \ {g} : pc'[k] = pc[k] /\ put'[k] = put[k]
    <3>1. put'[g].gp = old /\ \A k \in Gs \ {g} : put'[k] = put[k]
      BY <2>1, <2>3 DEF Core, Rest, InPut
    <3>2. CASE old = Nil
      <4>1. pc' = [pc EXCEPT ![g] = "ready"] \/ pc' = [pc EXCEPT ![g] = "idle"]
        BY <2>1, <3>2 DEF ReadyNext, Goto
      <4> QED
        BY <3>1, <3>2, <4>1 DEF Core, Types, Putting
    <3>3. CASE old # Nil
      BY <2>1, <3>1, <3>3 DEF Goto, Core, Types, Putting
    <3> QED
      BY <3>2, <3>3
  <2>5. \A q \in Ps : runnext'[q] = IF q = p THEN gp ELSE runnext[q]
    BY <2>1, <2>2 DEF Core, Rest, Ring
  <2> HIDE DEF p, old, gp
  <2>6. ASSUME NEW x \in Gs \cup Others PROVE UniqueFor(x)'
    <3>1. UniqueFor(x) /\ Slots(x)' = Slots(x) /\ InGlobal(x)' = InGlobal(x) /\ x # Nil
      BY <1>1, NilGAssumption DEF Unique, Slots, InGlobal
    <3>2. /\ (g \in InHand(x) <=> x = gp) /\ (g \in InHand(x)' <=> x = old)
          /\ \A k \in Gs \ {g} : k \in InHand(x)' <=> k \in InHand(x)
      BY <1>1, <2>4, <3>1, HandFrame DEF Putting, gp
    <3>3. /\ (p \in InNext(x) <=> x = old) /\ (p \in InNext(x)' <=> x = gp)
          /\ \A q \in Ps \ {p} : q \in InNext(x)' <=> q \in InNext(x)
      BY <1>3, <2>2, <2>5 DEF InNext
    <3>4. /\ InHand(x) \subseteq Gs /\ InHand(x)' \subseteq Gs
          /\ InNext(x) \subseteq Ps /\ InNext(x)' \subseteq Ps
      BY DEF InHand, InNext
    <3>5. x = gp => x # old
      BY <3>1, <3>2, <3>3 DEF UniqueFor, OnePlaceOf
    <3>6. CASE x = gp
      <4>1. InHand(x) = {g} /\ InNext(x) = {} /\ Slots(x) = {} /\ InGlobal(x) = {}
            /\ status[x] = "runnable"
        BY <3>1, <3>2, <3>4, <3>6 DEF UniqueFor, OnePlaceOf, AtMostOne
      <4>2. InHand(x)' = {} /\ InNext(x)' = {p}
        BY <2>2, <3>2, <3>3, <3>4, <3>5, <3>6, <4>1
      <4> QED
        BY <1>1, <3>1, <4>1, <4>2 DEF UniqueFor, OnePlaceOf, AtMostOne
    <3>7. CASE x = old
      <4>1. InHand(x) = {} /\ InNext(x) = {p} /\ Slots(x) = {} /\ InGlobal(x) = {}
            /\ status[x] = "runnable"
        BY <3>1, <3>3, <3>4, <3>7 DEF UniqueFor, OnePlaceOf, AtMostOne
      <4>2. InHand(x)' = {g} /\ InNext(x)' = {}
        BY <2>2, <3>2, <3>3, <3>4, <3>5, <3>7, <4>1
      <4> QED
        BY <1>1, <3>1, <4>1, <4>2 DEF UniqueFor, OnePlaceOf, AtMostOne
    <3>8. CASE x # gp /\ x # old
      <4>1. InHand(x)' = InHand(x) /\ InNext(x)' = InNext(x)
        BY <2>2, <3>2, <3>3, <3>4, <3>8
      <4> QED
        BY <1>1, <3>1, <4>1, SamePlaces
    <3> QED
      BY <3>6, <3>7, <3>8
  <2> QED
    BY <2>6 DEF Unique
<1> QED
  BY <1>2, <1>3

\* The slots of a ring from its head to its tail.
LEMMA SlotMember ==
  ASSUME NEW x, NEW q \in Ps, NEW j \in 0 .. RunqLen - 1
  PROVE  <<q, j>> \in Slots(x) <=>
           runqhead[q] <= j /\ j < runqtail[q] /\ runq[q][j] = x
BY DEF Slots

\* runqputslow moves half of the ring and the goroutine in hand to the global
\* queue.
LEMMA SlowMoves ==
  ASSUME Core, Unique, NEW g \in Gs, runqputslow(g)
  PROVE  Unique'
<1> DEFINE p == P(g)
<1> DEFINE gp == put[g].gp
<1> DEFINE half == RunqLen \div 2
<1> DEFINE n == Len(globrunq)
<1>1. /\ pc[g] = "cashead" /\ OnP(g) /\ thrown = "none"
      /\ UNCHANGED <<status, curg, runnext, runq, runqtail, thrown>>
  BY DEF runqputslow, At, OnP
<1>2. /\ p \in Ps /\ gp \in Gs \cup Others
      /\ put[g].h = 0 /\ runqtail[p] = RunqLen /\ put[g].batch = HalfRing(p)
  BY <1>1, OnItsP DEF Core, Rest, InPut, Putting, OnP
<1>3. CASE runqhead[p] # put[g].h
  <2>1. pc' = [pc EXCEPT ![g] = "load"] /\ UNCHANGED <<runqhead, globrunq, put>>
    BY <1>3 DEF runqputslow, Goto
  <2> QED
    BY <1>1, <2>1, StayStep DEF Core, Types, Putting, queues
<1>4. CASE runqhead[p] = put[g].h
  <2>1. HalfRing(p) \in Seq(Gs \cup Others) /\ Len(HalfRing(p)) = half
    BY <1>1, <1>2, <1>4, BatchFacts DEF Core, Rest
  <2>2. /\ runqhead' = [runqhead EXCEPT ![p] = half]
        /\ globrunq' = globrunq \o Append(HalfRing(p), gp)
        /\ put' = [put EXCEPT ![g] = PutLocals] /\ ReadyNext(g)
    <3>1. runqhead[p] + half = half
      BY <1>2, <1>4, RunqLenAssumption
    <3> QED
      BY <1>2, <1>4, <2>1, <3>1 DEF runqputslow, globrunqputbatch, pushBackAll
  <2>3. half \in Nat /\ half < RunqLen /\ RunqLen \in Nat /\ n \in Nat /\ runqhead[p] = 0
    BY <1>2, <1>4, RunqLenAssumption DEF Core, Rest, Ring
  <2>4. /\ pc'[g] \notin Putting
        /\ \A k \in Gs \ {g} : pc'[k] = pc[k] /\ put'[k] = put[k]
    <3>1. pc' = [pc EXCEPT ![g] = "ready"] \/ pc' = [pc EXCEPT ![g] = "idle"]
      BY <2>2 DEF ReadyNext, Goto
    <3> QED
      BY <2>2, <3>1 DEF Core, Types, Rest, InPut, Putting
  <2>5. \A i \in 1 .. half : HalfRing(p)[i] = runq[p][i - 1]
    BY DEF HalfRing
  <2>6. /\ DOMAIN globrunq = 1 .. n /\ DOMAIN globrunq' = 1 .. n + half + 1
        /\ \A i \in 1 .. n : globrunq'[i] = globrunq[i]
        /\ \A i \in 1 .. half : globrunq'[n + i] = runq[p][i - 1]
        /\ globrunq'[n + half + 1] = gp
    <3> DEFINE b == HalfRing(p)
    <3> HIDE DEF b, half, gp, n
    <3>1. globrunq \in Seq(Gs \cup Others) /\ b \in Seq(Gs \cup Others) /\ Len(b) = half
          /\ n = Len(globrunq) /\ globrunq' = globrunq \o Append(b, gp)
      BY <2>1, <2>2 DEF Core, Rest, Ring, n, b
    <3>2. /\ Append(b, gp) \in Seq(Gs \cup Others) /\ Len(Append(b, gp)) = half + 1
          /\ \A i \in 1 .. half : Append(b, gp)[i] = b[i]
          /\ Append(b, gp)[half + 1] = gp
      BY <1>2, <2>3, <3>1
    <3>3. /\ DOMAIN globrunq = 1 .. n /\ DOMAIN globrunq' = 1 .. n + (half + 1)
          /\ \A i \in 1 .. n : globrunq'[i] = globrunq[i]
          /\ \A i \in 1 .. half + 1 : globrunq'[n + i] = Append(b, gp)[i]
      <4> DEFINE u == Append(b, gp)
      <4> HIDE DEF u
      <4>1. globrunq \in Seq(Gs \cup Others) /\ u \in Seq(Gs \cup Others)
            /\ globrunq' = globrunq \o u /\ n = Len(globrunq) /\ Len(u) = half + 1
        BY <3>1, <3>2 DEF u
      <4>2. /\ DOMAIN globrunq = 1 .. Len(globrunq)
            /\ DOMAIN (globrunq \o u) = 1 .. Len(globrunq) + Len(u)
            /\ \A i \in 1 .. Len(globrunq) : (globrunq \o u)[i] = globrunq[i]
            /\ \A i \in 1 .. Len(u) : (globrunq \o u)[Len(globrunq) + i] = u[i]
        <5>1. globrunq \in Seq(Gs \cup Others) /\ u \in Seq(Gs \cup Others)
          BY <4>1
        <5> QED
          BY <5>1, ConcatFacts
      <4> QED
        BY <4>1, <4>2, Zenon DEF u
    <3>4. ASSUME NEW i \in 1 .. half PROVE globrunq'[n + i] = runq[p][i - 1]
      <4>1. i \in 1 .. half + 1
        BY <2>3
      <4>2. b[i] = runq[p][i - 1]
        BY <2>5 DEF b
      <4> QED
        BY <3>2, <3>3, <4>1, <4>2
    <3>5. globrunq'[n + half + 1] = gp
      <4>1. half + 1 \in 1 .. half + 1 /\ n + (half + 1) = n + half + 1
        BY <2>3
      <4> QED
        BY <3>2, <3>3, <4>1
    <3> QED
      BY <2>3, <3>3, <3>4, <3>5
  <2>7. \A q \in Ps : runqhead'[q] = IF q = p THEN half ELSE runqhead[q]
    BY <1>2, <2>2 DEF Core, Rest, Ring
  <2> HIDE DEF p, gp, half, n
  <2>8. ASSUME NEW x \in Gs \cup Others PROVE UniqueFor(x)'
    <3>1. UniqueFor(x) /\ InNext(x)' = InNext(x)
      BY <1>1 DEF Unique, InNext
    <3>2. /\ (g \in InHand(x) <=> x = gp) /\ g \notin InHand(x)'
          /\ \A k \in Gs \ {g} : k \in InHand(x)' <=> k \in InHand(x)
      BY <1>1, <2>4, HandFrame DEF Putting, gp
    <3>3. InHand(x) \subseteq Gs /\ InHand(x)' \subseteq Gs
      BY DEF InHand
    <3>4. \A q \in Ps, j \in 0 .. RunqLen - 1 :
            /\ <<q, j>> \in Slots(x) <=>
                 runqhead[q] <= j /\ j < runqtail[q] /\ runq[q][j] = x
            /\ <<q, j>> \in Slots(x)' <=>
                 runqhead'[q] <= j /\ j < runqtail[q] /\ runq[q][j] = x
      BY <1>1 DEF Slots
    <3>5. /\ \A q \in Ps, j \in 0 .. RunqLen - 1 :
               <<q, j>> \in Slots(x)' <=> <<q, j>> \in Slots(x) /\ ~ (q = p /\ j < half)
          /\ \A j \in 0 .. half - 1 : <<p, j>> \in Slots(x) <=> runq[p][j] = x
      BY <1>2, <2>3, <2>7, <3>4
    <3>6. \A s \in Slots(x) \cup Slots(x)' :
            \E q \in Ps, j \in 0 .. RunqLen - 1 : s = <<q, j>>
      BY DEF Slots
    <3>7. /\ \A i \in 1 .. n : i \in InGlobal(x)' <=> i \in InGlobal(x)
          /\ \A i \in 1 .. half : n + i \in InGlobal(x)' <=> runq[p][i - 1] = x
          /\ n + half + 1 \in InGlobal(x)' <=> x = gp
          /\ InGlobal(x) \subseteq 1 .. n /\ InGlobal(x)' \subseteq 1 .. n + half + 1
      BY <2>3, <2>6 DEF InGlobal
    <3>8. CASE x = gp
      <4>1. InHand(x) = {g} /\ InNext(x) = {} /\ Slots(x) = {} /\ InGlobal(x) = {}
            /\ status[x] = "runnable"
        BY <3>1, <3>2, <3>3, <3>8 DEF UniqueFor, OnePlaceOf, AtMostOne
      <4>2. InHand(x)' = {}
        BY <3>2, <3>3, <4>1
      <4>3. Slots(x)' = {}
        BY <3>5, <3>6, <4>1
      <4>4. ASSUME NEW i \in InGlobal(x)' PROVE i = n + half + 1
        <5>1. i \in 1 .. n \/ i = n + half + 1 \/ (i - n \in 1 .. half /\ i = n + (i - n))
          BY <2>3, <3>7
        <5>2. i \notin 1 .. n
          BY <3>7, <4>1, <4>4
        <5>3. ASSUME i - n \in 1 .. half, i = n + (i - n) PROVE FALSE
          <6>1. runq[p][(i - n) - 1] = x
            BY <3>7, <4>4, <5>3
          <6>2. (i - n) - 1 \in 0 .. half - 1
            BY <2>3, <5>3
          <6> QED
            BY <3>5, <4>1, <6>1, <6>2
        <5> QED
          BY <5>1, <5>2, <5>3
      <4>5. InGlobal(x)' = {n + half + 1}
        BY <3>7, <3>8, <4>4
      <4> QED
        BY <1>1, <3>1, <4>1, <4>2, <4>3, <4>5 DEF UniqueFor, OnePlaceOf, AtMostOne
    <3>9. ASSUME x # gp, NEW j \in 0 .. half - 1, runq[p][j] = x PROVE UniqueFor(x)'
      <4>1. j \in 0 .. RunqLen - 1 /\ <<p, j>> \in Slots(x)
        BY <2>3, <3>5, <3>9
      <4>2. InHand(x) = {} /\ InNext(x) = {} /\ InGlobal(x) = {} /\ status[x] = "runnable"
            /\ \A s \in Slots(x) : s = <<p, j>>
        BY <3>1, <4>1 DEF UniqueFor, OnePlaceOf, AtMostOne
      <4>3. InHand(x)' = {}
        BY <3>2, <3>3, <4>2
      <4>4. Slots(x)' = {}
        <5>1. SUFFICES ASSUME NEW q \in Ps, NEW k \in 0 .. RunqLen - 1, <<q, k>> \in Slots(x)'
                       PROVE  FALSE
          BY <3>6
        <5>2. <<q, k>> = <<p, j>> /\ ~ (q = p /\ k < half)
          BY <3>5, <4>2, <5>1
        <5> QED
          BY <2>3, <5>2
      <4>5. ASSUME NEW i \in InGlobal(x)' PROVE i = n + (j + 1)
        <5>1. i \in 1 .. n \/ i = n + half + 1 \/ (i - n \in 1 .. half /\ i = n + (i - n))
          BY <2>3, <3>7
        <5>2. i \notin 1 .. n /\ i # n + half + 1
          BY <3>7, <3>9, <4>2, <4>5
        <5>3. i - n \in 1 .. half /\ i = n + (i - n)
          BY <5>1, <5>2
        <5>4. runq[p][(i - n) - 1] = x
          BY <3>7, <4>5, <5>3
        <5>5. (i - n) - 1 \in 0 .. half - 1
          BY <2>3, <5>3
        <5>6. <<p, (i - n) - 1>> = <<p, j>>
          BY <3>5, <4>2, <5>4, <5>5
        <5> QED
          BY <2>3, <3>7, <5>6
      <4>6. n + (j + 1) \in InGlobal(x)'
        <5>1. j + 1 \in 1 .. half /\ (j + 1) - 1 = j
          BY <2>3
        <5> QED
          BY <3>7, <3>9, <5>1
      <4>7. InGlobal(x)' = {n + (j + 1)}
        BY <4>5, <4>6
      <4> QED
        BY <1>1, <3>1, <4>2, <4>3, <4>4, <4>7 DEF UniqueFor, OnePlaceOf, AtMostOne
    <3>10. CASE x # gp /\ \A j \in 0 .. half - 1 : runq[p][j] # x
      <4>1. InHand(x)' = InHand(x)
        BY <3>2, <3>3, <3>10
      <4>2. Slots(x)' = Slots(x)
        <5>1. ASSUME NEW q \in Ps, NEW j \in 0 .. RunqLen - 1
              PROVE  <<q, j>> \in Slots(x)' <=> <<q, j>> \in Slots(x)
          <6>1. CASE q = p /\ j < half
            <7>1. j \in 0 .. half - 1
              BY <2>3, <6>1
            <7>2. <<p, j>> \notin Slots(x)
              BY <3>5, <3>10, <7>1
            <7> QED
              BY <3>5, <6>1, <7>2
          <6>2. CASE ~ (q = p /\ j < half)
            BY <3>5, <6>2
          <6> QED
            BY <6>1, <6>2
        <5> QED
          BY <3>6, <5>1
      <4>3. InGlobal(x)' = InGlobal(x)
        <5>1. ASSUME NEW i \in InGlobal(x)' PROVE i \in 1 .. n
          <6>1. i \in 1 .. n \/ i = n + half + 1 \/ (i - n \in 1 .. half /\ i = n + (i - n))
            BY <2>3, <3>7
          <6>2. i # n + half + 1
            BY <3>7, <3>10, <5>1
          <6>3. ASSUME i - n \in 1 .. half, i = n + (i - n) PROVE FALSE
            <7>1. runq[p][(i - n) - 1] = x
              BY <3>7, <5>1, <6>3
            <7>2. (i - n) - 1 \in 0 .. half - 1
              BY <2>3, <6>3
            <7> QED
              BY <3>10, <7>1, <7>2
          <6> QED
            BY <6>1, <6>2, <6>3
        <5> QED
          BY <3>7, <5>1
      <4> QED
        BY <1>1, <3>1, <4>1, <4>2, <4>3, SamePlaces
    <3> QED
      BY <3>8, <3>9, <3>10
  <2> QED
    BY <2>8 DEF Unique
<1> QED
  BY <1>3, <1>4

\* A goroutine that a P takes is runnable no more; the others stay as they are.
LEMMA ExecuteStatus ==
  ASSUME Core, NEW p \in Ps, NEW y \in Gs \cup Others, execute(p, y), put' = put
  PROVE  /\ status[y] = "runnable" /\ status'[y] # "runnable"
         /\ \A x \in Gs \cup Others : x # y => status'[x] = status[x]
         /\ \A x \in Gs \cup Others : InHand(x)' = InHand(x)
<1>1. /\ status[y] = "runnable"
      /\ status' = [status EXCEPT ![y] = "dead"] \/ status' = [status EXCEPT ![y] = "running"]
  BY DEF execute, casgstatus
<1>2. \A k \in Gs : pc'[k] \in Putting <=> pc[k] \in Putting
  <2>1. CASE y \in Others
    BY <2>1 DEF execute
  <2>2. CASE y \notin Others
    <3>1. y \in Gs /\ pc' = [pc EXCEPT ![y] = "idle"]
      BY <2>2 DEF execute, Goto
    <3>2. pc[y] \notin Putting
      BY <1>1, <3>1 DEF Core, Rest, Placed, Running
    <3> QED
      BY <3>1, <3>2 DEF Core, Types, Putting
  <2> QED
    BY <2>1, <2>2
<1>3. \A x \in Gs \cup Others : InHand(x)' = InHand(x)
  BY <1>2 DEF InHand, Putting
<1> QED
  BY <1>1, <1>3 DEF Core, Types, TypeOK

\* schedule takes a goroutine from the one place where it is.
LEMMA ScheduleMoves ==
  ASSUME Core, Unique, NEW p \in Ps, schedule(p)
  PROVE  Unique'
<1>1. thrown = "none" /\ UNCHANGED <<glist, put, thrown>>
  BY DEF schedule
<1>2. CASE \E q \in Ps : /\ runnext[q] # Nil /\ execute(p, runnext[q])
                         /\ runnext' = [runnext EXCEPT ![q] = Nil]
                         /\ UNCHANGED <<runq, runqhead, runqtail, globrunq>>
  <2>1. PICK q \in Ps : /\ runnext[q] # Nil /\ execute(p, runnext[q])
                        /\ runnext' = [runnext EXCEPT ![q] = Nil]
                        /\ UNCHANGED <<runq, runqhead, runqtail, globrunq>>
    BY <1>2
  <2> DEFINE y == runnext[q]
  <2>2. y \in Gs \cup Others
    BY <2>1 DEF Core, Rest, Ring
  <2>3. \A r \in Ps : runnext'[r] = IF r = q THEN Nil ELSE runnext[r]
    BY <2>1 DEF Core, Rest, Ring
  <2>4. execute(p, y)
    BY <2>1
  <2> HIDE DEF y
  <2>5. /\ status[y] = "runnable" /\ status'[y] # "runnable"
        /\ \A x \in Gs \cup Others : x # y => status'[x] = status[x]
        /\ \A x \in Gs \cup Others : InHand(x)' = InHand(x)
    BY <1>1, <2>2, <2>4, ExecuteStatus
  <2>6. ASSUME NEW x \in Gs \cup Others PROVE UniqueFor(x)'
    <3>1. UniqueFor(x) /\ Slots(x)' = Slots(x) /\ InGlobal(x)' = InGlobal(x) /\ x # Nil
      BY <1>1, <2>1, NilGAssumption DEF Unique, Slots, InGlobal
    <3>2. /\ (q \in InNext(x) <=> x = y) /\ q \notin InNext(x)'
          /\ \A r \in Ps \ {q} : r \in InNext(x)' <=> r \in InNext(x)
          /\ InNext(x) \subseteq Ps /\ InNext(x)' \subseteq Ps
      BY <2>3, <3>1 DEF InNext, y
    <3>3. CASE x = y
      <4>1. InNext(x) = {q} /\ Slots(x) = {} /\ InGlobal(x) = {} /\ InHand(x) = {}
        BY <3>1, <3>2, <3>3 DEF UniqueFor, OnePlaceOf, AtMostOne
      <4>2. InNext(x)' = {}
        BY <3>2, <4>1
      <4> QED
        BY <2>5, <3>1, <3>3, <4>1, <4>2 DEF UniqueFor, OnePlaceOf, AtMostOne
    <3>4. CASE x # y
      <4>1. InNext(x)' = InNext(x)
        BY <3>2, <3>4
      <4> QED
        BY <2>5, <3>1, <3>4, <4>1, SamePlaces
    <3> QED
      BY <3>3, <3>4
  <2> QED
    BY <2>6 DEF Unique
<1>3. CASE \E q \in Ps : /\ runqhead[q] < runqtail[q]
                         /\ execute(p, runq[q][runqhead[q] % RunqLen])
                         /\ runqhead' = [runqhead EXCEPT ![q] = @ + 1]
                         /\ UNCHANGED <<runnext, runq, runqtail, globrunq>>
  <2>1. PICK q \in Ps : /\ runqhead[q] < runqtail[q]
                        /\ execute(p, runq[q][runqhead[q] % RunqLen])
                        /\ runqhead' = [runqhead EXCEPT ![q] = @ + 1]
                        /\ UNCHANGED <<runnext, runq, runqtail, globrunq>>
    BY <1>3
  <2> DEFINE h == runqhead[q]
  <2> DEFINE y == runq[q][h]
  <2>2. h \in 0 .. RunqLen - 1 /\ h < runqtail[q] /\ h % RunqLen = h
    <3>1. h \in Nat /\ runqtail[q] \in {0, RunqLen} /\ h < runqtail[q]
      BY <1>1, <2>1 DEF Core, Rest, Ring
    <3> HIDE DEF h
    <3>2. h \in 0 .. RunqLen - 1
      BY <3>1, RunqLenAssumption
    <3> QED
      BY <3>1, <3>2, RunqLenAssumption
  <2>3. y \in Gs \cup Others
    <3>1. h \in runqhead[q] .. runqtail[q] - 1
      BY <2>2, <1>1 DEF Core, Rest, Ring
    <3> QED
      BY <1>1, <3>1 DEF Core, Rest, Ring
  <2>4. execute(p, y)
    BY <2>1, <2>2
  <2>5. \A r \in Ps : runqhead'[r] = IF r = q THEN h + 1 ELSE runqhead[r]
    BY <2>1 DEF Core, Rest, Ring
  <2> HIDE DEF y, h
  <2>6. /\ status[y] = "runnable" /\ status'[y] # "runnable"
        /\ \A x \in Gs \cup Others : x # y => status'[x] = status[x]
        /\ \A x \in Gs \cup Others : InHand(x)' = InHand(x)
    BY <1>1, <2>3, <2>4, ExecuteStatus
  <2>7. ASSUME NEW x \in Gs \cup Others PROVE UniqueFor(x)'
    <3>1. UniqueFor(x) /\ InNext(x)' = InNext(x) /\ InGlobal(x)' = InGlobal(x)
      BY <1>1, <2>1 DEF Unique, InNext, InGlobal
    <3>2. \A r \in Ps, j \in 0 .. RunqLen - 1 :
            /\ <<r, j>> \in Slots(x) <=>
                 runqhead[r] <= j /\ j < runqtail[r] /\ runq[r][j] = x
            /\ <<r, j>> \in Slots(x)' <=>
                 runqhead'[r] <= j /\ j < runqtail[r] /\ runq[r][j] = x
      BY <2>1 DEF Slots
    <3>3. /\ \A r \in Ps, j \in 0 .. RunqLen - 1 :
               <<r, j>> \in Slots(x)' <=> <<r, j>> \in Slots(x) /\ ~ (r = q /\ j = h)
          /\ <<q, h>> \in Slots(x) <=> x = y
      BY <2>2, <2>5, <3>2, RunqLenAssumption DEF h, y
    <3>4. \A s \in Slots(x) \cup Slots(x)' :
            \E r \in Ps, j \in 0 .. RunqLen - 1 : s = <<r, j>>
      BY DEF Slots
    <3>5. CASE x = y
      <4>1. /\ InNext(x) = {} /\ InGlobal(x) = {} /\ InHand(x) = {}
            /\ \A s \in Slots(x) : s = <<q, h>>
        BY <3>1, <3>3, <3>5 DEF UniqueFor, OnePlaceOf, AtMostOne
      <4>2. Slots(x)' = {}
        <5>1. SUFFICES ASSUME NEW r \in Ps, NEW k \in 0 .. RunqLen - 1, <<r, k>> \in Slots(x)'
                       PROVE  FALSE
          BY <3>4
        <5>2. <<r, k>> = <<q, h>> /\ ~ (r = q /\ k = h)
          BY <3>3, <4>1, <5>1
        <5> QED
          BY <5>2
      <4> QED
        BY <2>6, <3>1, <3>5, <4>1, <4>2 DEF UniqueFor, OnePlaceOf, AtMostOne
    <3>6. CASE x # y
      <4>1. Slots(x)' = Slots(x)
        <5>1. \A r \in Ps, j \in 0 .. RunqLen - 1 :
                <<r, j>> \in Slots(x)' <=> <<r, j>> \in Slots(x)
          BY <3>3, <3>6
        <5> QED
          BY <3>4, <5>1
      <4> QED
        BY <2>6, <3>1, <3>6, <4>1, SamePlaces
    <3> QED
      BY <3>5, <3>6
  <2> QED
    BY <2>7 DEF Unique
<1>4. CASE /\ globrunq # <<>> /\ execute(p, Head(globrunq))
           /\ globrunq' = Tail(globrunq)
           /\ UNCHANGED <<runnext, runq, runqhead, runqtail>>
  <2> DEFINE n == Len(globrunq)
  <2> DEFINE y == globrunq[1]
  <2>1. /\ n \in Nat /\ n >= 1 /\ y \in Gs \cup Others /\ Head(globrunq) = y
        /\ DOMAIN globrunq = 1 .. n /\ DOMAIN globrunq' = 1 .. n - 1
        /\ \A i \in 1 .. n - 1 : globrunq'[i] = globrunq[i + 1]
    <3>1. globrunq \in Seq(Gs \cup Others) /\ globrunq # <<>> /\ globrunq' = Tail(globrunq)
      BY <1>4 DEF Core, Rest, Ring
    <3> QED
      BY <3>1
  <2>2. execute(p, y)
    BY <1>4, <2>1
  <2> HIDE DEF y, n
  <2>3. /\ status[y] = "runnable" /\ status'[y] # "runnable"
        /\ \A x \in Gs \cup Others : x # y => status'[x] = status[x]
        /\ \A x \in Gs \cup Others : InHand(x)' = InHand(x)
    BY <1>1, <2>1, <2>2, ExecuteStatus
  <2>4. ASSUME NEW x \in Gs \cup Others PROVE UniqueFor(x)'
    <3>1. UniqueFor(x) /\ InNext(x)' = InNext(x) /\ Slots(x)' = Slots(x)
      BY <1>1, <1>4 DEF Unique, InNext, Slots
    <3>2. /\ \A i \in 1 .. n - 1 : i \in InGlobal(x)' <=> i + 1 \in InGlobal(x)
          /\ InGlobal(x) \subseteq 1 .. n /\ InGlobal(x)' \subseteq 1 .. n - 1
          /\ 1 \in InGlobal(x) <=> x = y
      BY <2>1 DEF InGlobal, y
    <3>3. CASE x = y
      <4>1. /\ InNext(x) = {} /\ Slots(x) = {} /\ InHand(x) = {}
            /\ \A i \in InGlobal(x) : i = 1
        BY <3>1, <3>2, <3>3 DEF UniqueFor, OnePlaceOf, AtMostOne
      <4>2. InGlobal(x)' = {}
        <5>1. ASSUME NEW i \in InGlobal(x)' PROVE FALSE
          <6>1. i + 1 \in InGlobal(x) /\ i \in 1 .. n - 1
            BY <3>2, <5>1
          <6>2. i + 1 = 1
            BY <4>1, <6>1
          <6> QED
            BY <2>1, <6>1, <6>2
        <5> QED
          BY <5>1
      <4> QED
        BY <2>3, <3>1, <3>3, <4>1, <4>2 DEF UniqueFor, OnePlaceOf, AtMostOne
    <3>4. CASE x # y
      <4>1. AtMostOne(InGlobal(x)')
        <5>1. SUFFICES ASSUME NEW a \in InGlobal(x)', NEW b \in InGlobal(x)' PROVE a = b
          BY DEF AtMostOne
        <5>2. a \in 1 .. n - 1 /\ b \in 1 .. n - 1 /\ a + 1 \in InGlobal(x) /\ b + 1 \in InGlobal(x)
          BY <3>2
        <5>3. a + 1 = b + 1
          BY <3>1, <5>2 DEF UniqueFor, OnePlaceOf, AtMostOne
        <5> QED
          BY <2>1, <5>2, <5>3
      <4>2. InGlobal(x)' = {} <=> InGlobal(x) = {}
        <5>1. ASSUME NEW i \in InGlobal(x)' PROVE InGlobal(x) # {}
          BY <3>2
        <5>2. ASSUME NEW i \in InGlobal(x) PROVE InGlobal(x)' # {}
          <6>1. i \in 1 .. n /\ i # 1
            BY <3>2, <3>4
          <6>2. i - 1 \in 1 .. n - 1 /\ (i - 1) + 1 = i
            BY <2>1, <6>1
          <6>3. i - 1 \in InGlobal(x)'
            BY <3>2, <5>2, <6>2
          <6> QED
            BY <6>3
        <5> QED
          BY <5>1, <5>2
      <4> QED
        BY <2>3, <3>1, <3>4, <4>1, <4>2 DEF UniqueFor, OnePlaceOf, AtMostOne
    <3> QED
      BY <3>3, <3>4
  <2> QED
    BY <2>4 DEF Unique
<1> QED
  BY <1>2, <1>3, <1>4 DEF schedule

\* Every step of ready and runqput.
LEMMA ReadyingMoves ==
  ASSUME Core, Unique, NEW g \in Gs, Readying(g)
  PROVE  Unique'
<1> USE DEF Core, Types, Rest, InPut
<1>1. CASE runqputOldnext(g)
  <2>1. /\ pc[g] = "oldnext" /\ pc' = [pc EXCEPT ![g] = "casnext"]
        /\ put' = [put EXCEPT ![g] = [@ EXCEPT !.oldnext = runnext[P(g)]]]
        /\ status' = status /\ UNCHANGED queues /\ thrown' = thrown
    BY <1>1 DEF runqputOldnext, At, Goto
  <2>2. [put[g] EXCEPT !.oldnext = runnext[P(g)]].gp = put[g].gp
    BY DEF Put
  <2>3. /\ pc'[g] = "casnext" /\ put'[g].gp = put[g].gp
        /\ \A k \in Gs \ {g} : pc'[k] = pc[k] /\ put'[k] = put[k]
    BY <2>1, <2>2
  <2> QED
    BY <2>1, <2>3, StayStep DEF Putting
<1>2. CASE runqputLoad(g)
  <2> DEFINE q == [put[g] EXCEPT !.h = runqhead[P(g)], !.t = runqtail[P(g)]]
  <2>1. /\ pc[g] = "load" /\ pc' = [pc EXCEPT ![g] = "store"]
        /\ put' = [put EXCEPT ![g] = q]
        /\ status' = status /\ UNCHANGED queues /\ thrown' = thrown
    BY <1>2 DEF runqputLoad, At, Goto
  <2>2. q.gp = put[g].gp
    BY DEF Put
  <2> HIDE DEF q
  <2>3. /\ pc'[g] = "store" /\ put'[g].gp = put[g].gp
        /\ \A k \in Gs \ {g} : pc'[k] = pc[k] /\ put'[k] = put[k]
    BY <2>1, <2>2
  <2> QED
    BY <2>1, <2>3, StayStep DEF Putting
<1>3. CASE runqputStore(g)
  <2>1. CASE thrown' # "none"
    BY <2>1 DEF Unique
  <2>2. CASE thrown' = "none"
    <3> DEFINE h == put[g].h
    <3> DEFINE t == put[g].t
    <3> DEFINE b == [i \in 1 .. (t - h) \div 2 |-> runq[P(g)][(h + i - 1) % RunqLen]]
    <3>1. pc[g] = "store" /\ OnP(g) /\ thrown = "none"
      BY <1>3 DEF runqputStore, At, OnP
    <3>2. h \in Nat /\ t \in {0, RunqLen}
      BY <3>1, OnItsP DEF Ring, Put, OnP
    <3>3. /\ pc' = [pc EXCEPT ![g] = "cashead"] /\ thrown' = thrown
          /\ put' = [put EXCEPT ![g].batch = b] /\ (t - h) \div 2 = RunqLen \div 2
          /\ UNCHANGED <<status, runnext, runqhead, globrunq>>
      BY <1>3, <2>2 DEF runqputStore, Goto
    <3>4. UNCHANGED <<runq, runqtail>>
      BY <1>3, <3>2, <3>3, HalfFacts DEF runqputStore
    <3>5. put' = [put EXCEPT ![g] = [@ EXCEPT !.batch = b]]
      BY <3>3
    <3> HIDE DEF b
    <3>6. [put[g] EXCEPT !.batch = b].gp = put[g].gp
      BY DEF Put
    <3>7. /\ pc'[g] = "cashead" /\ put'[g].gp = put[g].gp
          /\ \A k \in Gs \ {g} : pc'[k] = pc[k] /\ put'[k] = put[k]
      BY <3>3, <3>5, <3>6
    <3>8. status' = status /\ UNCHANGED queues
      BY <3>3, <3>4 DEF queues
    <3> QED
      BY <3>1, <3>3, <3>7, <3>8, StayStep DEF Putting
  <2> QED
    BY <2>1, <2>2
<1> QED
  BY <1>1, <1>2, <1>3, ReadyMoves, NextMoves, SlowMoves DEF Readying

\* The steps of the channel operations move nobody between the queues.
LEMMA OperationMoves ==
  ASSUME Core, Unique, NEW g \in Gs,
         \/ Call(g) \/ CallNil(g) \/ FastSend(g) \/ FastRecv(g) \/ chansend(g) \/ chanrecv(g)
         \/ closechan(g) \/ Park(g) \/ chanparkcommit(g)
  PROVE  Unique'
<1> DEFINE Away == {"idle", "fast1", "fast2", "fast3", "lock", "park", "active", "unlock",
                    "release", "ready", "parked", "gone"}
<1>1. /\ pc[g] \in {"idle", "fast1", "fast2", "fast3", "lock", "park", "active", "unlock", "release"}
      /\ OnP(g) /\ UNCHANGED <<queues, put, thrown>>
  <2>1. UNCHANGED queues /\ put' = put /\ thrown' = thrown
    BY DEF Call, CallNil, FastSend, FastRecv, FastStep, chansend, chanrecv, closechan, Park,
           gopark, chanparkcommit
  <2>2. CASE Call(g) \/ CallNil(g) \/ FastSend(g) \/ FastRecv(g)
    BY <2>1, <2>2 DEF Call, CallNil, FastSend, FastRecv, At, OnP
  <2>3. CASE chansend(g) \/ chanrecv(g) \/ closechan(g)
    BY <2>1, <2>3 DEF chansend, chanrecv, closechan, Locks, At, OnP
  <2>4. CASE Park(g) \/ chanparkcommit(g)
    BY <2>1, <2>4 DEF Park, chanparkcommit, At, OnP
  <2> QED
    BY <2>2, <2>3, <2>4
<1>2. status[g] # "runnable"
  BY <1>1 DEF Core, Rest, Placed, Running, Fast
<1>3. \E l \in Away : pc' = [pc EXCEPT ![g] = l]
  <2>1. CASE Call(g) \/ CallNil(g) \/ FastSend(g) \/ FastRecv(g)
    BY <2>1 DEF Call, CallNil, FastSend, FastRecv, Return, Goto
  <2>2. CASE chansend(g)
    BY <2>2 DEF chansend, Panic, Return, Enqueue, Goto
  <2>3. CASE chanrecv(g)
    BY <2>3 DEF chanrecv, Return, Enqueue, Goto
  <2>4. CASE closechan(g)
    BY <2>4 DEF closechan, Panic, Goto
  <2>5. CASE Park(g) \/ chanparkcommit(g)
    BY <2>5 DEF Park, gopark, chanparkcommit, Goto
  <2> QED
    BY <2>1, <2>2, <2>3, <2>4, <2>5
<1>4. status' = status \/ \E s \in {"waiting", "dead"} : status' = [status EXCEPT ![g] = s]
  <2>1. CASE Call(g) \/ CallNil(g) \/ FastSend(g) \/ FastRecv(g)
    BY <2>1 DEF Call, CallNil, FastSend, FastRecv, FastStep, casgstatus
  <2>2. CASE chansend(g)
    BY <2>2 DEF chansend, Panic, Return, Enqueue
  <2>3. CASE chanrecv(g)
    BY <2>3 DEF chanrecv, Return, Enqueue
  <2>4. CASE closechan(g)
    BY <2>4 DEF closechan, Panic
  <2>5. CASE Park(g) \/ chanparkcommit(g)
    BY <2>5 DEF Park, gopark, casgstatus, chanparkcommit
  <2> QED
    BY <2>1, <2>2, <2>3, <2>4, <2>5
<1>5. \A x \in Gs \cup Others : status'[x] = "runnable" <=> status[x] = "runnable"
  BY <1>2, <1>4 DEF Core, Types, TypeOK
<1>6. PICK l \in Away : pc' = [pc EXCEPT ![g] = l]
  BY <1>3
<1>7. pc[g] \notin Putting /\ l \notin Putting
  BY <1>1, <1>6 DEF Putting
<1> QED
  BY <1>1, <1>5, <1>6, <1>7, QuietStep

\* Everybody is in one place at the beginning: on the global queue, or in the
\* full ring of one P.
LEMMA InitUnique ==
  ASSUME Init
  PROVE  Unique
<1> USE DEF Init, SchedInit
<1> DEFINE first == CHOOSE p \in Ps : TRUE
<1>1. PICK n \in {0, RunqLen} :
        /\ runqtail = [p \in Ps |-> IF p = first THEN n ELSE 0]
        /\ runq = [p \in Ps |-> [i \in 0 .. RunqLen - 1 |->
                     IF p = first /\ i < n THEN SetToSeq(Others)[i + 1] ELSE Nil]]
        /\ status = [g \in Gs \cup Others |->
                       IF g \in Others /\ n = 0 THEN "dead" ELSE "runnable"]
  BY Zenon
<1>2. first \in Ps
  BY ProcessorsAssumption, Zenon
<1> HIDE DEF first
<1>3. /\ RunqLen \in Nat /\ RunqLen > 0
      /\ \A i \in 1 .. RunqLen : SetToSeq(Others)[i] \in Others
      /\ \A i, j \in 1 .. RunqLen : SetToSeq(Others)[i] = SetToSeq(Others)[j] => i = j
      /\ \A x \in Others : \E i \in 1 .. RunqLen : SetToSeq(Others)[i] = x
  <2>1. /\ SetToSeq(Others) \in [1 .. Cardinality(Others) -> Others]
        /\ IsInjective(SetToSeq(Others))
        /\ \A x \in Others : \E i \in 1 .. Cardinality(Others) : SetToSeq(Others)[i] = x
    BY GoroutinesAssumption, SetToSeqFacts, Zenon
  <2> QED
    BY <2>1, RunqLenAssumption, NilGAssumption DEF IsInjective
<1>4. /\ \A i \in DOMAIN globrunq : globrunq[i] \in Gs
      /\ \A i, j \in DOMAIN globrunq : globrunq[i] = globrunq[j] => i = j
      /\ \A x \in Gs : \E i \in DOMAIN globrunq : globrunq[i] = x
  <2>1. /\ globrunq \in [1 .. Cardinality(Gs) -> Gs] /\ IsInjective(globrunq)
        /\ \A x \in Gs : \E i \in 1 .. Cardinality(Gs) : globrunq[i] = x
    BY GoroutinesAssumption, SetToSeqFacts, Zenon
  <2> QED
    BY <2>1 DEF IsInjective
<1>5. ASSUME NEW x \in Gs \cup Others PROVE UniqueFor(x)
  <2>1. InNext(x) = {} /\ InHand(x) = {}
    BY NilGAssumption DEF InNext, InHand
  <2>2. ASSUME NEW p \in Ps, NEW j \in 0 .. RunqLen - 1
        PROVE  <<p, j>> \in Slots(x) <=> p = first /\ n = RunqLen /\ SetToSeq(Others)[j + 1] = x
    <3>1. <<p, j>> \in Slots(x) <=> runqhead[p] <= j /\ j < runqtail[p] /\ runq[p][j] = x
      BY SlotMember
    <3>2. /\ runqhead[p] = 0 /\ runqtail[p] = (IF p = first THEN n ELSE 0)
          /\ runq[p][j] = IF p = first /\ j < n THEN SetToSeq(Others)[j + 1] ELSE Nil
      BY <1>1
    <3> QED
      BY <1>3, <3>1, <3>2
  <2>3. \A s \in Slots(x) : \E p \in Ps, j \in 0 .. RunqLen - 1 : s = <<p, j>>
    BY DEF Slots
  <2>4. CASE x \in Gs
    <3>1. Slots(x) = {}
      <4>1. \A j \in 0 .. RunqLen - 1 : SetToSeq(Others)[j + 1] # x
        BY <1>3, <2>4, GoroutinesAssumption
      <4> QED
        BY <2>2, <2>3, <4>1
    <3>2. InGlobal(x) # {} /\ AtMostOne(InGlobal(x))
      BY <1>4, <2>4 DEF InGlobal, AtMostOne
    <3>3. status[x] = "runnable"
      BY <1>1, <2>4, GoroutinesAssumption
    <3> QED
      BY <2>1, <3>1, <3>2, <3>3 DEF UniqueFor, OnePlaceOf, AtMostOne
  <2>5. CASE x \in Others
    <3>1. InGlobal(x) = {}
      BY <1>4, <2>5, GoroutinesAssumption DEF InGlobal
    <3>2. AtMostOne(Slots(x))
      <4> SUFFICES ASSUME NEW a \in Slots(x), NEW b \in Slots(x) PROVE a = b
        BY DEF AtMostOne
      <4>1. PICK p \in Ps, j \in 0 .. RunqLen - 1 : a = <<p, j>>
        BY <2>3
      <4>2. PICK q \in Ps, k \in 0 .. RunqLen - 1 : b = <<q, k>>
        BY <2>3
      <4>3. p = q /\ SetToSeq(Others)[j + 1] = SetToSeq(Others)[k + 1]
        BY <2>2, <4>1, <4>2
      <4>4. j + 1 \in 1 .. RunqLen /\ k + 1 \in 1 .. RunqLen
        BY <1>3
      <4>5. j + 1 = k + 1
        BY <1>3, <4>3, <4>4
      <4>6. j = k
        BY <4>5
      <4> QED
        BY <4>1, <4>2, <4>3, <4>6
    <3>3. Slots(x) # {} <=> n = RunqLen
      <4>1. ASSUME n = RunqLen PROVE Slots(x) # {}
        <5>1. PICK i \in 1 .. RunqLen : SetToSeq(Others)[i] = x
          BY <1>3, <2>5
        <5>2. i - 1 \in 0 .. RunqLen - 1 /\ (i - 1) + 1 = i
          BY <1>3
        <5>3. <<first, i - 1>> \in Slots(x)
          BY <1>2, <2>2, <4>1, <5>1, <5>2
        <5> QED
          BY <5>3
      <4> QED
        BY <2>2, <2>3, <4>1
    <3>4. status[x] = "runnable" <=> n = RunqLen
      BY <1>1, <1>3, <2>5
    <3> QED
      BY <2>1, <3>1, <3>2, <3>3, <3>4 DEF UniqueFor, OnePlaceOf, AtMostOne
  <2> QED
    BY <2>4, <2>5
<1> QED
  BY <1>5 DEF Unique

-----------------------------------------------------------------------------
(***************************************************************************)
(* The theorems.                                                           *)
(***************************************************************************)
\* A set with at most one member has cardinality 0 or 1.
LEMMA OneMember ==
  ASSUME NEW S, AtMostOne(S)
  PROVE  Cardinality(S) = IF S = {} THEN 0 ELSE 1
<1>1. CASE S = {}
  BY <1>1, FS_EmptySet
<1>2. CASE S # {}
  <2>1. PICK a : a \in S
    BY <1>2
  <2>2. S = {a}
    BY <2>1 DEF AtMostOne
  <2>3. Cardinality({a}) = 1
    BY FS_Singleton
  <2> QED
    BY <1>2, <2>2, <2>3
<1> QED
  BY <1>1, <1>2

\* While the ring only empties, no index of it wraps round.
LEMMA RingIsSlots ==
  ASSUME Ring, thrown = "none", NEW x
  PROVE  InRing(x) = Slots(x)
<1>1. ASSUME NEW p \in Ps, NEW j \in runqhead[p] .. runqtail[p] - 1
      PROVE  j \in 0 .. RunqLen - 1 /\ j % RunqLen = j /\ runqhead[p] <= j /\ j < runqtail[p]
  <2>1. runqhead[p] \in Nat /\ runqtail[p] \in {0, RunqLen} /\ RunqLen \in Nat /\ RunqLen > 0
    BY RunqLenAssumption DEF Ring
  <2>2. j \in 0 .. RunqLen - 1 /\ runqhead[p] <= j /\ j < runqtail[p]
    BY <2>1
  <2> QED
    BY <2>1, <2>2
<1>2. ASSUME NEW s \in InRing(x) PROVE s \in Slots(x)
  <2>1. PICK p \in Ps : \E j \in runqhead[p] .. runqtail[p] - 1 :
          s = <<p, j>> /\ runq[p][j % RunqLen] = x
    BY <1>2 DEF InRing
  <2>2. PICK j \in runqhead[p] .. runqtail[p] - 1 : s = <<p, j>> /\ runq[p][j % RunqLen] = x
    BY <2>1
  <2> QED
    BY <1>1, <2>2, SlotMember
<1>3. ASSUME NEW s \in Slots(x) PROVE s \in InRing(x)
  <2>1. PICK p \in Ps, j \in 0 .. RunqLen - 1 : s = <<p, j>>
    BY <1>3 DEF Slots
  <2>2. runqhead[p] <= j /\ j < runqtail[p] /\ runq[p][j] = x
    BY <1>3, <2>1, SlotMember
  <2>3. j \in runqhead[p] .. runqtail[p] - 1
    BY <2>1, <2>2, RunqLenAssumption DEF Ring
  <2>4. runq[p][j % RunqLen] = x
    BY <1>1, <2>2, <2>3
  <2> QED
    BY <2>1, <2>3, <2>4 DEF InRing
<1> QED
  BY <1>2, <1>3

\* The places of a goroutine stay as the invariant says, in every step.
THEOREM UniqueInvariance == Spec => []Unique
<1>1. Init => Unique
  BY InitUnique
<1>2. IInv /\ Unique /\ [Next]_vars => Unique'
  <2>1. ASSUME IInv, Unique, Next PROVE Unique'
    <3>1. Core /\ Act
      BY <2>1 DEF IInv, Next, Act
    <3> QED
      BY <2>1, <3>1, ReadyingMoves, OperationMoves, ScheduleMoves DEF Act, Operating
  <2>2. ASSUME Unique, UNCHANGED vars PROVE Unique'
    <3>1. UNCHANGED queues /\ pc' = pc /\ put' = put /\ status' = status /\ thrown' = thrown
      BY <2>2 DEF vars, schedVars
    <3>2. \A x \in Gs \cup Others : InHand(x)' = InHand(x)
      BY <3>1 DEF InHand
    <3> QED
      BY <2>2, <3>1, <3>2, QueueFrame, SamePlaces DEF Unique
  <2> QED
    BY <2>1, <2>2
<1> QED
  BY <1>1, <1>2, Invariance, PTL DEF Spec

\* A goroutine is never lost and never queued twice, whatever the other Ps take
\* while runqput and runqputslow work with indices that are stale: a runnable
\* one is in exactly one place, any other in none.
THEOREM NeverLostNorDoubled == Spec => []OneRunQueue
<1>1. IInv /\ Unique => OneRunQueue
  <2> SUFFICES ASSUME IInv, Unique, thrown = "none", NEW x \in Gs \cup Others
               PROVE  Places(x) = IF status[x] = "runnable" THEN 1 ELSE 0
    BY DEF OneRunQueue
  <2>1. InRing(x) = Slots(x)
    BY RingIsSlots DEF IInv, Core, Rest
  <2>2. Places(x) = Cardinality(InNext(x)) + Cardinality(Slots(x))
                      + Cardinality(InGlobal(x)) + Cardinality(InHand(x))
    BY <2>1 DEF Places, InNext, InGlobal
  <2>3. OnePlaceOf(InNext(x), Slots(x), InGlobal(x), InHand(x), status[x] = "runnable")
    BY DEF Unique, UniqueFor
  <2>4. /\ Cardinality(InNext(x)) = IF InNext(x) = {} THEN 0 ELSE 1
        /\ Cardinality(Slots(x)) = IF Slots(x) = {} THEN 0 ELSE 1
        /\ Cardinality(InGlobal(x)) = IF InGlobal(x) = {} THEN 0 ELSE 1
        /\ Cardinality(InHand(x)) = IF InHand(x) = {} THEN 0 ELSE 1
    BY <2>3, OneMember DEF OnePlaceOf
  <2> QED
    BY <2>2, <2>3, <2>4 DEF OnePlaceOf
<1> QED
  BY <1>1, UniqueInvariance, Invariance, PTL

-----------------------------------------------------------------------------
(***************************************************************************)
(* Values come out of a channel in the order in which they went in: proofs *)
(* about the buffer and the waiting senders of Channel, for any number of  *)
(* goroutines and any size of the channel.                                 *)
(*                                                                         *)
(* The invariant places every value of accepted: first those received,     *)
(* then those in the buffer from recvx on, then those of the waiting       *)
(* senders.  Nothing is beyond them while the channel is open and usable;  *)
(* closechan drops the waiting senders, and a chansend that found a        *)
(* receiver keeps the lock for ever, with its value nowhere.               *)
(***************************************************************************)

Value == 0 .. MaxOps

\* An index of the buffer that has been advanced by at most its size.
Wrapped(x) == IF x < dataqsiz THEN x ELSE x - dataqsiz

Total == Len(received) + qcount + Len(sendq)

Histories ==
  /\ accepted \in Seq(Value) /\ received \in Seq(Value)
  /\ buf = [i \in 0 .. dataqsiz - 1 |-> buf[i]]
Indices == dataqsiz > 0 => sendx = Wrapped(recvx + qcount)
Counted ==
  /\ Total <= Len(accepted)
  /\ closed = 0 /\ ~ Stuck => Total = Len(accepted)
Delivered == \A i \in 1 .. Len(received) : received[i] = accepted[i]
InBuffer == \A i \in 1 .. qcount : buf[Wrapped(recvx + i - 1)] = accepted[Len(received) + i]
InSenders ==
  \A i \in 1 .. Len(sendq) : elem[sendq[i]] = accepted[Len(received) + qcount + i]

Fifo == Histories /\ Indices /\ Counted /\ Delivered /\ InBuffer /\ InSenders

\* The queues are emptied only after closed has been set.
Closing == \A g \in Gs : pc[g] = "release" => closed # 0

-----------------------------------------------------------------------------
(***************************************************************************)
(* Steps that move no value.                                               *)
(***************************************************************************)
\* The buffer stays, and so do the values of the senders that wait.
LEMMA StillStep ==
  ASSUME Types, Fifo,
         UNCHANGED <<dataqsiz, qcount, sendx, recvx, buf, accepted, received, sendq>>,
         \A i \in 1 .. Len(sendq) : elem'[sendq[i]] = elem[sendq[i]],
         closed' = 0 /\ ~ Stuck' => closed = 0 /\ ~ Stuck
  PROVE  Fifo'
<1>1. Total' = Total /\ \A x : Wrapped(x)' = Wrapped(x)
  BY DEF Total, Wrapped
<1>2. sendq \in Seq(Gs)
  BY DEF Types, TypeOK
<1> QED
  BY <1>1, <1>2 DEF Fifo, Histories, Indices, Counted, Delivered, InBuffer, InSenders

\* Whether the lock is held for ever does not depend on a goroutine that is
\* outside the critical section, before and after.
LEMMA StuckFrame ==
  ASSUME Types, NEW g \in Gs, pc[g] \notin Parking \cup {"release"},
         pc'[g] \notin Parking \cup {"release"}, \A k \in Gs \ {g} : pc'[k] = pc[k],
         lock' = lock
  PROVE  Stuck' <=> Stuck
BY NilGAssumption DEF Stuck, Types, TypeOK

\* A step outside the critical section.
LEMMA OutsideStep ==
  ASSUME Types, Fifo, Closing, NEW g \in Gs, pc[g] \notin Parking \cup {"release"},
         pc'[g] \notin Parking \cup {"release"}, \A k \in Gs \ {g} : pc'[k] = pc[k],
         UNCHANGED <<fields, recvq, sendq, lock, elem, accepted, received>>
  PROVE  Fifo' /\ Closing'
<1>1. Stuck' <=> Stuck
  BY StuckFrame
<1>2. Fifo'
  BY <1>1, StillStep DEF fields
<1>3. Closing'
  BY DEF Closing, fields, Types
<1> QED
  BY <1>2, <1>3

-----------------------------------------------------------------------------
(***************************************************************************)
(* Steps that move a value.                                                *)
(***************************************************************************)
\* What Append does to a sequence.
LEMMA AppendMembers ==
  ASSUME NEW S, NEW s \in Seq(S), NEW x \in S
  PROVE  /\ Append(s, x) \in Seq(S) /\ Len(s) \in Nat /\ Len(Append(s, x)) = Len(s) + 1
         /\ \A i \in 1 .. Len(s) : Append(s, x)[i] = s[i]
         /\ Append(s, x)[Len(s) + 1] = x
OBVIOUS

\* Nothing is lost so far for whoever gets the lock of an open channel.
LEMMA LockedTotal ==
  ASSUME Fifo, lock = Nil, closed = 0
  PROVE  Total = Len(accepted)
BY DEF Fifo, Counted, Stuck

\* chansend stores its value behind the last one in the buffer.
LEMMA SendBuffers ==
  ASSUME Core, Fifo, lock = Nil, closed = 0, qcount < dataqsiz, NEW v \in Value,
         buf' = [buf EXCEPT ![sendx] = v], sendx' = Advance(sendx), qcount' = qcount + 1,
         accepted' = Append(accepted, v), lock' = lock,
         UNCHANGED <<dataqsiz, recvx, closed, received, sendq, elem>>
  PROVE  Fifo'
<1>1. /\ dataqsiz \in Nat /\ qcount \in Nat /\ recvx \in Nat /\ recvx < dataqsiz
      /\ sendq = <<>> /\ Len(sendq) = 0 /\ dataqsiz > 0
  <2>1. /\ dataqsiz \in Nat /\ qcount \in 0 .. dataqsiz /\ recvx \in 0 .. dataqsiz
        /\ dataqsiz > 0 => recvx < dataqsiz
    BY DEF Core, Types, TypeOK
  <2>2. sendq = <<>>
    BY <2>1 DEF Core, Reasons
  <2> QED
    BY <2>1, <2>2
<1>2. /\ accepted \in Seq(Value) /\ received \in Seq(Value) /\ sendx = Wrapped(recvx + qcount)
      /\ buf = [i \in 0 .. dataqsiz - 1 |-> buf[i]]
  BY <1>1 DEF Fifo, Histories, Indices
<1>3. Len(received) + qcount = Len(accepted) /\ Len(received) \in Nat
  BY <1>1, <1>2, LockedTotal DEF Total
<1>4. /\ accepted' \in Seq(Value) /\ Len(accepted') = Len(accepted) + 1
      /\ \A i \in 1 .. Len(accepted) : accepted'[i] = accepted[i]
      /\ accepted'[Len(accepted) + 1] = v
  BY <1>2, AppendMembers
<1>5. sendx \in 0 .. dataqsiz - 1
  BY <1>1, <1>2 DEF Wrapped
<1>6. sendx' = Wrapped(recvx + (qcount + 1))
  BY <1>1, <1>2 DEF Advance, Wrapped
<1>7. /\ buf' = [i \in 0 .. dataqsiz - 1 |-> buf'[i]]
      /\ \A i \in 0 .. dataqsiz - 1 : buf'[i] = IF i = sendx THEN v ELSE buf[i]
  BY <1>2, <1>5
<1>8. ASSUME NEW i \in 1 .. qcount + 1
      PROVE  buf'[Wrapped(recvx + i - 1)] = accepted'[Len(received) + i]
  <2>1. Wrapped(recvx + i - 1) \in 0 .. dataqsiz - 1
    BY <1>1 DEF Wrapped
  <2>2. CASE i = qcount + 1
    <3>1. Wrapped(recvx + i - 1) = sendx /\ Len(received) + i = Len(accepted) + 1
      BY <1>1, <1>2, <1>3, <2>2 DEF Wrapped
    <3> QED
      BY <1>4, <1>5, <1>7, <3>1
  <2>3. CASE i \in 1 .. qcount
    <3>1. Wrapped(recvx + i - 1) # sendx /\ Len(received) + i \in 1 .. Len(accepted)
      <4>1. Wrapped(recvx + i - 1) # Wrapped(recvx + qcount)
        BY <1>1, <2>3 DEF Wrapped
      <4>2. Len(received) + i \in 1 .. Len(accepted)
        BY <1>1, <1>3, <2>3
      <4> QED
        BY <1>2, <4>1, <4>2
    <3>2. buf[Wrapped(recvx + i - 1)] = accepted[Len(received) + i]
      BY <2>3 DEF Fifo, InBuffer
    <3> QED
      BY <1>4, <1>7, <2>1, <3>1, <3>2
  <2>4. i = qcount + 1 \/ i \in 1 .. qcount
    BY <1>1
  <2> QED
    BY <2>2, <2>3, <2>4
<1>9. ASSUME NEW i \in 1 .. Len(received) PROVE received[i] = accepted'[i]
  <2>1. i \in 1 .. Len(accepted)
    BY <1>1, <1>3
  <2> QED
    BY <1>4, <2>1 DEF Fifo, Delivered
<1>10. Total' = Len(accepted') /\ Total' <= Len(accepted') /\ Len(sendq') = 0
  BY <1>1, <1>3, <1>4 DEF Total
<1>11. Histories' /\ Indices'
  BY <1>2, <1>4, <1>6, <1>7 DEF Histories, Indices, Wrapped
<1>12. Counted' /\ Delivered'
  BY <1>9, <1>10 DEF Counted, Delivered
<1>13. InBuffer'
  BY <1>8 DEF InBuffer, Wrapped
<1>14. InSenders'
  BY <1>10 DEF InSenders
<1> QED
  BY <1>11, <1>12, <1>13, <1>14 DEF Fifo

\* chansend with a full buffer parks behind the senders that wait.
LEMMA SendParks ==
  ASSUME Core, Fifo, lock = Nil, closed = 0, NEW v \in Value, NEW g \in Gs, pc[g] = "lock",
         accepted' = Append(accepted, v), sendq' = Append(sendq, g),
         elem' = [elem EXCEPT ![g] = v],
         UNCHANGED <<dataqsiz, qcount, sendx, recvx, buf, closed, received>>
  PROVE  Fifo'
<1>1. /\ dataqsiz \in Nat /\ qcount \in Nat /\ sendq \in Seq(Gs) /\ elem = [h \in Gs |-> elem[h]]
  BY DEF Core, Types, TypeOK
<1>2. /\ accepted \in Seq(Value) /\ received \in Seq(Value)
  BY DEF Fifo, Histories
<1> DEFINE m == Len(received) + qcount
<1>3. m + Len(sendq) = Len(accepted) /\ Len(received) \in Nat /\ Len(sendq) \in Nat /\ m \in Nat
  BY <1>1, <1>2, LockedTotal DEF Total
<1>4. /\ accepted' \in Seq(Value) /\ Len(accepted') = Len(accepted) + 1
      /\ \A i \in 1 .. Len(accepted) : accepted'[i] = accepted[i]
      /\ accepted'[Len(accepted) + 1] = v
  BY <1>2, AppendMembers
<1>5. /\ Len(sendq') = Len(sendq) + 1
      /\ \A i \in 1 .. Len(sendq) : sendq'[i] = sendq[i] /\ sendq[i] \in Gs
      /\ sendq'[Len(sendq) + 1] = g
  BY <1>1, AppendMembers
<1>6. \A i \in 1 .. Len(sendq) : sendq[i] # g
  <2>1. g \notin Waiters
    BY DEF Core, Rest, Members, Parking
  <2> QED
    BY <1>1, <2>1 DEF Waiters, Range
<1>7. /\ elem'[g] = v /\ \A i \in 1 .. Len(sendq) : elem'[sendq[i]] = elem[sendq[i]]
  BY <1>1, <1>5, <1>6
<1>8. ASSUME NEW i \in 1 .. Len(sendq) + 1 PROVE elem'[sendq'[i]] = accepted'[m + i]
  <2>1. CASE i = Len(sendq) + 1
    <3>1. m + i = Len(accepted) + 1
      <4> HIDE DEF m
      <4>1. PICK a, b : a = Len(accepted) /\ b = Len(sendq)
        OBVIOUS
      <4>2. m + b = a /\ b \in Nat /\ m \in Nat /\ i = b + 1
        BY <1>3, <2>1, <4>1
      <4>3. m + i = a + 1
        BY <4>2
      <4> QED
        BY <4>1, <4>3
    <3> QED
      BY <1>4, <1>5, <1>7, <2>1, <3>1
  <2>2. CASE i \in 1 .. Len(sendq)
    <3>1. m + i \in 1 .. Len(accepted)
      BY <1>3, <2>2
    <3>2. elem[sendq[i]] = accepted[m + i]
      BY <2>2 DEF Fifo, InSenders
    <3> QED
      BY <1>4, <1>5, <1>7, <2>2, <3>1, <3>2
  <2> QED
    BY <1>3, <2>1, <2>2
<1>9. ASSUME NEW i \in 1 .. Len(received) PROVE received[i] = accepted'[i]
  <2>1. i \in 1 .. Len(accepted)
    BY <1>1, <1>3
  <2> QED
    BY <1>4, <2>1 DEF Fifo, Delivered
<1>10. ASSUME NEW i \in 1 .. qcount
       PROVE  buf[Wrapped(recvx + i - 1)] = accepted'[Len(received) + i]
  <2>1. Len(received) + i \in 1 .. Len(accepted)
    BY <1>1, <1>3
  <2> QED
    BY <1>4, <2>1 DEF Fifo, InBuffer
<1>11. Total' = Len(accepted') /\ Total' <= Len(accepted')
  <2>1. Total' = m + Len(sendq')
    BY DEF Total
  <2> QED
    BY <1>3, <1>4, <1>5, <2>1
<1>12. Histories' /\ Indices'
  BY <1>4 DEF Fifo, Histories, Indices, Wrapped
<1>13. Counted' /\ Delivered'
  BY <1>9, <1>11 DEF Counted, Delivered
<1>14. InBuffer'
  BY <1>10 DEF InBuffer, Wrapped
<1>15. InSenders'
  BY <1>5, <1>8 DEF InSenders
<1> QED
  BY <1>12, <1>13, <1>14, <1>15 DEF Fifo

\* chansend that finds a receiver keeps the lock, with its value nowhere.
LEMMA SendHandsOver ==
  ASSUME Core, Fifo, lock = Nil, NEW v \in Value, NEW g \in Gs,
         lock' = g, pc'[g] = "idle", accepted' = Append(accepted, v),
         UNCHANGED <<dataqsiz, qcount, sendx, recvx, buf, closed, received, sendq, elem>>
  PROVE  Fifo'
<1>1. qcount \in Nat /\ sendq \in Seq(Gs)
  BY DEF Core, Types, TypeOK
<1>2. /\ accepted \in Seq(Value) /\ received \in Seq(Value)
      /\ buf = [i \in 0 .. dataqsiz - 1 |-> buf[i]]
  BY DEF Fifo, Histories
<1>3. /\ accepted' \in Seq(Value) /\ Len(accepted') = Len(accepted) + 1
      /\ \A i \in 1 .. Len(accepted) : accepted'[i] = accepted[i]
  BY <1>2, AppendMembers
<1>4. /\ Len(received) \in Nat /\ Len(sendq) \in Nat /\ Len(accepted) \in Nat
      /\ Len(received) + qcount + Len(sendq) <= Len(accepted)
  BY <1>1, <1>2 DEF Fifo, Counted, Total
<1>5. Stuck'
  BY NilGAssumption DEF Stuck, Parking
<1>6. Histories' /\ Indices'
  BY <1>2, <1>3 DEF Fifo, Histories, Indices, Wrapped
<1>7. Counted'
  <2>1. Total' = Total
    BY DEF Total
  <2>2. Total \in Nat /\ Total <= Len(accepted)
    BY <1>1, <1>4 DEF Total
  <2>3. Total' <= Len(accepted')
    BY <1>3, <1>4, <2>1, <2>2
  <2> QED
    BY <1>5, <2>3 DEF Counted
<1>8. Delivered'
  <2>1. ASSUME NEW i \in 1 .. Len(received) PROVE received[i] = accepted'[i]
    <3>1. i \in 1 .. Len(accepted)
      BY <1>1, <1>4
    <3> QED
      BY <1>3, <3>1 DEF Fifo, Delivered
  <2> QED
    BY <2>1 DEF Delivered
<1>9. InBuffer'
  <2>1. ASSUME NEW i \in 1 .. qcount
        PROVE  buf[Wrapped(recvx + i - 1)] = accepted'[Len(received) + i]
    <3>1. Len(received) + i \in 1 .. Len(accepted)
      BY <1>1, <1>4
    <3> QED
      BY <1>3, <3>1 DEF Fifo, InBuffer
  <2> QED
    BY <2>1 DEF InBuffer, Wrapped
<1>10. InSenders'
  <2>1. ASSUME NEW i \in 1 .. Len(sendq)
        PROVE  elem[sendq[i]] = accepted'[Len(received) + qcount + i]
    <3>1. Len(received) + qcount + i \in 1 .. Len(accepted)
      BY <1>1, <1>4
    <3> QED
      BY <1>3, <3>1 DEF Fifo, InSenders
  <2> QED
    BY <2>1 DEF InSenders
<1> QED
  BY <1>6, <1>7, <1>8, <1>9, <1>10 DEF Fifo

\* Advance and the wrap-around.
LEMMA AdvanceWraps ==
  ASSUME dataqsiz \in Nat, NEW a \in 0 .. dataqsiz - 1, NEW k \in 1 .. dataqsiz
  PROVE  /\ Advance(a) \in 0 .. dataqsiz - 1
         /\ Wrapped(Advance(a) + (k - 1)) = Wrapped(a + k)
         /\ Wrapped(a + k) \in 0 .. dataqsiz - 1
         /\ Wrapped(a + k) = a <=> k = dataqsiz
BY DEF Advance, Wrapped

\* The oldest value, which a receiver takes, is the next one of accepted.
LEMMA OldestIsNext ==
  ASSUME Core, Fifo, NEW v, received' = Append(received, v), accepted' = accepted,
         Len(received) < Len(accepted), v = accepted[Len(received) + 1]
  PROVE  /\ received' \in Seq(Value) /\ Len(received') = Len(received) + 1
         /\ Len(received) \in Nat /\ Len(accepted) \in Nat /\ Delivered'
<1>1. accepted \in Seq(Value) /\ received \in Seq(Value)
  BY DEF Fifo, Histories
<1>2. v \in Value
  BY <1>1
<1>3. /\ received' \in Seq(Value) /\ Len(received) \in Nat /\ Len(received') = Len(received) + 1
      /\ \A i \in 1 .. Len(received) : received'[i] = received[i]
      /\ received'[Len(received) + 1] = v
  BY <1>1, <1>2, AppendMembers
<1>4. ASSUME NEW i \in 1 .. Len(received') PROVE received'[i] = accepted'[i]
  <2>1. i = Len(received) + 1 \/ i \in 1 .. Len(received)
    BY <1>3
  <2>2. CASE i \in 1 .. Len(received)
    BY <1>3, <2>2 DEF Fifo, Delivered
  <2> QED
    BY <1>3, <2>1, <2>2
<1> QED
  BY <1>1, <1>3, <1>4 DEF Delivered

\* chanrecv takes the oldest value of the buffer.
LEMMA RecvFromBuffer ==
  ASSUME Core, Fifo, lock = Nil, closed # 0 \/ sendq = <<>>, qcount > 0,
         received' = Append(received, buf[recvx]), buf' = [buf EXCEPT ![recvx] = Nil],
         recvx' = Advance(recvx), qcount' = qcount - 1, lock' = lock,
         UNCHANGED <<dataqsiz, closed, sendx, accepted, sendq, elem>>
  PROVE  Fifo'
<1>1. /\ dataqsiz \in Nat /\ qcount \in Nat /\ qcount <= dataqsiz
      /\ recvx \in Nat /\ recvx < dataqsiz /\ dataqsiz > 0 /\ Wrapped(recvx + 1 - 1) = recvx
  <2>1. /\ dataqsiz \in Nat /\ qcount \in 0 .. dataqsiz /\ recvx \in 0 .. dataqsiz
        /\ dataqsiz > 0 => recvx < dataqsiz
    BY DEF Core, Types, TypeOK
  <2> QED
    BY <2>1 DEF Wrapped
<1>2. sendq = <<>> /\ Len(sendq) = 0
  BY DEF Core, Reasons
<1>3. /\ Len(received) \in Nat /\ Len(accepted) \in Nat
      /\ Len(received) + qcount <= Len(accepted)
      /\ closed = 0 => Len(received) + qcount = Len(accepted)
      /\ accepted \in Seq(Value) /\ buf = [i \in 0 .. dataqsiz - 1 |-> buf[i]]
      /\ sendx = Wrapped(recvx + qcount)
  <2>1. accepted \in Seq(Value) /\ received \in Seq(Value)
    BY DEF Fifo, Histories
  <2>2. Total = Len(received) + qcount
    BY <1>1, <1>2, <2>1 DEF Total
  <2> QED
    BY <1>1, <2>1, <2>2, LockedTotal DEF Fifo, Counted, Histories, Indices
<1>4. buf[recvx] = accepted[Len(received) + 1]
  <2>1. 1 \in 1 .. qcount
    BY <1>1
  <2> QED
    BY <1>1, <2>1 DEF Fifo, InBuffer
<1>5. /\ received' \in Seq(Value) /\ Len(received') = Len(received) + 1 /\ Delivered'
  <2>1. Len(received) < Len(accepted)
    BY <1>1, <1>3
  <2> QED
    BY <1>4, <2>1, OldestIsNext
<1>6. sendx = Wrapped(recvx' + (qcount - 1))
  <2>1. recvx \in 0 .. dataqsiz - 1 /\ qcount \in 1 .. dataqsiz
    BY <1>1
  <2> QED
    BY <1>1, <1>3, <2>1, AdvanceWraps
<1>7. /\ buf' = [i \in 0 .. dataqsiz - 1 |-> buf'[i]]
      /\ \A i \in 0 .. dataqsiz - 1 : i # recvx => buf'[i] = buf[i]
  BY <1>1, <1>3
<1>8. Histories'
  BY <1>3, <1>5, <1>7 DEF Histories
<1>9. Indices'
  BY <1>6 DEF Indices, Wrapped
<1>10. Counted'
  <2>1. Total' = Len(received) + qcount
    BY <1>1, <1>2, <1>3, <1>5 DEF Total
  <2> QED
    BY <1>3, <2>1 DEF Counted
<1>11. InBuffer'
  <2>1. ASSUME NEW i \in 1 .. qcount - 1
        PROVE  buf'[Wrapped(recvx' + i - 1)] = accepted[Len(received) + 1 + i]
    <3>1. /\ i \in 1 .. dataqsiz /\ i < dataqsiz /\ recvx \in 0 .. dataqsiz - 1
          /\ i + 1 \in 1 .. qcount /\ recvx + (i + 1) - 1 = recvx + i
      BY <1>1
    <3>a. Len(received) + (i + 1) = Len(received) + 1 + i
      <4>1. Len(received) \in Nat /\ i \in Int
        BY <1>3
      <4> QED
        BY <4>1
    <3>2. /\ Wrapped(Advance(recvx) + (i - 1)) = Wrapped(recvx + i)
          /\ Wrapped(recvx + i) # recvx /\ Wrapped(recvx + i) \in 0 .. dataqsiz - 1
          /\ Advance(recvx) \in 0 .. dataqsiz - 1
      <4>1. dataqsiz \in Nat /\ i # dataqsiz
        BY <1>1, <3>1
      <4>2. i \in 1 .. dataqsiz /\ recvx \in 0 .. dataqsiz - 1
        BY <3>1
      <4> QED
        BY <4>1, <4>2, AdvanceWraps, Zenon
    <3>3. recvx' + i - 1 = Advance(recvx) + (i - 1)
      BY <3>2
    <3>4. buf[Wrapped(recvx + i)] = accepted[Len(received) + 1 + i]
      <4>1. buf[Wrapped(recvx + (i + 1) - 1)] = accepted[Len(received) + (i + 1)]
        BY <3>1 DEF Fifo, InBuffer
      <4> QED
        BY <3>1, <3>a, <4>1
    <3> QED
      BY <1>7, <3>2, <3>3, <3>4
  <2> QED
    BY <1>5, <2>1 DEF InBuffer, Wrapped
<1>12. InSenders'
  BY <1>2 DEF InSenders
<1> QED
  BY <1>5, <1>8, <1>9, <1>10, <1>11, <1>12 DEF Fifo

\* What is left of the waiting senders when the first one has been served.
LEMMA SenderLeaves ==
  ASSUME Core, Fifo, lock = Nil, closed = 0, sendq # <<>>, sendq' = Tail(sendq),
         elem' = [elem EXCEPT ![Head(sendq)] = Nil]
  PROVE  /\ qcount = dataqsiz /\ dataqsiz \in Nat
         /\ Len(received) \in Nat /\ Len(sendq) \in Nat /\ Len(sendq') = Len(sendq) - 1
         /\ Len(accepted) = Len(received) + dataqsiz + Len(sendq) /\ Len(sendq) > 0
         /\ elem[Head(sendq)] = accepted[Len(received) + dataqsiz + 1]
         /\ \A i \in 1 .. Len(sendq) - 1 :
              elem'[sendq'[i]] = accepted[Len(received) + dataqsiz + (i + 1)]
<1>1. /\ sendq \in Seq(Gs) /\ elem = [h \in Gs |-> elem[h]] /\ dataqsiz \in Nat
      /\ qcount = dataqsiz /\ IsInjective(sendq)
  BY DEF Core, Types, TypeOK, Reasons, Rest, Members
<1>2. received \in Seq(Value) /\ Total = Len(accepted)
  BY LockedTotal DEF Fifo, Histories
<1>3. /\ Len(sendq) \in Nat /\ Len(sendq) > 0 /\ Len(sendq') = Len(sendq) - 1
      /\ Head(sendq) = sendq[1] /\ DOMAIN sendq = 1 .. Len(sendq)
      /\ \A i \in 1 .. Len(sendq) - 1 : sendq'[i] = sendq[i + 1]
      /\ \A i \in 1 .. Len(sendq) : sendq[i] \in Gs
  BY <1>1
<1>4. ASSUME NEW i \in 1 .. Len(sendq)
      PROVE  elem[sendq[i]] = accepted[Len(received) + dataqsiz + i]
  BY <1>1 DEF Fifo, InSenders
<1>5. ASSUME NEW i \in 1 .. Len(sendq) - 1
      PROVE  elem'[sendq'[i]] = accepted[Len(received) + dataqsiz + (i + 1)]
  <2>1. i + 1 \in 1 .. Len(sendq) /\ 1 \in 1 .. Len(sendq) /\ i + 1 # 1
    BY <1>3
  <2>2. sendq[i + 1] # sendq[1]
    BY <1>1, <1>3, <2>1 DEF IsInjective
  <2>3. elem'[sendq[i + 1]] = elem[sendq[i + 1]]
    BY <1>1, <1>3, <2>1, <2>2
  <2> QED
    BY <1>3, <1>4, <2>1, <2>3
<1>6. elem[Head(sendq)] = accepted[Len(received) + dataqsiz + 1]
  <2>1. 1 \in 1 .. Len(sendq)
    BY <1>3
  <2> QED
    BY <1>3, <1>4, <2>1
<1>7. Len(accepted) = Len(received) + dataqsiz + Len(sendq) /\ Len(received) \in Nat
  BY <1>1, <1>2 DEF Total
<1> QED
  BY <1>1, <1>3, <1>5, <1>6, <1>7

\* Without a buffer, recv takes the value of the first sender that waits.
LEMMA RecvDirect ==
  ASSUME Core, Fifo, lock = Nil, closed = 0, sendq # <<>>, sendq' = Tail(sendq),
         elem' = [elem EXCEPT ![Head(sendq)] = Nil], dataqsiz = 0, lock' = lock,
         received' = Append(received, elem[Head(sendq)]),
         UNCHANGED <<dataqsiz, qcount, closed, buf, sendx, recvx, accepted>>
  PROVE  Fifo'
<1>1. /\ qcount = 0
      /\ Len(received) \in Nat /\ Len(sendq) \in Nat /\ Len(sendq') = Len(sendq) - 1
      /\ Len(accepted) = Len(received) + Len(sendq) /\ Len(sendq) > 0
      /\ elem[Head(sendq)] = accepted[Len(received) + 1]
      /\ \A i \in 1 .. Len(sendq) - 1 : elem'[sendq'[i]] = accepted[Len(received) + 0 + (i + 1)]
  BY SenderLeaves
<1>2. received' \in Seq(Value) /\ Len(received') = Len(received) + 1 /\ Delivered'
  <2>1. Len(received) < Len(accepted)
    BY <1>1
  <2> QED
    BY <1>1, <2>1, OldestIsNext
<1>3. Histories' /\ Indices'
  BY <1>2 DEF Fifo, Histories, Indices
<1>4. Counted'
  <2>1. Total' = Len(accepted) /\ Len(accepted) \in Nat
    BY <1>1, <1>2 DEF Total
  <2> QED
    BY <2>1 DEF Counted
<1>5. InBuffer'
  BY <1>1 DEF InBuffer
<1>6. InSenders'
  <2>1. ASSUME NEW i \in 1 .. Len(sendq')
        PROVE  elem'[sendq'[i]] = accepted[Len(received') + qcount + i]
    <3>1. i \in 1 .. Len(sendq) - 1
      BY <1>1
    <3>2. Len(received') + qcount + i = Len(received) + 0 + (i + 1)
      BY <1>1, <1>2
    <3> QED
      BY <1>1, <3>1, <3>2
  <2> QED
    BY <2>1 DEF InSenders
<1> QED
  BY <1>2, <1>3, <1>4, <1>5, <1>6 DEF Fifo

\* With a full buffer, recv takes its oldest value and puts that of the first
\* sender into the same slot, which is the last one from then on.
LEMMA RecvThrough ==
  ASSUME Core, Fifo, lock = Nil, closed = 0, sendq # <<>>, sendq' = Tail(sendq),
         elem' = [elem EXCEPT ![Head(sendq)] = Nil], dataqsiz # 0, lock' = lock,
         received' = Append(received, buf[recvx]), buf' = [buf EXCEPT ![recvx] = elem[Head(sendq)]],
         recvx' = Advance(recvx), sendx' = Advance(recvx),
         UNCHANGED <<dataqsiz, qcount, closed, accepted>>
  PROVE  Fifo'
<1> DEFINE e == elem[Head(sendq)]
<1>1. /\ qcount = dataqsiz /\ dataqsiz \in Nat
      /\ Len(received) \in Nat /\ Len(sendq) \in Nat /\ Len(sendq') = Len(sendq) - 1
      /\ Len(accepted) = Len(received) + dataqsiz + Len(sendq) /\ Len(sendq) > 0
      /\ e = accepted[Len(received) + dataqsiz + 1]
      /\ \A i \in 1 .. Len(sendq) - 1 :
           elem'[sendq'[i]] = accepted[Len(received) + dataqsiz + (i + 1)]
  BY SenderLeaves
<1> HIDE DEF e
<1>2. /\ recvx \in 0 .. dataqsiz - 1 /\ dataqsiz > 0 /\ Wrapped(recvx + 1 - 1) = recvx
  <2>1. recvx \in 0 .. dataqsiz /\ (dataqsiz > 0 => recvx < dataqsiz) /\ dataqsiz > 0
    BY <1>1 DEF Core, Types, TypeOK
  <2> QED
    BY <1>1, <2>1 DEF Wrapped
<1>3. buf[recvx] = accepted[Len(received) + 1]
  <2>1. 1 \in 1 .. qcount
    BY <1>1, <1>2
  <2> QED
    BY <1>2, <2>1 DEF Fifo, InBuffer
<1>4. received' \in Seq(Value) /\ Len(received') = Len(received) + 1 /\ Delivered'
  <2>1. Len(received) < Len(accepted)
    BY <1>1
  <2> QED
    BY <1>3, <2>1, OldestIsNext
<1>5. /\ buf' = [i \in 0 .. dataqsiz - 1 |-> buf'[i]] /\ buf'[recvx] = e
      /\ \A i \in 0 .. dataqsiz - 1 : i # recvx => buf'[i] = buf[i]
  <2>1. buf = [i \in 0 .. dataqsiz - 1 |-> buf[i]] /\ buf' = [buf EXCEPT ![recvx] = e]
    BY DEF Fifo, Histories, e
  <2> QED
    BY <1>2, <2>1
<1>6. Histories'
  BY <1>4, <1>5 DEF Fifo, Histories
<1>7. Indices'
  <2>1. Advance(recvx) \in 0 .. dataqsiz - 1
    <3>1. 1 \in 1 .. dataqsiz
      BY <1>1, <1>2
    <3> QED
      BY <1>1, <1>2, <3>1, AdvanceWraps
  <2>2. Advance(recvx) = Wrapped(Advance(recvx) + dataqsiz)
    BY <1>1, <2>1 DEF Wrapped
  <2> QED
    BY <1>1, <2>2 DEF Indices, Wrapped
<1>8. Counted'
  <2>1. Total' = Len(accepted) /\ Len(accepted) \in Nat
    BY <1>1, <1>4 DEF Total
  <2> QED
    BY <2>1 DEF Counted
<1>9. InBuffer'
  <2>1. ASSUME NEW i \in 1 .. dataqsiz
        PROVE  buf'[Wrapped(recvx' + i - 1)] = accepted[Len(received) + 1 + i]
    <3>1. /\ Wrapped(Advance(recvx) + (i - 1)) = Wrapped(recvx + i)
          /\ Wrapped(recvx + i) \in 0 .. dataqsiz - 1
          /\ Wrapped(recvx + i) = recvx <=> i = dataqsiz
          /\ Advance(recvx) \in 0 .. dataqsiz - 1
      <4>1. dataqsiz \in Nat /\ recvx \in 0 .. dataqsiz - 1
        BY <1>1, <1>2
      <4> QED
        BY <4>1, AdvanceWraps, Zenon
    <3>2. recvx' + i - 1 = Advance(recvx) + (i - 1)
      BY <3>1
    <3>3. CASE i = dataqsiz
      <4>1. Len(received) + dataqsiz + 1 = Len(received) + 1 + i
        BY <1>1, <3>3
      <4> QED
        BY <1>1, <1>5, <3>1, <3>2, <3>3, <4>1
    <3>4. CASE i # dataqsiz
      <4>1. /\ i + 1 \in 1 .. qcount /\ recvx + (i + 1) - 1 = recvx + i
        BY <1>1, <1>2, <3>4
      <4>2. Len(received) + (i + 1) = Len(received) + 1 + i
        BY <1>1
      <4>3. buf[Wrapped(recvx + (i + 1) - 1)] = accepted[Len(received) + (i + 1)]
        BY <4>1 DEF Fifo, InBuffer
      <4>4. buf[Wrapped(recvx + i)] = accepted[Len(received) + 1 + i]
        BY <4>1, <4>2, <4>3
      <4> QED
        BY <1>5, <3>1, <3>2, <3>4, <4>4
    <3> QED
      BY <3>3, <3>4
  <2> QED
    BY <1>1, <1>4, <2>1 DEF InBuffer, Wrapped
<1>10. InSenders'
  <2>1. ASSUME NEW i \in 1 .. Len(sendq')
        PROVE  elem'[sendq'[i]] = accepted[Len(received') + qcount + i]
    <3>1. i \in 1 .. Len(sendq) - 1
      BY <1>1
    <3>2. Len(received') + qcount + i = Len(received) + dataqsiz + (i + 1)
      BY <1>1, <1>4
    <3> QED
      BY <1>1, <3>1, <3>2
  <2> QED
    BY <2>1 DEF InSenders
<1> QED
  BY <1>4, <1>6, <1>7, <1>8, <1>9, <1>10 DEF Fifo

\* closechan drops the senders that wait.
LEMMA CloseDrops ==
  ASSUME Core, Fifo, closed # 0, sendq' = <<>>,
         UNCHANGED <<dataqsiz, qcount, closed, buf, sendx, recvx, accepted, received>>
  PROVE  Fifo'
<1>1. qcount \in Nat /\ sendq \in Seq(Gs) /\ received \in Seq(Value) /\ accepted \in Seq(Value)
  BY DEF Core, Types, TypeOK, Fifo, Histories
<1>2. Histories' /\ Indices' /\ Delivered' /\ InBuffer'
  BY DEF Fifo, Histories, Indices, Delivered, InBuffer, Wrapped
<1>3. Counted'
  <2>1. Len(sendq') = 0 /\ Len(sendq) \in Nat /\ Len(received) \in Nat /\ Len(accepted) \in Nat
    BY <1>1
  <2>2. Total' <= Len(accepted)
    BY <1>1, <2>1 DEF Fifo, Counted, Total
  <2> QED
    BY <2>2 DEF Counted
<1>4. InSenders'
  BY DEF InSenders
<1> QED
  BY <1>2, <1>3, <1>4 DEF Fifo

-----------------------------------------------------------------------------
(***************************************************************************)
(* Every step.                                                             *)
(***************************************************************************)
\* Calls and the fast paths move nothing.
LEMMA CallFifo ==
  ASSUME Core, Fifo, Closing, NEW g \in Gs,
         Call(g) \/ CallNil(g) \/ FastSend(g) \/ FastRecv(g)
  PROVE  Fifo' /\ Closing'
<1>1. /\ pc[g] \in Local
      /\ \E l \in Local \cup {"gone"} : pc' = [pc EXCEPT ![g] = l]
      /\ UNCHANGED <<fields, recvq, sendq, lock, elem, accepted, received>>
  BY DEF Call, CallNil, FastSend, FastRecv, FastStep, At, Return, Goto, Local, Fast
<1>2. PICK l \in Local \cup {"gone"} : pc' = [pc EXCEPT ![g] = l]
  BY <1>1
<1>3. /\ pc'[g] = l /\ \A k \in Gs \ {g} : pc'[k] = pc[k]
      /\ pc[g] \notin Parking \cup {"release"} /\ l \notin Parking \cup {"release"}
  BY <1>1, <1>2 DEF Core, Types, Local, Fast, Parking
<1> QED
  BY <1>1, <1>3, OutsideStep DEF Core

\* Every outcome of chansend.
LEMMA SendFifo ==
  ASSUME Core, Fifo, Closing, NEW g \in Gs, chansend(g)
  PROVE  Fifo' /\ Closing'
<1> DEFINE v == op[g].val
<1>1. /\ pc[g] = "lock" /\ lock = Nil /\ v \in Value
      /\ UNCHANGED <<dataqsiz, recvx, closed, received>>
  BY DEF chansend, Locks, At, Core, Types, TypeOK, Op, Value
<1> HIDE DEF v
<1>2. Closing'
  <2>1. \E l \in {"gone", "idle", "park"} : pc' = [pc EXCEPT ![g] = l]
    BY DEF chansend, Panic, Return, Enqueue, Goto
  <2> QED
    BY <1>1, <2>1 DEF Closing, Core, Types
<1>3. CASE closed # 0
  <2>1. /\ pc' = [pc EXCEPT ![g] = "gone"]
        /\ UNCHANGED <<fields, recvq, sendq, lock, elem, accepted, received>>
    BY <1>3 DEF chansend, Panic, Goto, fields
  <2>2. /\ pc'[g] = "gone" /\ \A k \in Gs \ {g} : pc'[k] = pc[k]
        /\ pc[g] \notin Parking \cup {"release"} /\ "gone" \notin Parking \cup {"release"}
    BY <1>1, <2>1 DEF Core, Types, Parking
  <2> QED
    BY <2>1, <2>2, OutsideStep DEF Core
<1>4. CASE closed = 0 /\ recvq # <<>>
  <2>1. /\ lock' = g /\ pc' = [pc EXCEPT ![g] = "idle"] /\ accepted' = Append(accepted, v)
        /\ UNCHANGED <<qcount, sendx, buf, sendq, elem>>
    BY <1>4 DEF chansend, Return, Goto, v
  <2>2. pc'[g] = "idle"
    BY <2>1 DEF Core, Types
  <2> QED
    BY <1>1, <1>2, <2>1, <2>2, SendHandsOver
<1>5. CASE closed = 0 /\ recvq = <<>> /\ qcount < dataqsiz
  <2>0. qcount \in Nat /\ dataqsiz \in Nat
    BY DEF Core, Types, TypeOK
  <2>1. /\ buf' = [buf EXCEPT ![sendx] = v] /\ sendx' = Advance(sendx) /\ qcount' = qcount + 1
        /\ accepted' = Append(accepted, v) /\ UNCHANGED <<sendq, lock, elem>>
    BY <1>5, <2>0 DEF chansend, v
  <2> QED
    BY <1>1, <1>2, <1>5, <2>1, SendBuffers
<1>6. CASE closed = 0 /\ recvq = <<>> /\ qcount >= dataqsiz /\ ~ op[g].block
  <2>0. qcount \in Nat /\ dataqsiz \in Nat
    BY DEF Core, Types, TypeOK
  <2>1. /\ pc' = [pc EXCEPT ![g] = "idle"]
        /\ UNCHANGED <<fields, recvq, sendq, lock, elem, accepted, received>>
    BY <1>6, <2>0 DEF chansend, Return, Goto, fields
  <2>2. /\ pc'[g] = "idle" /\ \A k \in Gs \ {g} : pc'[k] = pc[k]
        /\ pc[g] \notin Parking \cup {"release"} /\ "idle" \notin Parking \cup {"release"}
    BY <1>1, <2>1 DEF Core, Types, Parking
  <2> QED
    BY <2>1, <2>2, OutsideStep DEF Core
<1>7. CASE closed = 0 /\ recvq = <<>> /\ qcount >= dataqsiz /\ op[g].block
  <2>0. qcount \in Nat /\ dataqsiz \in Nat
    BY DEF Core, Types, TypeOK
  <2>1. /\ accepted' = Append(accepted, v) /\ sendq' = Append(sendq, g)
        /\ elem' = [elem EXCEPT ![g] = v] /\ UNCHANGED <<qcount, sendx, buf>>
    BY <1>7, <2>0 DEF chansend, Enqueue, enqueue, v
  <2> QED
    BY <1>1, <1>2, <1>7, <2>1, SendParks
<1>8. qcount < dataqsiz \/ qcount >= dataqsiz
  BY DEF Core, Types, TypeOK
<1> QED
  BY <1>3, <1>4, <1>5, <1>6, <1>7, <1>8, Zenon

\* Every outcome of chanrecv.
LEMMA RecvFifo ==
  ASSUME Core, Fifo, Closing, NEW g \in Gs, chanrecv(g)
  PROVE  Fifo' /\ Closing'
<1>1. pc[g] = "lock" /\ lock = Nil /\ UNCHANGED <<dataqsiz, closed, accepted>>
  BY DEF chanrecv, Locks, At
<1>2. Closing'
  <2>1. \E l \in {"ready", "idle", "park"} : pc' = [pc EXCEPT ![g] = l]
    BY DEF chanrecv, Return, Enqueue, Goto
  <2> QED
    BY <1>1, <2>1 DEF Closing, Core, Types
<1>3. CASE /\ Return(g, "done") \/ Return(g, "false")
           /\ UNCHANGED <<qcount, sendx, recvx, buf, recvq, sendq, lock, elem, received>>
  <2>1. /\ pc' = [pc EXCEPT ![g] = "idle"]
        /\ UNCHANGED <<fields, recvq, sendq, lock, elem, accepted, received>>
    BY <1>1, <1>3 DEF Return, Goto, fields
  <2>2. /\ pc'[g] = "idle" /\ \A k \in Gs \ {g} : pc'[k] = pc[k]
        /\ pc[g] \notin Parking \cup {"release"} /\ "idle" \notin Parking \cup {"release"}
    BY <1>1, <2>1 DEF Core, Types, Parking
  <2> QED
    BY <2>1, <2>2, OutsideStep DEF Core
<1>4. CASE /\ closed = 0 /\ sendq # <<>> /\ sendq' = dequeue(sendq) /\ recv(g, Head(sendq))
           /\ UNCHANGED <<qcount, lock>>
  <2>1. sendq' = Tail(sendq) /\ elem' = [elem EXCEPT ![Head(sendq)] = Nil]
    BY <1>4 DEF dequeue, recv
  <2>2. CASE dataqsiz = 0
    <3>1. received' = Append(received, elem[Head(sendq)]) /\ UNCHANGED <<buf, sendx, recvx>>
      BY <1>4, <2>2 DEF recv
    <3> QED
      BY <1>1, <1>2, <1>4, <2>1, <2>2, <3>1, RecvDirect
  <2>3. CASE dataqsiz # 0
    <3>1. /\ received' = Append(received, buf[recvx])
          /\ buf' = [buf EXCEPT ![recvx] = elem[Head(sendq)]]
          /\ recvx' = Advance(recvx) /\ sendx' = Advance(recvx)
      BY <1>4, <2>3 DEF recv
    <3> QED
      BY <1>1, <1>2, <1>4, <2>1, <2>3, <3>1, RecvThrough
  <2> QED
    BY <2>2, <2>3
<1>5. CASE /\ closed # 0 \/ sendq = <<>>
           /\ qcount > 0 /\ received' = Append(received, buf[recvx])
           /\ buf' = [buf EXCEPT ![recvx] = Nil] /\ recvx' = Advance(recvx)
           /\ qcount' = qcount - 1 /\ UNCHANGED <<sendx, sendq, lock, elem>>
  BY <1>1, <1>2, <1>5, RecvFromBuffer
<1>6. CASE /\ closed = 0 /\ sendq = <<>> /\ Enqueue(g, "slot")
           /\ UNCHANGED <<qcount, sendx, recvx, buf, sendq, received>>
  <2>1. ~ Stuck /\ \A i \in 1 .. Len(sendq) : elem'[sendq[i]] = elem[sendq[i]]
    BY <1>1, <1>6 DEF Stuck
  <2> QED
    BY <1>1, <1>2, <1>6, <2>1, StillStep DEF Core
<1> QED
  BY <1>3, <1>4, <1>5, <1>6 DEF chanrecv

\* The steps of closechan.
LEMMA CloseFifo ==
  ASSUME Core, Fifo, Closing, NEW g \in Gs, closechan(g)
  PROVE  Fifo' /\ Closing'
<1>1. UNCHANGED <<dataqsiz, qcount, sendx, recvx, buf, accepted, received>>
  BY DEF closechan
<1>2. CASE Locks(g, "close") /\ closed # 0
  <2>1. /\ pc[g] = "lock" /\ pc' = [pc EXCEPT ![g] = "gone"]
        /\ UNCHANGED <<fields, recvq, sendq, lock, elem, accepted, received>>
    BY <1>2 DEF closechan, Panic, Goto, Locks, At, fields
  <2>2. /\ pc'[g] = "gone" /\ \A k \in Gs \ {g} : pc'[k] = pc[k]
        /\ pc[g] \notin Parking \cup {"release"} /\ "gone" \notin Parking \cup {"release"}
    BY <2>1 DEF Core, Types, Parking
  <2> QED
    BY <2>1, <2>2, OutsideStep DEF Core
<1>3. CASE Locks(g, "close") /\ closed = 0
  <2>1. closed' = 1 /\ UNCHANGED <<sendq, elem>>
    BY <1>3 DEF closechan, Locks, At
  <2> QED
    BY <1>1, <2>1, StillStep DEF Closing, Core
<1>4. CASE At(g, "release")
  <2>1. pc[g] = "release" /\ sendq' = <<>> /\ closed' = closed
    BY <1>4 DEF closechan, Locks, At
  <2>2. closed # 0
    BY <2>1 DEF Closing
  <2> QED
    BY <1>1, <2>1, <2>2, CloseDrops DEF Closing
<1> QED
  BY <1>2, <1>3, <1>4 DEF closechan

\* Parking, up to the unlock of chanparkcommit.
LEMMA ParkFifo ==
  ASSUME Core, Fifo, Closing, NEW g \in Gs, Park(g) \/ chanparkcommit(g)
  PROVE  Fifo' /\ Closing'
<1>1. /\ pc[g] \in Parking /\ \E l \in {"active", "unlock", "parked"} : pc' = [pc EXCEPT ![g] = l]
      /\ UNCHANGED <<fields, sendq, elem, accepted, received>>
  BY DEF Park, gopark, chanparkcommit, At, Goto, chanVars, Parking
<1>2. lock = g /\ closed = 0 /\ ~ Stuck
  BY <1>1 DEF Core, Rest, LockKept, Stuck
<1>3. Fifo'
  BY <1>1, <1>2, StillStep DEF Core, fields
<1>4. Closing'
  BY <1>1 DEF Closing, fields, Core, Types
<1> QED
  BY <1>3, <1>4

\* Readying and scheduling move no value.
LEMMA SchedFifo ==
  ASSUME Core, Fifo, Closing, UNCHANGED chanVars,
         (\E g \in Gs : Readying(g)) \/ (\E p \in Ps : schedule(p))
  PROVE  Fifo' /\ Closing'
<1>1. UNCHANGED <<fields, recvq, sendq, lock, elem, accepted, received>>
  BY DEF chanVars
<1>2. CASE pc' = pc
  <2>1. Stuck' <=> Stuck
    BY <1>1, <1>2 DEF Stuck
  <2>2. Fifo'
    BY <1>1, <2>1, StillStep DEF Core, fields
  <2> QED
    BY <1>1, <1>2, <2>2 DEF Closing, fields
<1>3. ASSUME NEW g \in Gs, pc[g] \notin Parking \cup {"release"},
             NEW l, l \notin Parking \cup {"release"}, pc' = [pc EXCEPT ![g] = l]
      PROVE  Fifo' /\ Closing'
  <2>1. pc'[g] = l /\ \A k \in Gs \ {g} : pc'[k] = pc[k]
    BY <1>3 DEF Core, Types
  <2> QED
    BY <1>1, <1>3, <2>1, OutsideStep DEF Core
<1>4. ASSUME NEW g \in Gs, Readying(g) PROVE Fifo' /\ Closing'
  <2> DEFINE Away == Putting \cup {"ready", "idle"}
  <2>1. pc[g] \in Away /\ (pc' = pc \/ \E l \in Away : pc' = [pc EXCEPT ![g] = l])
    <3>1. CASE ready(g) \/ runqputOldnext(g)
      BY <3>1 DEF ready, runqputOldnext, At, Goto, Putting
    <3>2. CASE runqputNext(g)
      BY <3>2 DEF runqputNext, ReadyNext, At, Goto, Putting
    <3>3. CASE runqputLoad(g) \/ runqputStore(g)
      BY <3>3 DEF runqputLoad, runqputStore, At, Goto, Putting
    <3>4. CASE runqputslow(g)
      BY <3>4 DEF runqputslow, ReadyNext, At, Goto, Putting
    <3> QED
      BY <1>4, <3>1, <3>2, <3>3, <3>4 DEF Readying
  <2>2. \A l \in Away : l \notin Parking \cup {"release"}
    BY DEF Putting, Parking
  <2> QED
    BY <1>2, <1>3, <2>1, <2>2
<1>5. ASSUME NEW p \in Ps, schedule(p) PROVE Fifo' /\ Closing'
  <2>1. PICK x : execute(p, x) /\ x \in Gs \cup Others
    <3>1. \/ \E q \in Ps : runnext[q] # Nil /\ execute(p, runnext[q])
          \/ \E q \in Ps : runqhead[q] < runqtail[q] /\ execute(p, runq[q][runqhead[q] % RunqLen])
          \/ globrunq # <<>> /\ execute(p, Head(globrunq))
      BY <1>5 DEF schedule
    <3>2. thrown = "none"
      BY <1>5 DEF schedule
    <3>3. ASSUME NEW q \in Ps, runqhead[q] < runqtail[q]
          PROVE  runq[q][runqhead[q] % RunqLen] \in Gs \cup Others
      <4>1. runqhead[q] \in Nat /\ runqtail[q] \in {0, RunqLen}
        BY <3>2 DEF Core, Rest, Ring
      <4>2. /\ runqhead[q] % RunqLen = runqhead[q]
            /\ runqhead[q] \in runqhead[q] .. runqtail[q] - 1
        BY <3>3, <4>1, RunqLenAssumption
      <4> QED
        BY <3>2, <4>2 DEF Core, Rest, Ring
    <3>4. \A q \in Ps : runnext[q] # Nil => runnext[q] \in Gs \cup Others
      BY DEF Core, Rest, Ring
    <3>5. globrunq # <<>> => Head(globrunq) \in Gs \cup Others
      BY DEF Core, Rest, Ring
    <3> QED
      BY <3>1, <3>3, <3>4, <3>5
  <2>2. CASE x \in Others
    BY <1>2, <2>1, <2>2 DEF execute
  <2>3. CASE x \notin Others
    <3>1. x \in Gs /\ status[x] = "runnable" /\ pc' = [pc EXCEPT ![x] = "idle"]
      BY <2>1, <2>3 DEF execute, casgstatus, Goto
    <3>2. pc[x] \notin Parking \cup {"release"} /\ "idle" \notin Parking \cup {"release"}
      BY <3>1 DEF Core, Rest, Placed, Parking, Running
    <3> QED
      BY <1>3, <3>1, <3>2
  <2> QED
    BY <2>2, <2>3
<1> QED
  BY <1>4, <1>5

-----------------------------------------------------------------------------
(***************************************************************************)
(* The theorems.                                                           *)
(***************************************************************************)
\* Where every value of accepted is, in every state.
THEOREM FifoInvariance == Spec => [](Fifo /\ Closing)
<1>1. Init => Fifo /\ Closing
  <2> SUFFICES ASSUME Init PROVE Fifo /\ Closing
    OBVIOUS
  <2>1. dataqsiz \in Nat
    BY DataqSizesAssumption DEF Init
  <2>2. Histories /\ Delivered /\ InBuffer /\ InSenders /\ Counted
    BY DEF Init, Histories, Delivered, InBuffer, InSenders, Counted, Total
  <2>3. Indices
    BY <2>1 DEF Init, Indices, Wrapped
  <2>4. Closing
    BY DEF Init, SchedInit, Closing
  <2> QED
    BY <2>2, <2>3, <2>4 DEF Fifo
<1>2. IInv /\ Fifo /\ Closing /\ [Next]_vars => (Fifo /\ Closing)'
  <2>1. ASSUME IInv, Fifo, Closing, Next PROVE Fifo' /\ Closing'
    <3>1. Core /\ Act
      BY <2>1 DEF IInv, Next, Act
    <3> QED
      BY <2>1, <3>1, CallFifo, SendFifo, RecvFifo, CloseFifo, ParkFifo, SchedFifo
         DEF Act, Operating
  <2>2. ASSUME IInv, Fifo, Closing, UNCHANGED vars PROVE Fifo' /\ Closing'
    <3>1. /\ UNCHANGED <<dataqsiz, qcount, sendx, recvx, buf, accepted, received, sendq>>
          /\ elem' = elem /\ pc' = pc /\ closed' = closed /\ lock' = lock
      BY <2>2 DEF vars, schedVars, chanVars, fields
    <3>2. Stuck' <=> Stuck
      BY <3>1 DEF Stuck
    <3>3. Closing'
      BY <2>2, <3>1 DEF Closing
    <3> QED
      BY <2>2, <3>1, <3>2, <3>3, StillStep DEF IInv, Core
  <2> QED
    BY <2>1, <2>2
<1> QED
  BY <1>1, <1>2, Invariance, PTL DEF Spec

\* The remainder is the wrap-around of an index advanced by less than the size.
LEMMA RemainderWraps ==
  ASSUME dataqsiz \in Nat, dataqsiz > 0, NEW x \in 0 .. 2 * dataqsiz - 1
  PROVE  x % dataqsiz = Wrapped(x)
<1>1. CASE x < dataqsiz
  BY <1>1 DEF Wrapped
<1>2. CASE ~ (x < dataqsiz)
  BY <1>2 DEF Wrapped
<1> QED
  BY <1>1, <1>2

\* Values come out in the order in which the senders went in, none of them
\* twice and none made up, over any number of operations on a buffer of any
\* size: received, buffered and waiting values together begin what was accepted.
THEOREM FirstInFirstOut == Spec => []FifoDelivery
<1>1. IInv /\ Fifo => FifoDelivery
  <2> SUFFICES ASSUME IInv, Fifo PROVE FifoDelivery
    OBVIOUS
  <2> DEFINE w == [i \in DOMAIN sendq |-> elem[sendq[i]]]
  <2> DEFINE n == Len(received)
  <2> DEFINE m == Len(sendq)
  <2>1. /\ dataqsiz \in Nat /\ qcount \in 0 .. dataqsiz /\ recvx \in 0 .. dataqsiz
        /\ dataqsiz > 0 => recvx < dataqsiz
        /\ m \in Nat /\ DOMAIN sendq = 1 .. m
        /\ accepted \in Seq(Value) /\ received \in Seq(Value) /\ n \in Nat /\ Len(accepted) \in Nat
        /\ n + qcount + m <= Len(accepted)
    BY DEF IInv, Core, Types, TypeOK, Fifo, Histories, Counted, Total
  <2>2. \A i \in 1 .. Len(accepted) : accepted[i] \in Value
    BY <2>1
  <2> HIDE DEF n, m
  <2>3. ASSUME NEW i \in 1 .. qcount
        PROVE  Buffered[i] = accepted[n + i] /\ Buffered[i] \in Value
    <3>1. /\ dataqsiz > 0 /\ recvx + i - 1 \in 0 .. 2 * dataqsiz - 1
          /\ n + i \in 1 .. Len(accepted)
      BY <2>1
    <3>2. (recvx + i - 1) % dataqsiz = Wrapped(recvx + i - 1)
      BY <2>1, <3>1, RemainderWraps
    <3>3. buf[Wrapped(recvx + i - 1)] = accepted[n + i]
      BY DEF Fifo, InBuffer, n
    <3>4. Buffered[i] = buf[(recvx + i - 1) % dataqsiz]
      BY DEF Buffered
    <3> QED
      BY <2>2, <3>1, <3>2, <3>3, <3>4
  <2>4. ASSUME NEW i \in 1 .. m
        PROVE  w[i] = accepted[n + qcount + i] /\ w[i] \in Value
    <3>1. n + qcount + i \in 1 .. Len(accepted)
      BY <2>1
    <3>2. elem[sendq[i]] = accepted[n + qcount + i]
      BY DEF Fifo, InSenders, n, m
    <3> QED
      BY <2>1, <2>2, <3>1, <3>2
  <2>5. Buffered \in Seq(Value) /\ Len(Buffered) = qcount
    <3>1. Buffered = [i \in 1 .. qcount |-> Buffered[i]] /\ qcount \in Nat
      BY <2>1 DEF Buffered
    <3> QED
      BY <2>3, <3>1
  <2>6. w \in Seq(Value) /\ Len(w) = m
    BY <2>1, <2>4
  <2> DEFINE rb == received \o Buffered
  <2> DEFINE all == rb \o w
  <2> HIDE DEF w
  <2>7. /\ rb \in Seq(Value) /\ Len(rb) = n + qcount
        /\ \A i \in 1 .. n : rb[i] = received[i]
        /\ \A i \in 1 .. qcount : rb[n + i] = Buffered[i]
    <3>1. received \in Seq(Value) /\ Buffered \in Seq(Value)
      BY <2>1, <2>5
    <3>2. /\ rb \in Seq(Value) /\ Len(rb) = Len(received) + Len(Buffered)
          /\ \A i \in 1 .. Len(received) : rb[i] = received[i]
          /\ \A i \in 1 .. Len(Buffered) : rb[Len(received) + i] = Buffered[i]
      BY <3>1, ConcatFacts
    <3> QED
      BY <2>5, <3>2, Zenon DEF n
  <2> HIDE DEF rb
  <2>8. /\ all \in Seq(Value) /\ Len(all) = n + qcount + m
        /\ \A i \in 1 .. n + qcount : all[i] = rb[i]
        /\ \A i \in 1 .. m : all[n + qcount + i] = w[i]
    <3>1. rb \in Seq(Value) /\ w \in Seq(Value)
      BY <2>6, <2>7
    <3>2. /\ all \in Seq(Value) /\ Len(all) = Len(rb) + Len(w)
          /\ \A i \in 1 .. Len(rb) : all[i] = rb[i]
          /\ \A i \in 1 .. Len(w) : all[Len(rb) + i] = w[i]
      BY <3>1, ConcatFacts
    <3> QED
      BY <2>6, <2>7, <3>2, Zenon
  <2> HIDE DEF all
  <2>9. ASSUME NEW i \in 1 .. n + qcount + m PROVE all[i] = accepted[i]
    <3>1. CASE i \in 1 .. n
      <4>1. i \in 1 .. n + qcount
        BY <2>1, <3>1
      <4>2. received[i] = accepted[i]
        BY <3>1 DEF Fifo, Delivered, n
      <4> QED
        BY <2>7, <2>8, <3>1, <4>1, <4>2
    <3>2. CASE i \in n + 1 .. n + qcount
      <4>1. i - n \in 1 .. qcount /\ n + (i - n) = i /\ i \in 1 .. n + qcount
        BY <2>1, <3>2
      <4>2. rb[n + (i - n)] = Buffered[i - n] /\ Buffered[i - n] = accepted[n + (i - n)]
        BY <2>3, <2>7, <4>1
      <4> QED
        BY <2>8, <4>1, <4>2
    <3>3. CASE i \in n + qcount + 1 .. n + qcount + m
      <4> DEFINE j == i - (n + qcount)
      <4>1. j \in 1 .. m /\ n + qcount + j = i
        BY <2>1, <3>3
      <4> HIDE DEF j
      <4>2. all[n + qcount + j] = w[j] /\ w[j] = accepted[n + qcount + j]
        BY <2>4, <2>8, <4>1
      <4> QED
        BY <4>1, <4>2
    <3> QED
      BY <2>1, <3>1, <3>2, <3>3
  <2>10. Len(all) <= Len(accepted) /\ Len(all) \in Nat
    BY <2>1, <2>8
  <2>11. SubSeq(all, 1, Len(all)) = SubSeq(accepted, 1, Len(all))
    <3>1. \A i \in 1 .. Len(all) : all[i] = accepted[i]
      BY <2>8, <2>9
    <3> QED
      BY <2>1, <2>8, <2>10, <3>1
  <2>12. IsPrefix(all, accepted)
    BY <2>10, <2>11 DEF IsPrefix
  <2> QED
    BY <2>12 DEF FifoDelivery, all, rb, w
<1> QED
  BY <1>1, FifoInvariance, Invariance, PTL
=============================================================================
