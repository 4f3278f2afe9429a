-------------------------------- MODULE Sched --------------------------------
(***************************************************************************)
(* Parking, readying and the run queues of channels_and_select/proc.go.    *)
(*                                                                         *)
(* A P executes one goroutine at a time.  A goroutine that parks gives its *)
(* P away once the function handed to gopark has run on it; a goroutine    *)
(* that is readied is put into the P's runnext slot, and what was there is *)
(* kicked out to the P's ring, or with half of the ring to the global      *)
(* queue.  Other Ps take from the ring and from runnext meanwhile.         *)
(*                                                                         *)
(* Every load, store and compare-and-swap of runqhead, runqtail and        *)
(* runnext is a step.  A slot of the ring beyond runqtail is read by       *)
(* nobody, so it is filled in the step that stores runqtail.  schedule is  *)
(* empty in the source: who picks goroutines up is external.               *)
(***************************************************************************)
EXTENDS Integers, Sequences, SequencesExt

CONSTANTS
  Gs,       \* the goroutines that use the channel
  Others,   \* other goroutines that were on a run queue before
  Ps,       \* processors
  RunqLen,  \* len(p.runq), 256 in the code
  Nil

ASSUME RunqLenAssumption == RunqLen \in Nat /\ RunqLen > 0 /\ RunqLen % 2 = 0
ASSUME NilGAssumption == Nil \notin Gs \cup Others /\ Cardinality(Others) = RunqLen
ASSUME GoroutinesAssumption == Gs \cap Others = {} /\ IsFiniteSet(Gs) /\ IsFiniteSet(Others)
ASSUME ProcessorsAssumption == Ps # {}

VARIABLES
  status,    \* atomicstatus of every goroutine
  curg,      \* what every P executes, or Nil
  runnext,   \* p.runnext
  runq,      \* p.runq, indexed modulo RunqLen
  runqhead,  \* p.runqhead
  runqtail,  \* p.runqtail
  globrunq,  \* sched.runq
  glist,     \* the goroutines a goroutine has still to ready
  put,       \* the locals of the runqput a goroutine is in
  pc,        \* where every goroutine is
  thrown     \* the argument of throw, or "none"

queues == <<runnext, runq, runqhead, runqtail, globrunq>>
schedVars == <<status, curg, queues, glist, put, pc, thrown>>

\* The values of atomicstatus that occur here; a goroutine that has ended is
\* dead.
Gstatus == {"runnable", "running", "waiting", "dead"}

PutLocals == [gp |-> Nil, oldnext |-> Nil, h |-> 0, t |-> 0, batch |-> <<>>]

\* Goroutines that other code has made runnable: those of Gs on the global
\* queue, Others nowhere or filling the ring of one P.
SchedInit ==
  /\ curg = [p \in Ps |-> Nil] /\ runnext = [p \in Ps |-> Nil]
  /\ globrunq = SetToSeq(Gs)
  /\ runqhead = [p \in Ps |-> 0]
  /\ LET first == CHOOSE p \in Ps : TRUE IN
     \E n \in {0, RunqLen} :
       /\ runqtail = [p \in Ps |-> IF p = first THEN n ELSE 0]
       /\ runq = [p \in Ps |-> [i \in 0 .. RunqLen - 1 |->
                    IF p = first /\ i < n THEN SetToSeq(Others)[i + 1] ELSE Nil]]
       /\ status = [g \in Gs \cup Others |-> IF g \in Others /\ n = 0 THEN "dead" ELSE "runnable"]
  /\ glist = [g \in Gs |-> <<>>] /\ put = [g \in Gs |-> PutLocals]
  /\ pc = [g \in Gs |-> "idle"] /\ thrown = "none"

\* g executes its next instruction, which is at l.
At(g, l) == pc[g] = l /\ thrown = "none" /\ \E p \in Ps : curg[p] = g
P(g) == CHOOSE p \in Ps : curg[p] = g
Goto(g, l) == pc' = [pc EXCEPT ![g] = l]

\* casgstatus, which waits until the status is the expected one: with no
\* garbage collector in the repository that sets a scan bit, it is at once.
casgstatus(g, old, new) == status[g] = old /\ status' = [status EXCEPT ![g] = new]

\* The P that executed g is free for another goroutine.
dropg(g) == curg' = [curg EXCEPT ![P(g)] = Nil]

\* gopark and park_m up to the call of unlockf: g waits, its P goes on.
gopark(g, next) ==
  /\ casgstatus(g, "running", "waiting") /\ Goto(g, next)
  /\ UNCHANGED <<curg, queues, glist, put, thrown>>

\* execute, with the choice of the empty schedule: the P takes a goroutine
\* that is runnable.  One of Others runs to its end.
execute(p, g) ==
  IF g \in Others
    THEN casgstatus(g, "runnable", "dead") /\ UNCHANGED <<curg, pc>>
    ELSE /\ casgstatus(g, "runnable", "running") /\ curg' = [curg EXCEPT ![p] = g]
         /\ Goto(g, "idle")

schedule(p) ==
  /\ curg[p] = Nil /\ thrown = "none"
  /\ \/ \E q \in Ps : /\ runnext[q] # Nil /\ execute(p, runnext[q])
                      /\ runnext' = [runnext EXCEPT ![q] = Nil]
                      /\ UNCHANGED <<runq, runqhead, runqtail, globrunq>>
     \/ \E q \in Ps : /\ runqhead[q] < runqtail[q]
                      /\ execute(p, runq[q][runqhead[q] % RunqLen])
                      /\ runqhead' = [runqhead EXCEPT ![q] = @ + 1]
                      /\ UNCHANGED <<runnext, runq, runqtail, globrunq>>
     \/ /\ globrunq # <<>> /\ execute(p, Head(globrunq))
        /\ globrunq' = Tail(globrunq)
        /\ UNCHANGED <<runnext, runq, runqhead, runqtail>>
  /\ UNCHANGED <<glist, put, thrown>>

-----------------------------------------------------------------------------
\* A gList is the sequence of its goroutines; each is pushed in front.
glistOf(gs) == Reverse(gs)

\* runqput returned: on to the next goroutine to ready, or back to the caller.
ReadyNext(g) ==
  /\ glist' = [glist EXCEPT ![g] = Tail(@)]
  /\ Goto(g, IF Len(glist[g]) > 1 THEN "ready" ELSE "idle")

\* goready and ready: the goroutine must be waiting.
ready(g) ==
  /\ At(g, "ready")
  /\ LET gp == Head(glist[g]) IN
       IF status[gp] = "waiting"
         THEN /\ casgstatus(gp, "waiting", "runnable")
              /\ put' = [put EXCEPT ![g] = [PutLocals EXCEPT !.gp = gp]]
              /\ Goto(g, "oldnext") /\ UNCHANGED thrown
         ELSE thrown' = "bad g->status in ready" /\ UNCHANGED <<status, put, pc>>
  /\ UNCHANGED <<curg, queues, glist>>

\* retryNext: the plain read of runnext.
runqputOldnext(g) ==
  /\ At(g, "oldnext")
  /\ put' = [put EXCEPT ![g].oldnext = runnext[P(g)]]
  /\ Goto(g, "casnext")
  /\ UNCHANGED <<status, curg, queues, glist, thrown>>

\* The compare-and-swap of runnext; what was there is put on the ring.
runqputNext(g) ==
  /\ At(g, "casnext")
  /\ LET old == put[g].oldnext IN
       IF runnext[P(g)] # old
         THEN Goto(g, "oldnext") /\ UNCHANGED <<runnext, put, glist>>
         ELSE /\ runnext' = [runnext EXCEPT ![P(g)] = put[g].gp]
              /\ put' = [put EXCEPT ![g] = [PutLocals EXCEPT !.gp = old]]
              /\ IF old = Nil THEN ReadyNext(g) ELSE Goto(g, "load") /\ UNCHANGED glist
  /\ UNCHANGED <<status, curg, runq, runqhead, runqtail, globrunq, thrown>>

\* retry: the loads of runqhead and runqtail.
runqputLoad(g) ==
  /\ At(g, "load")
  /\ put' = [put EXCEPT ![g].h = runqhead[P(g)], ![g].t = runqtail[P(g)]]
  /\ Goto(g, "store")
  /\ UNCHANGED <<status, curg, queues, glist, thrown>>

\* The ring has room: the goroutine is stored, and runqputslow, which is
\* called all the same, finds that the ring was not full.
\* The ring is full: runqputslow copies half of it.
runqputStore(g) ==
  /\ At(g, "store")
  /\ LET h == put[g].h  t == put[g].t  p == P(g)
         n == (t - h) \div 2 IN
       /\ IF t - h < RunqLen
            THEN /\ runq' = [runq EXCEPT ![p][t % RunqLen] = put[g].gp]
                 /\ runqtail' = [runqtail EXCEPT ![p] = t + 1]
            ELSE UNCHANGED <<runq, runqtail>>
       /\ IF n # RunqLen \div 2
            THEN thrown' = "runqputslow: queue is not full" /\ UNCHANGED <<put, pc>>
            ELSE /\ put' = [put EXCEPT ![g].batch =
                              [i \in 1 .. n |-> runq[p][(h + i - 1) % RunqLen]]]
                 /\ Goto(g, "cashead") /\ UNCHANGED thrown
  /\ UNCHANGED <<status, curg, runnext, runqhead, globrunq, glist>>

\* Mutant: the new head is stored without looking whether it moved.
runqputslowBlind(g) ==
  /\ At(g, "cashead")
  /\ runqhead' = [runqhead EXCEPT ![P(g)] = put[g].h + Len(put[g].batch)]
  /\ globrunq' = globrunq \o Append(put[g].batch, put[g].gp)
  /\ put' = [put EXCEPT ![g] = PutLocals]
  /\ ReadyNext(g)
  /\ UNCHANGED <<status, curg, runnext, runq, runqtail, thrown>>

\* A gQueue is the sequence of its goroutines.
pushBackAll(q, q2) == q \o q2

\* globrunqputbatch, under sched.lock.
globrunqputbatch(batch) == globrunq' = pushBackAll(globrunq, batch)

\* runqputslow commits: the batch and the goroutine go to the global queue,
\* unless the head has moved.
runqputslow(g) ==
  /\ At(g, "cashead")
  /\ IF runqhead[P(g)] # put[g].h
       THEN Goto(g, "load") /\ UNCHANGED <<runqhead, globrunq, put, glist>>
       ELSE /\ runqhead' = [runqhead EXCEPT ![P(g)] = @ + Len(put[g].batch)]
            /\ globrunqputbatch(Append(put[g].batch, put[g].gp))
            /\ put' = [put EXCEPT ![g] = PutLocals]
            /\ ReadyNext(g)
  /\ UNCHANGED <<status, curg, runnext, runq, runqtail, thrown>>

Readying(g) ==
  \/ ready(g) \/ runqputOldnext(g) \/ runqputNext(g)
  \/ runqputLoad(g) \/ runqputStore(g) \/ runqputslow(g)

-----------------------------------------------------------------------------
\* How many places hold the goroutine x as runnable.
InHand(x) == {g \in Gs : put[g].gp = x /\ pc[g] \in {"oldnext", "casnext", "load", "store", "cashead"}}
InRing(x) ==
  UNION {{<<p, i>> : i \in {j \in runqhead[p] .. runqtail[p] - 1 : runq[p][j % RunqLen] = x}}
         : p \in Ps}
Places(x) ==
  Cardinality({p \in Ps : runnext[p] = x}) + Cardinality(InRing(x))
    + Cardinality({i \in DOMAIN globrunq : globrunq[i] = x}) + Cardinality(InHand(x))

\* A runnable goroutine is in exactly one place where a P can find it, or in
\* the hands of the one who readies it; any other is in none: whatever the
\* other Ps take while runqput and runqputslow look at stale indices.
OneRunQueue ==
  thrown = "none" =>
    \A x \in Gs \cup Others : Places(x) = IF status[x] = "runnable" THEN 1 ELSE 0

\* ready is called for goroutines that wait, and only once for each time: the
\* channel is not unlocked before the goroutine on its queue has parked.
ReadyFindsWaiting == thrown # "bad g->status in ready"
=============================================================================
