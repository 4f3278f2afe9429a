------------------------------- MODULE Channel -------------------------------
(***************************************************************************)
(* A channel of channels_and_select/chan.go and the goroutines that use    *)
(* it: chansend, chanrecv and closechan, blocking or not, with the parking *)
(* and readying of Sched.                                                  *)
(*                                                                         *)
(* What happens under the channel's lock is one step, except that closed   *)
(* is set before the wait queues are emptied and that a goroutine which    *)
(* parks keeps the lock until chanparkcommit: the fast paths of non-       *)
(* blocking operations read closed, qcount and the first waiter without    *)
(* the lock, each in a step of its own.                                    *)
(*                                                                         *)
(* The mutex and the copying of values (lock, typedmemmove, memmove) are   *)
(* stubs in the repository and are taken to do what their names say.  A    *)
(* goroutine has one sudog, since nothing here waits on two channels.      *)
(***************************************************************************)
EXTENDS Sched

CONSTANTS
  DataqSizes,  \* sizes of the channel to try
  MaxOps       \* bound on the operations

ASSUME DataqSizesAssumption == DataqSizes \subseteq Nat
ASSUME MaxOpsAssumption == MaxOps \in Nat

VARIABLES
  dataqsiz, qcount, sendx, recvx, buf, closed,  \* the fields of hchan
  recvq, sendq,      \* the goroutines on the wait queues
  lock,              \* who holds hchan.lock, or Nil
  elem,              \* sudog.elem: the value, "slot" for a receiver's, or Nil
  parkingOnChan, activeStackChans,  \* of every goroutine
  op,                \* the operation a goroutine is in
  ops,               \* number of operations begun
  accepted,          \* history: values of sends that did not fail, in order
  received,          \* history: values receivers got, in order
  denied,            \* history: the operations that returned false although
                     \* couldNot was never true during the call
  couldNot           \* history: during the call there was a moment when the
                     \* channel was open and not ready for the operation

fields == <<dataqsiz, qcount, sendx, recvx, buf, closed>>
flags == <<parkingOnChan, activeStackChans>>
chanVars == <<fields, recvq, sendq, lock, elem, flags, op, ops, accepted, received>>
vars == <<schedVars, chanVars, denied, couldNot>>

Op == [kind : {"send", "recv", "close", "done", "false"}, block : BOOLEAN, val : 0 .. MaxOps]

\* The operation is over; all that is remembered is whether it returned false.
Ended(r) == [kind |-> r, block |-> TRUE, val |-> 0]

\* makechan, for every size, when nobody has used the channel.
Init ==
  /\ SchedInit
  /\ dataqsiz \in DataqSizes
  /\ qcount = 0 /\ sendx = 0 /\ recvx = 0 /\ closed = 0
  /\ buf = [i \in 0 .. dataqsiz - 1 |-> Nil]
  /\ recvq = <<>> /\ sendq = <<>> /\ lock = Nil
  /\ elem = [g \in Gs |-> Nil]
  /\ parkingOnChan = [g \in Gs |-> FALSE] /\ activeStackChans = [g \in Gs |-> FALSE]
  /\ op = [g \in Gs |-> Ended("done")] /\ ops = 0
  /\ accepted = <<>> /\ received = <<>>
  /\ couldNot = [g \in Gs |-> FALSE] /\ denied = {}

-----------------------------------------------------------------------------
\* full and empty: one read of a mutable word.
full == IF dataqsiz = 0 THEN recvq = <<>> ELSE qcount = dataqsiz
empty == IF dataqsiz = 0 THEN sendq = <<>> ELSE qcount = 0

Return(g, r) == Goto(g, "idle") /\ op' = [op EXCEPT ![g] = Ended(r)]

\* A panic ends the goroutine; its P is free.
Panic(g) ==
  /\ dropg(g) /\ status' = [status EXCEPT ![g] = "dead"]
  /\ Goto(g, "gone") /\ op' = [op EXCEPT ![g] = Ended("done")]

\* g calls an operation; the value sent is the number of the call.
Call(g) ==
  /\ At(g, "idle") /\ ops < MaxOps
  /\ \E k \in {"send", "recv", "close"}, b \in BOOLEAN :
       /\ k = "close" => b
       /\ op' = [op EXCEPT ![g] = [kind |-> k, block |-> b, val |-> ops + 1]]
       /\ Goto(g, IF b THEN "lock" ELSE "fast1")
  /\ ops' = ops + 1
  /\ UNCHANGED <<status, curg, queues, glist, put, thrown>>
  /\ UNCHANGED <<fields, recvq, sendq, lock, elem, flags, accepted, received>>

\* A blocking operation on a nil channel, or block(): gopark(nil, nil), after
\* which nobody readies the goroutine.
CallNil(g) ==
  /\ At(g, "idle") /\ ops < MaxOps
  /\ casgstatus(g, "running", "waiting") /\ dropg(g) /\ Goto(g, "gone")
  /\ ops' = ops + 1
  /\ UNCHANGED <<queues, glist, put, thrown>>
  /\ UNCHANGED <<fields, recvq, sendq, lock, elem, flags, op, accepted, received>>

FastStep(g) ==
  /\ UNCHANGED <<status, curg, queues, glist, put, thrown>>
  /\ UNCHANGED <<fields, recvq, sendq, lock, elem, flags, ops, accepted, received>>

\* The fast path of chansend: closed is read, then full.
FastSend(g) ==
  /\ op[g].kind = "send"
  /\ \/ /\ At(g, "fast1")
        /\ Goto(g, IF closed = 0 THEN "fast2" ELSE "lock") /\ UNCHANGED op
     \/ /\ At(g, "fast2")
        /\ IF full THEN Return(g, "false") ELSE Goto(g, "lock") /\ UNCHANGED op
  /\ FastStep(g)

\* Mutant: chanrecv reads closed before it looks whether the channel is empty.
FastRecvReordered(g) ==
  /\ op[g].kind = "recv"
  /\ \/ /\ At(g, "fast1")
        /\ Goto(g, IF closed = 0 THEN "fast2" ELSE "fast3") /\ UNCHANGED op
     \/ /\ At(g, "fast2")
        /\ IF empty THEN Return(g, "false") ELSE Goto(g, "lock") /\ UNCHANGED op
     \/ /\ At(g, "fast3")
        /\ IF empty THEN Return(g, "done") ELSE Goto(g, "lock") /\ UNCHANGED op
  /\ FastStep(g)

\* The fast path of chanrecv: empty, then closed, then empty once more.
FastRecv(g) ==
  /\ op[g].kind = "recv"
  /\ \/ /\ At(g, "fast1")
        /\ Goto(g, IF empty THEN "fast2" ELSE "lock") /\ UNCHANGED op
     \/ /\ At(g, "fast2")
        /\ IF closed = 0 THEN Return(g, "false") ELSE Goto(g, "fast3") /\ UNCHANGED op
     \/ /\ At(g, "fast3")
        /\ IF empty THEN Return(g, "done") ELSE Goto(g, "lock") /\ UNCHANGED op
  /\ FastStep(g)

-----------------------------------------------------------------------------
(***************************************************************************)
(* Under the lock.                                                         *)
(***************************************************************************)
\* The lock is free and g, which is in an operation of kind k, gets it.
Locks(g, k) == At(g, "lock") /\ op[g].kind = k /\ lock = Nil

\* Mutant: the wrap-around is tested before the index is advanced.
AdvanceLate(x) == IF x = dataqsiz THEN 0 ELSE x + 1

Advance(x) == IF x + 1 = dataqsiz THEN 0 ELSE x + 1

\* A waitq is the sequence of its goroutines, first one first.
enqueue(q, g) == Append(q, g)
dequeue(q) == Tail(q)

\* acquireSudog, enqueue and gopark up to park_m: g is on the wait queue and
\* keeps the lock.  The caches of sudogs are empty, as nothing releases one.
Enqueue(g, e) ==
  /\ lock' = g /\ Goto(g, "park")
  /\ elem' = [elem EXCEPT ![g] = e]
  /\ parkingOnChan' = [parkingOnChan EXCEPT ![g] = TRUE]
  /\ UNCHANGED <<status, curg, activeStackChans, glist, op>>

chansend(g) ==
  LET v == op[g].val IN
  /\ Locks(g, "send")
  /\ \/ /\ closed # 0 /\ Panic(g)
        /\ UNCHANGED <<qcount, sendx, buf, recvq, sendq, lock, elem, flags, glist, accepted>>
     \/ \* a receiver waits: it is dequeued, and that is all; the lock is kept
        /\ closed = 0 /\ recvq # <<>>
        /\ recvq' = dequeue(recvq) /\ lock' = g /\ accepted' = Append(accepted, v)
        /\ Return(g, "done")
        /\ UNCHANGED <<status, curg, qcount, sendx, buf, sendq, elem, flags, glist>>
     \/ /\ closed = 0 /\ recvq = <<>> /\ qcount < dataqsiz
        /\ buf' = [buf EXCEPT ![sendx] = v] /\ sendx' = Advance(sendx) /\ qcount' = qcount + 1
        /\ accepted' = Append(accepted, v) /\ Return(g, "done")
        /\ UNCHANGED <<status, curg, recvq, sendq, lock, elem, flags, glist>>
     \/ /\ closed = 0 /\ recvq = <<>> /\ qcount >= dataqsiz /\ ~ op[g].block
        /\ Return(g, "false")
        /\ UNCHANGED <<status, curg, qcount, sendx, buf, recvq, sendq, lock, elem, flags,
                       glist, accepted>>
     \/ /\ closed = 0 /\ recvq = <<>> /\ qcount >= dataqsiz /\ op[g].block
        /\ sendq' = enqueue(sendq, g) /\ Enqueue(g, v) /\ accepted' = Append(accepted, v)
        /\ UNCHANGED <<qcount, sendx, buf, recvq>>
  /\ UNCHANGED <<dataqsiz, recvx, closed, ops, received, queues, put, thrown>>

\* Mutant: the sender's value goes into the slot, the head stays.
recvKeepsHead(g, sg) ==
  /\ IF dataqsiz = 0
       THEN received' = Append(received, elem[sg]) /\ UNCHANGED <<buf, sendx, recvx>>
       ELSE /\ received' = Append(received, buf[recvx])
            /\ buf' = [buf EXCEPT ![recvx] = elem[sg]]
            /\ sendx' = recvx /\ UNCHANGED recvx
  /\ elem' = [elem EXCEPT ![sg] = Nil]
  /\ glist' = [glist EXCEPT ![g] = <<sg>>]

\* recv: a sender waits, so the value is its own or, from a full buffer, the
\* oldest, in whose slot the sender's is put.
recv(g, sg) ==
  /\ IF dataqsiz = 0
       THEN received' = Append(received, elem[sg]) /\ UNCHANGED <<buf, sendx, recvx>>
       ELSE /\ received' = Append(received, buf[recvx])
            /\ buf' = [buf EXCEPT ![recvx] = elem[sg]]
            /\ recvx' = Advance(recvx) /\ sendx' = Advance(recvx)
  /\ elem' = [elem EXCEPT ![sg] = Nil]
  /\ glist' = [glist EXCEPT ![g] = <<sg>>]

chanrecv(g) ==
  /\ Locks(g, "recv")
  /\ \/ /\ closed # 0 /\ qcount = 0 /\ Return(g, "done")
        /\ UNCHANGED <<status, curg, qcount, sendx, recvx, buf, recvq, sendq, lock, elem,
                       flags, glist, received>>
     \/ /\ closed = 0 /\ sendq # <<>>
        /\ sendq' = dequeue(sendq) /\ recv(g, Head(sendq)) /\ Goto(g, "ready")
        /\ op' = [op EXCEPT ![g] = Ended("done")]
        /\ UNCHANGED <<status, curg, qcount, recvq, lock, flags>>
     \/ /\ closed # 0 \/ sendq = <<>>
        /\ qcount > 0
        /\ received' = Append(received, buf[recvx])
        /\ buf' = [buf EXCEPT ![recvx] = Nil] /\ recvx' = Advance(recvx) /\ qcount' = qcount - 1
        /\ Return(g, "done")
        /\ UNCHANGED <<status, curg, sendx, recvq, sendq, lock, elem, flags, glist>>
     \/ /\ closed = 0 /\ sendq = <<>> /\ qcount = 0 /\ ~ op[g].block
        /\ Return(g, "false")
        /\ UNCHANGED <<status, curg, qcount, sendx, recvx, buf, recvq, sendq, lock, elem,
                       flags, glist, received>>
     \/ /\ closed = 0 /\ sendq = <<>> /\ qcount = 0 /\ op[g].block
        /\ recvq' = enqueue(recvq, g) /\ Enqueue(g, "slot")
        /\ UNCHANGED <<qcount, sendx, recvx, buf, sendq, received>>
  /\ UNCHANGED <<dataqsiz, closed, ops, accepted, queues, put, thrown>>

\* Mutant: the lock is given up before the goroutine waits.
UnlockThenPark(g) ==
  \/ /\ At(g, "park") /\ lock = g
     /\ lock' = Nil /\ Goto(g, "late")
     /\ UNCHANGED <<status, curg, queues, glist, put, thrown>>
     /\ UNCHANGED <<fields, recvq, sendq, elem, flags, op, ops, accepted, received>>
  \/ At(g, "late") /\ gopark(g, "active") /\ UNCHANGED chanVars

\* park_m: the goroutine waits.
Park(g) == At(g, "park") /\ gopark(g, "active") /\ UNCHANGED chanVars

\* Mutant: parkingOnChan is reset before activeStackChans is set.
parkcommitReordered(g) ==
  /\ \/ /\ At(g, "active") /\ parkingOnChan' = [parkingOnChan EXCEPT ![g] = FALSE]
        /\ Goto(g, "unlock") /\ UNCHANGED <<curg, lock, activeStackChans>>
     \/ /\ At(g, "unlock") /\ activeStackChans' = [activeStackChans EXCEPT ![g] = TRUE]
        /\ lock' = Nil /\ dropg(g) /\ Goto(g, "parked") /\ UNCHANGED parkingOnChan
  /\ UNCHANGED <<status, queues, glist, put, thrown>>
  /\ UNCHANGED <<fields, recvq, sendq, elem, op, ops, accepted, received>>

\* chanparkcommit, called by park_m: first activeStackChans, then
\* parkingOnChan, then the lock; after it the P schedules.
chanparkcommit(g) ==
  /\ \/ /\ At(g, "active") /\ activeStackChans' = [activeStackChans EXCEPT ![g] = TRUE]
        /\ Goto(g, "unlock") /\ UNCHANGED <<curg, lock, parkingOnChan>>
     \/ /\ At(g, "unlock") /\ parkingOnChan' = [parkingOnChan EXCEPT ![g] = FALSE]
        /\ lock' = Nil /\ dropg(g) /\ Goto(g, "parked") /\ UNCHANGED activeStackChans
  /\ UNCHANGED <<status, queues, glist, put, thrown>>
  /\ UNCHANGED <<fields, recvq, sendq, elem, op, ops, accepted, received>>

\* Mutant: closechan wakes the receivers and forgets the senders.
closechanReceivers(g) ==
  /\ \/ /\ Locks(g, "close") /\ closed # 0 /\ Panic(g)
        /\ UNCHANGED <<closed, recvq, sendq, lock, elem, glist>>
     \/ /\ Locks(g, "close") /\ closed = 0
        /\ closed' = 1 /\ lock' = g /\ Goto(g, "release")
        /\ UNCHANGED <<status, curg, op, recvq, sendq, elem, glist>>
     \/ /\ At(g, "release")
        /\ glist' = [glist EXCEPT ![g] = Reverse(recvq)]
        /\ elem' = [h \in Gs |-> IF h \in Range(recvq) THEN Nil ELSE elem[h]]
        /\ recvq' = <<>> /\ lock' = Nil
        /\ Goto(g, IF recvq = <<>> THEN "idle" ELSE "ready")
        /\ op' = [op EXCEPT ![g] = Ended("done")] /\ UNCHANGED <<status, curg, closed, sendq>>
  /\ UNCHANGED <<dataqsiz, qcount, sendx, recvx, buf, flags, ops, accepted, received>>
  /\ UNCHANGED <<queues, put, thrown>>

\* closechan: closed is set, all waiters are taken off the queues, and readied
\* when the lock is free again, last first.
closechan(g) ==
  /\ \/ /\ Locks(g, "close") /\ closed # 0 /\ Panic(g)
        /\ UNCHANGED <<closed, recvq, sendq, lock, elem, glist>>
     \/ /\ Locks(g, "close") /\ closed = 0
        /\ closed' = 1 /\ lock' = g /\ Goto(g, "release")
        /\ UNCHANGED <<status, curg, op, recvq, sendq, elem, glist>>
     \/ /\ At(g, "release")
        /\ LET all == recvq \o sendq IN
             /\ glist' = [glist EXCEPT ![g] = glistOf(all)]
             /\ elem' = [h \in Gs |-> IF h \in Range(all) THEN Nil ELSE elem[h]]
             /\ Goto(g, IF all = <<>> THEN "idle" ELSE "ready")
        /\ recvq' = <<>> /\ sendq' = <<>> /\ lock' = Nil
        /\ op' = [op EXCEPT ![g] = Ended("done")] /\ UNCHANGED <<status, curg, closed>>
  /\ UNCHANGED <<dataqsiz, qcount, sendx, recvx, buf, flags, ops, accepted, received>>
  /\ UNCHANGED <<queues, put, thrown>>

-----------------------------------------------------------------------------
\* What a goroutine does next once it runs; starting an operation is its own
\* choice, going on with one is not.
Operating(g) ==
  \/ FastSend(g) \/ FastRecv(g) \/ chansend(g) \/ chanrecv(g) \/ closechan(g)
  \/ Park(g) \/ chanparkcommit(g) \/ (Readying(g) /\ UNCHANGED chanVars)

\* The channel is open and g's operation would have to wait.
NotReady(g) ==
  /\ closed = 0
  /\ (op[g].kind = "send" /\ full) \/ (op[g].kind = "recv" /\ empty)
InNonblocking(g) == pc[g] \in {"fast1", "fast2", "fast3", "lock"} /\ ~ op[g].block

Next ==
  /\ \/ \E g \in Gs : Call(g) \/ CallNil(g) \/ Operating(g)
     \/ \E p \in Ps : schedule(p) /\ UNCHANGED chanVars
  /\ couldNot' = [g \in Gs |-> InNonblocking(g)' /\ (couldNot[g] \/ NotReady(g)')]
  /\ denied' = denied \cup {op[g].kind : g \in {h \in Gs : InNonblocking(h) /\ ~ couldNot[h]
                                                             /\ op'[h].kind = "false"}}

Spec == Init /\ [][Next]_vars

-----------------------------------------------------------------------------
\* Every variable has its type.
TypeOK ==
  /\ status \in [Gs \cup Others -> Gstatus]
  /\ qcount \in 0 .. dataqsiz /\ closed \in {0, 1}
  /\ sendx \in 0 .. dataqsiz /\ recvx \in 0 .. dataqsiz
  /\ dataqsiz > 0 => sendx < dataqsiz /\ recvx < dataqsiz
  /\ recvq \in Seq(Gs) /\ sendq \in Seq(Gs)
  /\ lock \in Gs \cup {Nil} /\ op \in [Gs -> Op]

Buffered == [i \in 1 .. qcount |-> buf[(recvx + i - 1) % dataqsiz]]

\* Values come out in the order in which the senders went in, none of them
\* twice: over the buffer that wraps round, over senders that wait for it and
\* over the slot recv uses twice.
FifoDelivery ==
  LET waiting == [i \in DOMAIN sendq |-> elem[sendq[i]]] IN
  IsPrefix(received \o Buffered \o waiting, accepted)

\* Whoever waits, waits for a reason: receivers only on an empty channel and
\* senders only on a full one, which recv relies on; nobody on a closed one.
WaitersHaveReason ==
  lock = Nil =>
    /\ recvq # <<>> => qcount = 0 /\ sendq = <<>> /\ closed = 0
    /\ sendq # <<>> => qcount = dataqsiz /\ closed = 0

\* Whoever wants to shrink the stack of a goroutine that waits on the channel
\* sees parkingOnChan or activeStackChans.
StackChansFlagged ==
  \A g \in Gs : (status[g] = "waiting" /\ elem[g] # Nil)
                   => parkingOnChan[g] \/ activeStackChans[g]

\* A non-blocking receive that reports "not ready" without the lock had a
\* moment in which the channel was open and empty.
RecvHadMoment == "recv" \notin denied

\* Whoever is parked when the channel is unlocked is on a wait queue of the
\* open channel, or on the list of a goroutine that is readying them: nobody is
\* taken off a queue and forgotten, by closechan or by the other end.  Only the
\* chansend that found a receiver leaves it parked, and that one never unlocks.
NobodyStranded ==
  lock = Nil =>
    \A g \in Gs : (pc[g] = "parked" /\ status[g] = "waiting") =>
      \/ closed = 0 /\ g \in Range(recvq) \cup Range(sendq)
      \/ \E h \in Gs : g \in Range(glist[h])
=============================================================================
