--------------------------- MODULE BitmapService ---------------------------
(***************************************************************************)
(* What newMarkBits (memory_and_heap/mheap.go) promises its callers, with  *)
(* no arenas lists, lock or free index: every call gets, in one step,      *)
(* bytes that no other call has, 8-byte aligned and inside one arena; the  *)
(* only thing that can stop the program is the operating system refusing   *)
(* memory.                                                                 *)
(***************************************************************************)
EXTENDS Integers

CONSTANTS Threads, Arenas, BitsLen, Sizes

VARIABLES
  serving,  \* bytes a thread has asked for and not been given yet, or 0
  granted,  \* the bitmaps given out
  failed    \* why the program stopped, or "none"

vars == <<serving, granted, failed>>

Disjoint(x, y) == x.arena # y.arena \/ x.end <= y.start \/ y.end <= x.start

Init ==
  /\ serving = [t \in Threads |-> 0]
  /\ granted = {}
  /\ failed = "none"

Ask(t) ==
  /\ serving[t] = 0
  /\ \E n \in Sizes : serving' = [serving EXCEPT ![t] = n]
  /\ UNCHANGED <<granted, failed>>

\* A bitmap of the size asked for that overlaps nothing granted before.
Grants(t) ==
  {[arena |-> a, start |-> s, end |-> s + serving[t]] :
     a \in Arenas, s \in {i \in 0 .. BitsLen - serving[t] : i % 8 = 0}}

Grant(t) ==
  /\ serving[t] # 0
  /\ \E m \in Grants(t) :
       /\ \A g \in granted : Disjoint(m, g)
       /\ granted' = granted \cup {m}
  /\ serving' = [serving EXCEPT ![t] = 0]
  /\ UNCHANGED failed

OutOfMemory ==
  /\ failed' = "cannot allocate memory"
  /\ UNCHANGED <<serving, granted>>

Next == failed = "none" /\ (OutOfMemory \/ \E t \in Threads : Ask(t) \/ Grant(t))

Spec == Init /\ [][Next]_vars
=============================================================================
