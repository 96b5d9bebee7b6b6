----------------------------- MODULE ParallelFor -----------------------------
(***************************************************************************)
(* What run(n, f) of polyvoice-kernels/src/intra.rs promises its callers:  *)
(* f is executed for every index below n, once for each, in any order and  *)
(* by any thread, before run() returns and never afterwards.               *)
(***************************************************************************)
EXTENDS Naturals

CONSTANTS Callers, MaxN

VARIABLES
  phase,  \* "out" of run(), or "in" it
  want,   \* how many indices the call in progress asked for
  times   \* how often f has completed for each index

vars == <<phase, want, times>>

Never == [i \in 0..MaxN |-> 0]

Init ==
  /\ phase = [c \in Callers |-> "out"]
  /\ want = [c \in Callers |-> 0]
  /\ times = [c \in Callers |-> Never]

Begin(c) ==
  /\ phase[c] = "out"
  /\ phase' = [phase EXCEPT ![c] = "in"]
  /\ \E n \in 1..MaxN : want' = [want EXCEPT ![c] = n]
  /\ times' = [times EXCEPT ![c] = Never]

Execute(c) ==
  /\ phase[c] = "in"
  /\ \E i \in 0..(want[c] - 1) :
       times[c][i] = 0 /\ times' = [times EXCEPT ![c][i] = 1]
  /\ UNCHANGED <<phase, want>>

End(c) ==
  /\ phase[c] = "in"
  /\ \A i \in 0..(want[c] - 1) : times[c][i] = 1
  /\ phase' = [phase EXCEPT ![c] = "out"]
  /\ UNCHANGED <<want, times>>

Next == \E c \in Callers : Begin(c) \/ Execute(c) \/ End(c)

Spec == Init /\ [][Next]_vars
=============================================================================
