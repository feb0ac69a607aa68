------------------------------ MODULE Semaphore ------------------------------
(***************************************************************************)
(* The binary, recursive semaphores of the kernel (bertos/kern/sem.c), as  *)
(* operators on the record of one semaphore: who owns it, how often, and   *)
(* who waits for it, first come first served.                              *)
(***************************************************************************)
EXTENDS Naturals, Sequences

CONSTANT None      \* no process
CONSTANT Process   \* who may own or wait for a semaphore

SemType == [owner : Process \union {None}, nest : Nat, queue : Seq(Process)]

Free == [owner |-> None, nest |-> 0, queue |-> <<>>]

\* sem_obtain(): whether p goes on at once, the semaphore after the call, and
\* the ASSERT that nobody waits for a semaphore that is taken at once.
Available(s, p) == s.owner \in {None, p}

Obtained(s, p) ==
  IF Available(s, p) THEN [s EXCEPT !.owner = p, !.nest = @ + 1]
                     ELSE [s EXCEPT !.queue = Append(@, p)]

ObtainAsserts(s, p) == Available(s, p) => s.queue = <<>>

\* sem_release(): the first in the queue becomes the owner ...
FreedOnce(s) == Free                                \* mutant: nobody is handed the semaphore
Handover(s) == s.nest = 1 /\ s.queue # <<>>

Released(s) ==
  CASE s.nest # 1 -> [s EXCEPT !.nest = @ - 1]
    [] Handover(s) -> [owner |-> Head(s.queue), nest |-> 1, queue |-> Tail(s.queue)]
    [] OTHER -> Free

\* ... and proc_wakeup() gives it the CPU at once.
RunsAfter(s, p) == IF Handover(s) THEN Head(s.queue) ELSE p
=============================================================================
