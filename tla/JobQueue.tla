------------------------------- MODULE JobQueue -------------------------------
(***************************************************************************)
(* What the job table promises its workers: an atomic queue.  A job is     *)
(* handed out only while it is pending, handing it out removes it, and a   *)
(* worker holds one job at a time.  Operators and finishing workers may    *)
(* take a pending job back out.                                            *)
(***************************************************************************)
CONSTANTS Jobs, Workers, NoJob

VARIABLES pending,   \* jobs waiting for a worker
          holding    \* holding[w]: the job worker w is on

queueVars == <<pending, holding>>

Init == /\ pending = {}
        /\ holding = [w \in Workers |-> NoJob]

Enqueue(j) == /\ pending' = pending \cup {j}
              /\ UNCHANGED holding

Withdraw(j) == /\ pending' = pending \ {j}
               /\ UNCHANGED holding

Take(w, j) == /\ holding[w] = NoJob
              /\ j \in pending
              /\ pending' = pending \ {j}
              /\ holding' = [holding EXCEPT ![w] = j]

\* The worker ends; its outcome may also overwrite a new enqueue of its job.
Release(w) == /\ holding[w] # NoJob
              /\ pending' \in {pending, pending \ {holding[w]}}
              /\ holding' = [holding EXCEPT ![w] = NoJob]

Next == \/ \E j \in Jobs : Enqueue(j) \/ Withdraw(j)
        \/ \E w \in Workers : Release(w) \/ \E j \in Jobs : Take(w, j)

Spec == Init /\ [][Next]_queueVars
=============================================================================
