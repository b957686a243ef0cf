-------------------------- MODULE SerialTransfers --------------------------
(***************************************************************************)
(* What the transfer queue promises: jobs are numbered in the order they   *)
(* are submitted; one runs at a time, the others wait for their turn in    *)
(* that order; the queue is never idle while a job waits; a waiting job    *)
(* can be withdrawn; and what is over stays over.                          *)
(***************************************************************************)
EXTENDS Naturals

CONSTANT MaxJobs

VARIABLE status

Jobs == 1..MaxJobs

In(s) == {job \in Jobs : status[job] = s}

First(jobs) == {job \in jobs : \A other \in jobs : job <= other}

Init == status = [job \in Jobs |-> "absent"]

Submit ==
  \E job \in First(In("absent")) :
    status' = [status EXCEPT ![job] = IF In("running") = {} THEN "running" ELSE "waiting"]

Withdraw(jobs) ==
  /\ In("running") # {}
  /\ status' = [job \in Jobs |-> IF job \in jobs THEN "over" ELSE status[job]]

(* The running job ends and the next one in line, if any, takes its place. *)
Finish(job) ==
  status' = [other \in Jobs |-> IF other = job THEN "over"
                                ELSE IF other \in First(In("waiting")) THEN "running"
                                ELSE status[other]]

Next ==
  \/ Submit
  \/ \E jobs \in SUBSET In("waiting") : Withdraw(jobs)
  \/ \E job \in In("running") : Finish(job)

Spec == Init /\ [][Next]_status

(* Whatever is submitted is over one day; of finitely many jobs, all are then. *)
LiveSpec ==
  Spec /\ (In("waiting") \cup In("running") # {} ~> In("waiting") \cup In("running") = {})

=============================================================================
