---------------------------- MODULE RunLifecycle ----------------------------
(***************************************************************************)
(* What the audit queue promises the people who look at it: the life of an *)
(* audit run as the rows of audit_runs show it (RunStatus, models/enums),  *)
(* with the single-flight rule of models/run.py.  Nothing is said of how   *)
(* requests race, of worker processes or of transactions; RunQueue does,   *)
(* and implements this module.                                             *)
(***************************************************************************)
EXTENDS Naturals

CONSTANTS
    Runs,       \* identities a run may have
    Domains     \* (account, domain) pairs, the unit of single-flight

VARIABLES
    status,     \* status[r]: "none" before the row exists, "gone" after its site is deleted
    dom         \* dom[r]: the domain run r audits

vars == <<status, dom>>

Statuses == {"none", "pending", "running", "complete", "failed", "gone"}
Active   == {"pending", "running"}
Final    == {"complete", "failed", "gone"}

Init == /\ status = [r \in Runs |-> "none"]
        /\ dom \in [Runs -> Domains]

Enqueue(r) == /\ status[r] = "none"
              /\ \A q \in Runs : dom[q] = dom[r] => status[q] \notin Active
              /\ status' = [status EXCEPT ![r] = "pending"]
              /\ UNCHANGED dom

Claim(r) == /\ status[r] = "pending"
            /\ status' = [status EXCEPT ![r] = "running"]
            /\ UNCHANGED dom

Complete(r) == /\ status[r] = "running"
               /\ status' = [status EXCEPT ![r] = "complete"]
               /\ UNCHANGED dom

\* One run fails, or a starting worker fails all it finds running.
Fail(R) == /\ \A r \in R : status[r] = "running"
           /\ status' = [r \in Runs |-> IF r \in R THEN "failed" ELSE status[r]]
           /\ UNCHANGED dom

\* The site is deleted, and its runs with it.
Drop(d) == /\ status' = [r \in Runs |-> IF dom[r] = d /\ status[r] # "none"
                                        THEN "gone" ELSE status[r]]
           /\ UNCHANGED dom

Next == \/ \E r \in Runs : Enqueue(r) \/ Claim(r) \/ Complete(r)
        \/ \E R \in SUBSET Runs : Fail(R)
        \/ \E d \in Domains : Drop(d)

Safety == Init /\ [][Next]_vars

Ended(r) == status[r] = "running" /\ status'[r] \in Final

\* A queued run is claimed and a claimed run comes to an end.
Progress == \A r \in Runs : /\ WF_vars(Claim(r))
                            /\ WF_vars(Next /\ Ended(r))
=============================================================================
