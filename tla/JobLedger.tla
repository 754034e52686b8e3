----------------------------- MODULE JobLedger -----------------------------
(***************************************************************************)
(* What the durable local-job queue promises its callers, without leases,  *)
(* tokens, clocks or processes: a job is started at most Budget times, it  *)
(* is started only when everything it requires is done and it is not done  *)
(* itself, and a job that is done stays done.  Module LocalJobs implements *)
(* this specification.                                                     *)
(***************************************************************************)
EXTENDS Naturals

CONSTANTS
  Job,        \* every job there can be
  Requires,   \* pairs <<job, job it depends on>>
  Budget      \* how often a job may be started

VARIABLES
  starts,     \* starts[j]: how often j was started
  done        \* the jobs whose result is recorded

ledgerVars == <<starts, done>>

LedgerInit ==
  /\ starts = [j \in Job |-> 0]
  /\ done = {}

Ready(j) == \A d \in Job : <<j, d>> \in Requires => d \in done

Start(j) ==
  /\ j \notin done
  /\ Ready(j)
  /\ starts[j] < Budget
  /\ starts' = [starts EXCEPT ![j] = @ + 1]
  /\ UNCHANGED done

Complete(j) ==
  /\ j \notin done
  /\ Ready(j)
  /\ starts[j] > 0
  /\ done' = done \cup {j}
  /\ UNCHANGED starts

LedgerNext == \E j \in Job : Start(j) \/ Complete(j)

LedgerSpec == LedgerInit /\ [][LedgerNext]_ledgerVars
=============================================================================
