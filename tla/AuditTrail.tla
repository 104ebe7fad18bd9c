----------------------------- MODULE AuditTrail -----------------------------
(***************************************************************************)
(* The audit trail: what was done is stamped at once and written later, by *)
(* a goroutine nobody waits for.                                           *)
(*                                                                         *)
(* This module has no behaviours of its own: a component that logs takes   *)
(* its actions into its own (Directory does).                              *)
(***************************************************************************)
EXTENDS Sequences

CONSTANT Entry  \* what can be logged, each once

VARIABLES
  stamped,  \* the entries in the order of their created_at
  row       \* how far the writing of each entry is

trail == <<stamped, row>>

\* Nothing logged; a goroutine started; a connection acquired; the outcome:
\* the row is in the table, the insert failed, the process ended before it.
RowState == {"none", "logged", "writing", "written", "failed", "lost"}

TrailInit ==
  /\ stamped = <<>>
  /\ row = [e \in Entry |-> "none"]

Pass(e, to) == row' = [row EXCEPT ![e] = to]

\* Log: the entry takes its time and its write is left to a goroutine.
Log(e) ==
  /\ stamped' = Append(stamped, e)
  /\ Pass(e, "logged")

\* Mutant: the table stamps the row when it is inserted.
AcquireStamping(e) ==
  /\ row[e] = "logged"
  /\ Pass(e, "writing")
  /\ stamped' = Append(SelectSeq(stamped, LAMBDA f : f # e), e)

\* The goroutine gets a connection for its insert.
Acquire(e) ==
  /\ row[e] = "logged"
  /\ Pass(e, "writing")
  /\ UNCHANGED stamped

Written(e) ==
  /\ row[e] = "writing"
  /\ Pass(e, "written")
  /\ UNCHANGED stamped

\* Mutant: a failed insert is tried again and again.
WriteRetried(e) ==
  /\ row[e] = "writing"
  /\ Pass(e, "logged")
  /\ UNCHANGED stamped

\* A failure of the database is logged and the entry forgotten.
WriteFails(e) ==
  /\ row[e] \in {"logged", "writing"}
  /\ Pass(e, "failed")
  /\ UNCHANGED stamped

Write(e) == Acquire(e) \/ Written(e) \/ WriteFails(e)

\* After a graceful shutdown the pool closes: it waits for the connections
\* in use, not for the goroutines that have none.
PoolCloses ==
  /\ row' = [e \in Entry |-> IF row[e] = "logged" THEN "lost" ELSE row[e]]
  /\ UNCHANGED stamped

\* The process dies: what PostgreSQL has not committed is lost.
Die ==
  /\ \E committed \in SUBSET {e \in Entry : row[e] = "writing"} :
       row' = [e \in Entry |->
         IF e \in committed THEN "written"
         ELSE IF row[e] \in {"logged", "writing"} THEN "lost" ELSE row[e]]
  /\ UNCHANGED stamped
=============================================================================
