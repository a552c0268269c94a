---------------------------- MODULE AtomicAppend ----------------------------
(***************************************************************************)
(* What a distributed append promises its caller, whatever happens to its  *)
(* tasks: the operation becomes visible as a whole and at most once, with  *)
(* the files of exactly one attempt of every logical task that has rows,   *)
(* and the answer tells the truth about it.  "The coordinator commits the  *)
(* selected CommitMessages once" (DUCKDB_README.md); "a failed commit has  *)
(* an unknown outcome".                                                    *)
(***************************************************************************)
EXTENDS Integers

CONSTANTS
  Ops,          \* operations
  NonEmpty,     \* NonEmpty[o]: the logical tasks of o that have rows
  MaxAttempts   \* attempts of one logical task

VARIABLES
  visible,      \* files of each operation that a snapshot made visible
  answer        \* what the caller was told

vars == <<visible, answer>>

\* One attempt of every logical task with rows.
Selections(o) ==
  {{<<o, t, chosen[t]>> : t \in NonEmpty[o]} :
     chosen \in [NonEmpty[o] -> 1..MaxAttempts]}

Init ==
  /\ visible = [o \in Ops |-> {}]
  /\ answer = [o \in Ops |-> "none"]

\* The append becomes visible.  The caller is told, or only learns that the
\* outcome is unknown.
Append(o) ==
  /\ answer[o] = "none"
  /\ NonEmpty[o] # {}
  /\ \E selected \in Selections(o) :
       visible' = [visible EXCEPT ![o] = selected]
  /\ \E told \in {"ok", "unknown"} : answer' = [answer EXCEPT ![o] = told]

\* An input without rows succeeds without a snapshot.
AppendNothing(o) ==
  /\ answer[o] = "none"
  /\ NonEmpty[o] = {}
  /\ answer' = [answer EXCEPT ![o] = "ok"]
  /\ UNCHANGED visible

\* A known failure, or an outcome nobody knows: nothing is visible and
\* nothing will be.
Refuse(o) ==
  /\ answer[o] = "none"
  /\ \E told \in {"failed", "unknown"} : answer' = [answer EXCEPT ![o] = told]
  /\ UNCHANGED visible

\* The process dies: the operations that were not answered never will be, and
\* never become visible either.
Crash ==
  /\ \E lost \in SUBSET {o \in Ops : answer[o] = "none"} :
       answer' = [o \in Ops |-> IF o \in lost THEN "crashed" ELSE answer[o]]
  /\ UNCHANGED visible

Next ==
  \/ \E o \in Ops : Append(o) \/ AppendNothing(o) \/ Refuse(o)
  \/ Crash

Spec == Init /\ [][Next]_vars
=============================================================================
