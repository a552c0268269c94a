--------------------------- MODULE ConsistentScan ---------------------------
(***************************************************************************)
(* What a scan of a Paimon table promises, however it is executed: every   *)
(* matching row of one snapshot, once.  The snapshot is the one the query  *)
(* asks for (AT, or an option of ATTACH or paimon_scan), or else one that  *)
(* was the latest at some time between the binding of the scan and its     *)
(* answer.                                                                 *)
(***************************************************************************)
EXTENDS Integers

CONSTANTS
  Scans,   \* scans of the table
  Match,   \* Match[q]: the splits whose rows scan q is to return
  Pins     \* what a query may ask for: [kind, n]

VARIABLES
  latest,  \* the latest snapshot of the table, 0 for none
  asked,   \* what the query asks for
  since,   \* the latest snapshot when the scan was bound, -1 before
  answer   \* what the scan returned

vars == <<latest, asked, since, answer>>

NoPin == [kind |-> "latest", n |-> 0]

\* Snapshot s holds the splits 1..s.  A request for a snapshot id gets it, one
\* for a point in time the last snapshot up to then.
Serves(p, s, now) ==
  CASE p.kind = "latest" -> s = now
    [] p.kind = "id"     -> s = p.n /\ s <= now
    [] p.kind = "time"   -> s = IF p.n < now THEN p.n ELSE now

\* Every matching row of snapshot s once, and no other.
RowsOf(q, s) == [x \in Match[q] |-> IF x <= s THEN 1 ELSE 0]

Init ==
  /\ latest \in Nat
  /\ asked = [q \in Scans |-> NoPin]
  /\ since = [q \in Scans |-> -1]
  /\ answer = [q \in Scans |-> [st |-> "none", read |-> RowsOf(q, 0)]]

\* Another writer commits a snapshot.
Commit ==
  /\ latest' = latest + 1
  /\ UNCHANGED <<asked, since, answer>>

Open(q) ==
  /\ since[q] = -1
  /\ answer[q].st = "none"
  /\ since' = [since EXCEPT ![q] = latest]
  /\ \E p \in Pins : asked' = [asked EXCEPT ![q] = p]
  /\ UNCHANGED <<latest, answer>>

Return(q) ==
  /\ since[q] >= 0
  /\ answer[q].st = "none"
  /\ \E now \in since[q]..latest : \E s \in 0..now :
       /\ Serves(asked[q], s, now)
       /\ answer' = [answer EXCEPT ![q] = [st |-> "ok", read |-> RowsOf(q, s)]]
  /\ UNCHANGED <<latest, asked, since>>

Fail(q) ==
  /\ answer[q].st = "none"
  /\ answer' = [answer EXCEPT ![q].st = "failed"]
  /\ UNCHANGED <<latest, asked, since>>

Next == Commit \/ \E q \in Scans : Open(q) \/ Return(q) \/ Fail(q)

Spec == Init /\ [][Next]_vars
=============================================================================
