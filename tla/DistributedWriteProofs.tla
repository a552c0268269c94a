----------------------- MODULE DistributedWriteProofs -----------------------
(***************************************************************************)
(* Theorems about DistributedWrite, for every set of operations, tasks and *)
(* table definitions and for all bounds, and at the end about              *)
(* TargetBaseline, which justifies its atomic LoadTargetState.             *)
(***************************************************************************)
EXTENDS DistributedWrite, TargetBaseline, SumTheorems

-----------------------------------------------------------------------------
(***************************************************************************)
(* Type correctness.                                                       *)
(***************************************************************************)

\* The lists the runtime passes are finite sequences of results.
LEMMA ResultListIsSeq ==
  ASSUME NEW res \in ResultLists
  PROVE  /\ res \in Seq(Result)
         /\ DOMAIN res = 1..Len(res)
         /\ Len(res) \in Nat
BY BoundsAssumption DEF ResultLists

\* An abort only takes files away.
LEMMA AbortShrinksFiles ==
  ASSUME NEW msgs, BestEffortAbortMessages(msgs)
  PROVE  /\ files' \subseteq files
         /\ files \ msgs \subseteq files'
BY BoundsAssumption DEF BestEffortAbortMessages

\* The initial values have their types.
LEMMA TypeInit == Init => TypeOK
<1> SUFFICES ASSUME Init PROVE TypeOK
    OBVIOUS
<1>1. tbl \in Table
      BY DEF Init, Table
<1>2. 0 \in 0..MaxRowCount
      BY BoundsAssumption
<1>3. CtasDef \in Defs
      BY DefsAssumption
<1> QED
    BY <1>1, <1>2, <1>3
    DEF Init, TypeOK, Target, PcValues, AttemptStates

\* Every step keeps the types.
LEMMA TypeNext == TypeOK /\ [Next]_vars => TypeOK'
<1> SUFFICES ASSUME TypeOK, [Next]_vars PROVE TypeOK'
    OBVIOUS
<1> USE DEF TypeOK
<1>1. CASE UNCHANGED vars
      BY <1>1 DEF vars
<1>2. ASSUME NEW o \in Ops, InitializeDistributedWrite(o) PROVE TypeOK'
      BY <1>2, DefsAssumption
      DEF InitializeDistributedWrite, LoadTargetState, store, Target, Table,
          PcValues, Answered
<1>3. ASSUME NEW o \in Ops, ValidateDistributedWrite(o) PROVE TypeOK'
      BY <1>3 DEF ValidateDistributedWrite, ValidateOrThrow, ValidateTargetBaseline,
                  LoadTargetState, store, PcValues,
                  Answered
<1>4. ASSUME NEW o \in Ops, PrepareInsert(o) PROVE TypeOK'
      BY <1>4 DEF PrepareInsert, ValidateOrThrow, ValidateTargetBaseline,
                  LoadTargetState, store, PcValues, Answered
<1>5. ASSUME NEW o \in Ops, PrepareCtasAbsent(o) PROVE TypeOK'
      BY <1>5 DEF PrepareCtasAbsent, store, PcValues, InCall, Answered
<1>6. ASSUME NEW o \in Ops, PrepareCtasCreate(o) PROVE TypeOK'
  <2>1. NewTable(CtasDef) \in Table
        BY DefsAssumption, CtasDef \in Defs DEF NewTable, Table
  <2>3. tbl' \in Table
        BY <1>6, <2>1 DEF PrepareCtasCreate
  <2>2. pc' \in [Ops -> PcValues]
        BY <1>6 DEF PrepareCtasCreate, PcValues, InCall, Answered
  <2> QED BY <1>6, <2>2, <2>3 DEF PrepareCtasCreate
<1>7. ASSUME NEW o \in Ops, PrepareCtasCapture(o) PROVE TypeOK'
  <2>1. LoadTargetState \in Target
        BY DEF LoadTargetState, Target, Table
  <2>2. frozen' \in [Ops -> Target]
        BY <1>7, <2>1 DEF PrepareCtasCapture
  <2>3. pc' \in [Ops -> PcValues]
        BY <1>7 DEF PrepareCtasCapture, PcValues, Answered
  <2> QED BY <1>7, <2>2, <2>3 DEF PrepareCtasCapture, store
<1>8. ASSUME NEW o \in Ops, NEW res \in ResultLists,
             FinalizeDistributedWrite(o, res)
      PROVE  TypeOK'
  <2>1. DecodedMessages(o, res) \in SUBSET Attempt
        BY DEF DecodedMessages, Writing
  <2>2. decoded' \in [Ops -> SUBSET Attempt]
        BY <1>8, <2>1 DEF FinalizeDistributedWrite
  <2>3. CASE DecodeCommitResults(o, res)
    <3>1. RowsUpTo(res, Len(res)) \in 0..MaxRowCount
          BY <2>3, ResultListIsSeq DEF DecodeCommitResults, OverflowAt
    <3>2. rows' \in [Ops -> 0..MaxRowCount]
          BY <1>8, <2>3, <3>1 DEF FinalizeDistributedWrite
    <3> QED
        BY <1>8, <2>2, <2>3, <3>2
        DEF FinalizeDistributedWrite, PcValues, InCall
  <2>4. CASE ~DecodeCommitResults(o, res)
    <3>1. files' \subseteq Attempt
          BY <1>8, <2>4, AbortShrinksFiles DEF FinalizeDistributedWrite
    <3> QED
        BY <1>8, <2>2, <2>4, <3>1
        DEF FinalizeDistributedWrite, PcValues, Answered
  <2> QED BY <2>3, <2>4
<1>9. ASSUME NEW o \in Ops, FinalizeThrowsEarly(o) PROVE TypeOK'
      BY <1>9 DEF FinalizeThrowsEarly, store, PcValues, Answered
<1>10. ASSUME NEW o \in Ops, FinalizeLock(o) PROVE TypeOK'
      BY <1>10 DEF FinalizeLock, store, PcValues, InCall
<1>11. ASSUME NEW o \in Ops, FinalizeEmpty(o) PROVE TypeOK'
      BY <1>11 DEF FinalizeEmpty, store, PcValues, Answered
<1>12. ASSUME NEW o \in Ops, FinalizeValidate(o) PROVE TypeOK'
      BY <1>12 DEF FinalizeValidate, store, PcValues, InCall
<1>13. ASSUME NEW o \in Ops, FinalizeReject(o) PROVE TypeOK'
      BY <1>13 DEF FinalizeReject, store, PcValues, InCall
<1>14. ASSUME NEW o \in Ops, FinalizeAbort(o) PROVE TypeOK'
      BY <1>14, AbortShrinksFiles DEF FinalizeAbort, PcValues, Answered
<1>15. ASSUME NEW o \in Ops, FilterAndCommit(o) PROVE TypeOK'
      BY <1>15 DEF FilterAndCommit, AppendSnapshot, Snapshot, Table, PcValues,
                   Answered
<1>16. ASSUME NEW o \in Ops, CommitWithoutEffect(o) PROVE TypeOK'
      BY <1>16 DEF CommitWithoutEffect, store, PcValues, Answered
<1>17. ASSUME NEW o \in Ops, NEW res \in ResultLists,
              AbortDistributedWrite(o, res)
       PROVE  TypeOK'
      BY <1>17, AbortShrinksFiles DEF AbortDistributedWrite, PcValues, Answered
<1>18. ASSUME NEW x \in Attempt, StartAttempt(x) PROVE TypeOK'
      BY <1>18 DEF StartAttempt, store, coord, AttemptStates
<1>19. ASSUME NEW x \in Attempt, WorkerCombine(x) PROVE TypeOK'
      BY <1>19 DEF WorkerCombine, coord, AttemptStates
<1>20. ASSUME NEW x \in Attempt, WorkerFinalize(x) PROVE TypeOK'
      BY <1>20 DEF WorkerFinalize, store, coord, AttemptStates
<1>21. ASSUME NEW x \in Attempt, WorkerFailEarly(x) PROVE TypeOK'
      BY <1>21 DEF WorkerFailEarly, coord, AttemptStates
<1>22. ASSUME NEW x \in Attempt, WorkerFailLate(x) PROVE TypeOK'
      BY <1>22, AbortShrinksFiles DEF WorkerFailLate, coord, AttemptStates
<1>23. CASE CoordinatorCrash
      BY <1>23 DEF CoordinatorCrash, store, PcValues
<1>24. ASSUME NEW d \in Defs, CreateTable(d) PROVE TypeOK'
      BY <1>24 DEF CreateTable, NewTable, coord, Table
<1>25. CASE DropTable
      BY <1>25 DEF DropTable, coord, Table
<1>26. CASE NativeCommit
      BY <1>26 DEF NativeCommit, AppendSnapshot, coord, Table, Snapshot
<1>27. CASE ForeignCommit
      BY <1>27 DEF ForeignCommit, AppendSnapshot, coord, Table, Snapshot
<1> QED
    BY <1>1, <1>2, <1>3, <1>4, <1>5, <1>6, <1>7, <1>8, <1>9, <1>10, <1>11,
       <1>12, <1>13, <1>14, <1>15, <1>16, <1>17, <1>18, <1>19, <1>20, <1>21,
       <1>22, <1>23, <1>24, <1>25, <1>26, <1>27
    DEF Next, Coordinator, Worker, Others

\* Every variable keeps its type: in particular a row count that finalization
\* returns fits an idx_t, and operations, snapshots and files only ever refer
\* to known operations and attempts.
THEOREM TypeCorrect == Spec => []TypeOK
BY TypeInit, TypeNext, PTL DEF Spec

-----------------------------------------------------------------------------
(***************************************************************************)
(* The safety invariant.                                                   *)
(***************************************************************************)

\* An attempt names its operation and its logical task.
LEMMA AttemptParts ==
  ASSUME NEW x \in Attempt
  PROVE  Owner(x) \in Ops /\ TaskOf(x) \in Tasks
BY DEF Attempt, Owner, TaskOf

\* Decoding yields only messages that attempts of the operation itself wrote
\* and published.
LEMMA DecodedOwn ==
  ASSUME NEW o \in Ops, NEW res \in ResultLists,
         NEW x \in DecodedMessages(o, res)
  PROVE  x \in Writing /\ Owner(x) = o /\ att[x] = "published"
<1>1. PICK i \in DOMAIN res : /\ res[i].id = x
                             /\ \A j \in 1..i : ~RejectedAt(o, res, j)
      BY DEF DecodedMessages
<1>2. i \in 1..i
      BY ResultListIsSeq
<1>3. Owner(x) = o
      BY <1>1, <1>2 DEF RejectedAt
<1>4. res[i] \in Result
      BY ResultListIsSeq
<1>5. QED
      BY <1>1, <1>3, <1>4 DEF DecodedMessages, Result

\* The mutex and the started flag follow the positions of the operations.
LEMMA ControlInvNext ==
  ASSUME SafetyInv, TypeOK', [Next]_vars
  PROVE  ControlInv'
<1> USE OpsAssumption DEF SafetyInv, TypeOK, ControlInv, Finalizing
<1>1. CASE UNCHANGED vars
      BY <1>1 DEF vars
<1>2. ASSUME NEW o \in Ops, InitializeDistributedWrite(o) PROVE ControlInv'
      BY <1>2 DEF InitializeDistributedWrite, LoadTargetState, store
<1>3. ASSUME NEW o \in Ops, ValidateDistributedWrite(o) PROVE ControlInv'
      BY <1>3 DEF ValidateDistributedWrite, ValidateOrThrow,
          ValidateTargetBaseline, LoadTargetState, store
<1>4. ASSUME NEW o \in Ops, PrepareInsert(o) PROVE ControlInv'
      BY <1>4 DEF PrepareInsert, ValidateOrThrow, ValidateTargetBaseline,
          LoadTargetState, store
<1>5. ASSUME NEW o \in Ops, PrepareCtasAbsent(o) PROVE ControlInv'
      BY <1>5 DEF PrepareCtasAbsent, store
<1>6. ASSUME NEW o \in Ops, PrepareCtasCreate(o) PROVE ControlInv'
      BY <1>6 DEF PrepareCtasCreate, NewTable
<1>7. ASSUME NEW o \in Ops, PrepareCtasCapture(o) PROVE ControlInv'
      BY <1>7 DEF PrepareCtasCapture, CapturePreparedCTASTarget,
          LoadTargetState, store
<1>8. ASSUME NEW o \in Ops, NEW res \in ResultLists,
             FinalizeDistributedWrite(o, res)
      PROVE  ControlInv'
      BY <1>8 DEF FinalizeDistributedWrite
<1>9. ASSUME NEW o \in Ops, FinalizeThrowsEarly(o) PROVE ControlInv'
      BY <1>9 DEF FinalizeThrowsEarly, store
<1>10. ASSUME NEW o \in Ops, FinalizeLock(o) PROVE ControlInv'
      BY <1>10 DEF FinalizeLock, store
<1>11. ASSUME NEW o \in Ops, FinalizeEmpty(o) PROVE ControlInv'
      BY <1>11 DEF FinalizeEmpty, store
<1>12. ASSUME NEW o \in Ops, FinalizeValidate(o) PROVE ControlInv'
      BY <1>12 DEF FinalizeValidate, ValidateTargetBaseline, LoadTargetState,
          store
<1>13. ASSUME NEW o \in Ops, FinalizeReject(o) PROVE ControlInv'
      BY <1>13 DEF FinalizeReject, store
<1>14. ASSUME NEW o \in Ops, FinalizeAbort(o) PROVE ControlInv'
      BY <1>14 DEF FinalizeAbort
<1>15. ASSUME NEW o \in Ops, FilterAndCommit(o) PROVE ControlInv'
      BY <1>15 DEF FilterAndCommit, AppendSnapshot
<1>16. ASSUME NEW o \in Ops, CommitWithoutEffect(o) PROVE ControlInv'
      BY <1>16 DEF CommitWithoutEffect, store
<1>17. ASSUME NEW o \in Ops, NEW res \in ResultLists,
             AbortDistributedWrite(o, res)
      PROVE  ControlInv'
      BY <1>17 DEF AbortDistributedWrite
<1>18. ASSUME NEW x \in Attempt, StartAttempt(x) PROVE ControlInv'
      BY <1>18 DEF StartAttempt, store, coord
<1>19. ASSUME NEW x \in Attempt, WorkerCombine(x) PROVE ControlInv'
      BY <1>19 DEF WorkerCombine, coord
<1>20. ASSUME NEW x \in Attempt, WorkerFinalize(x) PROVE ControlInv'
      BY <1>20 DEF WorkerFinalize, store, coord
<1>21. ASSUME NEW x \in Attempt, WorkerFailEarly(x) PROVE ControlInv'
      BY <1>21 DEF WorkerFailEarly, coord
<1>22. ASSUME NEW x \in Attempt, WorkerFailLate(x) PROVE ControlInv'
      BY <1>22 DEF WorkerFailLate, coord
<1>23. CASE CoordinatorCrash
      BY <1>23 DEF CoordinatorCrash, store, Answered
<1>24. ASSUME NEW d \in Defs, CreateTable(d) PROVE ControlInv'
      BY <1>24 DEF CreateTable, NewTable, coord
<1>25. CASE DropTable
      BY <1>25 DEF DropTable, coord
<1>26. CASE NativeCommit
      BY <1>26 DEF NativeCommit, AppendSnapshot, coord
<1>27. CASE ForeignCommit
      BY <1>27 DEF ForeignCommit, AppendSnapshot, coord
<1> QED BY <1>1, <1>2, <1>3, <1>4, <1>5, <1>6, <1>7, <1>8, <1>9, <1>10, <1>11,
      <1>12, <1>13, <1>14, <1>15, <1>16, <1>17, <1>18, <1>19, <1>20, <1>21,
      <1>22, <1>23, <1>24, <1>25, <1>26, <1>27 DEF Next, Coordinator, Worker,
      Others

\* What an operation decoded stays its own, published messages.
LEMMA MessageInvNext ==
  ASSUME SafetyInv, TypeOK', [Next]_vars
  PROVE  MessageInv'
<1> USE AttemptParts DEF SafetyInv, TypeOK, MessageInv, Prepared, Finalizing
<1>1. CASE UNCHANGED vars
      BY <1>1 DEF vars
<1>2. ASSUME NEW o \in Ops, InitializeDistributedWrite(o) PROVE MessageInv'
      BY <1>2 DEF InitializeDistributedWrite, LoadTargetState, store
<1>3. ASSUME NEW o \in Ops, ValidateDistributedWrite(o) PROVE MessageInv'
      BY <1>3 DEF ValidateDistributedWrite, ValidateOrThrow,
          ValidateTargetBaseline, LoadTargetState, store
<1>4. ASSUME NEW o \in Ops, PrepareInsert(o) PROVE MessageInv'
      BY <1>4 DEF PrepareInsert, ValidateOrThrow, ValidateTargetBaseline,
          LoadTargetState, store
<1>5. ASSUME NEW o \in Ops, PrepareCtasAbsent(o) PROVE MessageInv'
      BY <1>5 DEF PrepareCtasAbsent, store
<1>6. ASSUME NEW o \in Ops, PrepareCtasCreate(o) PROVE MessageInv'
      BY <1>6 DEF PrepareCtasCreate, NewTable
<1>7. ASSUME NEW o \in Ops, PrepareCtasCapture(o) PROVE MessageInv'
      BY <1>7 DEF PrepareCtasCapture, CapturePreparedCTASTarget,
          LoadTargetState, store
<1>8. ASSUME NEW o \in Ops, NEW res \in ResultLists,
             FinalizeDistributedWrite(o, res)
      PROVE  MessageInv'
  <2>1. decoded' = [decoded EXCEPT ![o] = DecodedMessages(o, res)]
        BY <1>8 DEF FinalizeDistributedWrite
  <2>2. att' = att /\ pc[o] = "prepared"
        BY <1>8 DEF FinalizeDistributedWrite
  <2>3. ASSUME NEW oo \in Ops, NEW x \in decoded'[oo]
        PROVE  x \in Writing /\ Owner(x) = oo /\ att'[x] = "published"
        BY <2>1, <2>2, <2>3, DecodedOwn
  <2>4. pc' = [pc EXCEPT ![o] = "decoded"] \/ pc' = [pc EXCEPT ![o] = "failed"]
        BY <1>8 DEF FinalizeDistributedWrite
  <2>5. ASSUME NEW x \in Attempt, att'[x] # "idle"
        PROVE  pc'[Owner(x)] \in Prepared
        BY <2>2, <2>4, <2>5
  <2> QED BY <2>3, <2>5
<1>9. ASSUME NEW o \in Ops, FinalizeThrowsEarly(o) PROVE MessageInv'
      BY <1>9 DEF FinalizeThrowsEarly, store
<1>10. ASSUME NEW o \in Ops, FinalizeLock(o) PROVE MessageInv'
      BY <1>10 DEF FinalizeLock, store
<1>11. ASSUME NEW o \in Ops, FinalizeEmpty(o) PROVE MessageInv'
      BY <1>11 DEF FinalizeEmpty, store
<1>12. ASSUME NEW o \in Ops, FinalizeValidate(o) PROVE MessageInv'
      BY <1>12 DEF FinalizeValidate, ValidateTargetBaseline, LoadTargetState,
          store
<1>13. ASSUME NEW o \in Ops, FinalizeReject(o) PROVE MessageInv'
      BY <1>13 DEF FinalizeReject, store
<1>14. ASSUME NEW o \in Ops, FinalizeAbort(o) PROVE MessageInv'
      BY <1>14 DEF FinalizeAbort
<1>15. ASSUME NEW o \in Ops, FilterAndCommit(o) PROVE MessageInv'
      BY <1>15 DEF FilterAndCommit, AppendSnapshot
<1>16. ASSUME NEW o \in Ops, CommitWithoutEffect(o) PROVE MessageInv'
      BY <1>16 DEF CommitWithoutEffect, store
<1>17. ASSUME NEW o \in Ops, NEW res \in ResultLists,
             AbortDistributedWrite(o, res)
      PROVE  MessageInv'
      BY <1>17 DEF AbortDistributedWrite
<1>18. ASSUME NEW x \in Attempt, StartAttempt(x) PROVE MessageInv'
      BY <1>18 DEF StartAttempt, store, coord
<1>19. ASSUME NEW x \in Attempt, WorkerCombine(x) PROVE MessageInv'
      BY <1>19 DEF WorkerCombine, coord
<1>20. ASSUME NEW x \in Attempt, WorkerFinalize(x) PROVE MessageInv'
      BY <1>20 DEF WorkerFinalize, store, coord
<1>21. ASSUME NEW x \in Attempt, WorkerFailEarly(x) PROVE MessageInv'
      BY <1>21 DEF WorkerFailEarly, coord
<1>22. ASSUME NEW x \in Attempt, WorkerFailLate(x) PROVE MessageInv'
      BY <1>22 DEF WorkerFailLate, coord
<1>23. CASE CoordinatorCrash
      BY <1>23 DEF CoordinatorCrash, store, Answered
<1>24. ASSUME NEW d \in Defs, CreateTable(d) PROVE MessageInv'
      BY <1>24 DEF CreateTable, NewTable, coord
<1>25. CASE DropTable
      BY <1>25 DEF DropTable, coord
<1>26. CASE NativeCommit
      BY <1>26 DEF NativeCommit, AppendSnapshot, coord
<1>27. CASE ForeignCommit
      BY <1>27 DEF ForeignCommit, AppendSnapshot, coord
<1> QED BY <1>1, <1>2, <1>3, <1>4, <1>5, <1>6, <1>7, <1>8, <1>9, <1>10, <1>11,
      <1>12, <1>13, <1>14, <1>15, <1>16, <1>17, <1>18, <1>19, <1>20, <1>21,
      <1>22, <1>23, <1>24, <1>25, <1>26, <1>27 DEF Next, Coordinator, Worker,
      Others

\* No step removes a file that a commit may still refer to.
LEMMA FileInvNext ==
  ASSUME SafetyInv, TypeOK', [Next]_vars
  PROVE  FileInv'
<1> USE AttemptParts DEF SafetyInv, TypeOK, FileInv, Committable, Writing
<1>1. CASE UNCHANGED vars
      BY <1>1 DEF vars
<1>2. ASSUME NEW o \in Ops, InitializeDistributedWrite(o) PROVE FileInv'
      BY <1>2 DEF InitializeDistributedWrite, LoadTargetState, store,
          MessageInv, Prepared, Finalizing
<1>3. ASSUME NEW o \in Ops, ValidateDistributedWrite(o) PROVE FileInv'
      BY <1>3 DEF ValidateDistributedWrite, ValidateOrThrow,
          ValidateTargetBaseline, LoadTargetState, store
<1>4. ASSUME NEW o \in Ops, PrepareInsert(o) PROVE FileInv'
      BY <1>4 DEF PrepareInsert, ValidateOrThrow, ValidateTargetBaseline,
          LoadTargetState, store, MessageInv, Prepared, Finalizing
<1>5. ASSUME NEW o \in Ops, PrepareCtasAbsent(o) PROVE FileInv'
      BY <1>5 DEF PrepareCtasAbsent, store
<1>6. ASSUME NEW o \in Ops, PrepareCtasCreate(o) PROVE FileInv'
      BY <1>6 DEF PrepareCtasCreate, NewTable, LogInv, Table, Target
<1>7. ASSUME NEW o \in Ops, PrepareCtasCapture(o) PROVE FileInv'
      BY <1>7 DEF PrepareCtasCapture, CapturePreparedCTASTarget,
          LoadTargetState, store, MessageInv, Prepared, Finalizing
<1>8. ASSUME NEW o \in Ops, NEW res \in ResultLists,
             FinalizeDistributedWrite(o, res)
      PROVE  FileInv'
      BY <1>8, AbortShrinksFiles, DecodedOwn DEF FinalizeDistributedWrite
<1>9. ASSUME NEW o \in Ops, FinalizeThrowsEarly(o) PROVE FileInv'
      BY <1>9 DEF FinalizeThrowsEarly, store
<1>10. ASSUME NEW o \in Ops, FinalizeLock(o) PROVE FileInv'
      BY <1>10 DEF FinalizeLock, store
<1>11. ASSUME NEW o \in Ops, FinalizeEmpty(o) PROVE FileInv'
      BY <1>11 DEF FinalizeEmpty, store
<1>12. ASSUME NEW o \in Ops, FinalizeValidate(o) PROVE FileInv'
      BY <1>12 DEF FinalizeValidate, ValidateTargetBaseline, LoadTargetState,
          store
<1>13. ASSUME NEW o \in Ops, FinalizeReject(o) PROVE FileInv'
      BY <1>13 DEF FinalizeReject, store
<1>14. ASSUME NEW o \in Ops, FinalizeAbort(o) PROVE FileInv'
      BY <1>14, AbortShrinksFiles DEF FinalizeAbort, MessageInv
<1>15. ASSUME NEW o \in Ops, FilterAndCommit(o) PROVE FileInv'
      BY <1>15 DEF FilterAndCommit, AppendSnapshot, Table
<1>16. ASSUME NEW o \in Ops, CommitWithoutEffect(o) PROVE FileInv'
      BY <1>16 DEF CommitWithoutEffect, store
<1>17. ASSUME NEW o \in Ops, NEW res \in ResultLists,
             AbortDistributedWrite(o, res)
      PROVE  FileInv'
      BY <1>17, AbortShrinksFiles, DecodedOwn DEF AbortDistributedWrite,
          ControlInv, Finalizing
<1>18. ASSUME NEW x \in Attempt, StartAttempt(x) PROVE FileInv'
      BY <1>18 DEF StartAttempt, store, coord
<1>19. ASSUME NEW x \in Attempt, WorkerCombine(x) PROVE FileInv'
      BY <1>19 DEF WorkerCombine, coord
<1>20. ASSUME NEW x \in Attempt, WorkerFinalize(x) PROVE FileInv'
      BY <1>20 DEF WorkerFinalize, store, coord
<1>21. ASSUME NEW x \in Attempt, WorkerFailEarly(x) PROVE FileInv'
      BY <1>21 DEF WorkerFailEarly, coord
<1>22. ASSUME NEW x \in Attempt, WorkerFailLate(x) PROVE FileInv'
      BY <1>22, AbortShrinksFiles DEF WorkerFailLate, coord
<1>23. CASE CoordinatorCrash
      BY <1>23 DEF CoordinatorCrash, store, Answered
<1>24. ASSUME NEW d \in Defs, CreateTable(d) PROVE FileInv'
      BY <1>24 DEF CreateTable, NewTable, coord, LogInv, Table, Target
<1>25. CASE DropTable
      BY <1>25 DEF DropTable, coord
<1>26. CASE NativeCommit
      BY <1>26 DEF NativeCommit, AppendSnapshot, coord, Table
<1>27. CASE ForeignCommit
      BY <1>27 DEF ForeignCommit, AppendSnapshot, coord, Table
<1> QED BY <1>1, <1>2, <1>3, <1>4, <1>5, <1>6, <1>7, <1>8, <1>9, <1>10, <1>11,
      <1>12, <1>13, <1>14, <1>15, <1>16, <1>17, <1>18, <1>19, <1>20, <1>21,
      <1>22, <1>23, <1>24, <1>25, <1>26, <1>27 DEF Next, Coordinator, Worker,
      Others

\* Every snapshot is of an earlier or the current table, and of an operation
\* whose commit landed.
LEMMA LogInvNext ==
  ASSUME SafetyInv, TypeOK', [Next]_vars
  PROVE  LogInv'
<1> USE OpsAssumption DEF SafetyInv, TypeOK, LogInv, Table, Target, Snapshot
<1>1. CASE UNCHANGED vars
      BY <1>1 DEF vars
<1>2. ASSUME NEW o \in Ops, InitializeDistributedWrite(o) PROVE LogInv'
  <2>1. \A oo \in Ops : frozen'[oo].inc <= tbl'.inc
        BY <1>2 DEF InitializeDistributedWrite, LoadTargetState, store
  <2>2. ASSUME NEW c \in log
        PROVE  /\ c.inc <= tbl'.inc
               /\ tbl'.live /\ c.inc = tbl'.inc => c.id <= tbl'.snap
               /\ c.by \notin Ops => c.files = {}
               /\ c.by \in Ops => /\ pc'[c.by] \in {"ok", "unknown"}
                                  /\ c.files = decoded'[c.by]
    <3>1. tbl' = tbl /\ decoded' = decoded /\ c.by # o
          BY <1>2 DEF InitializeDistributedWrite, store
    <3>2. c.by \in Ops => pc'[c.by] = pc[c.by]
          BY <1>2, <3>1 DEF InitializeDistributedWrite
    <3> QED BY <3>1, <3>2
  <2>3. log' = log
        BY <1>2 DEF InitializeDistributedWrite, store
  <2> QED BY <2>1, <2>2, <2>3
<1>3. ASSUME NEW o \in Ops, ValidateDistributedWrite(o) PROVE LogInv'
      BY <1>3 DEF ValidateDistributedWrite, ValidateOrThrow,
          ValidateTargetBaseline, LoadTargetState, store
<1>4. ASSUME NEW o \in Ops, PrepareInsert(o) PROVE LogInv'
      BY <1>4 DEF PrepareInsert, ValidateOrThrow, ValidateTargetBaseline,
          LoadTargetState, store
<1>5. ASSUME NEW o \in Ops, PrepareCtasAbsent(o) PROVE LogInv'
      BY <1>5 DEF PrepareCtasAbsent, store
<1>6. ASSUME NEW o \in Ops, PrepareCtasCreate(o) PROVE LogInv'
  <2>1. /\ tbl' = tbl \/ tbl' = NewTable(CtasDef)
        /\ frozen' = frozen /\ log' = log /\ decoded' = decoded
        /\ pc[o] = "absent"
        /\ \A oo \in Ops : oo # o => pc'[oo] = pc[oo]
        BY <1>6 DEF PrepareCtasCreate
  <2>2. tbl' = tbl \/ tbl'.inc = tbl.inc + 1
        BY <2>1 DEF NewTable
  <2>3. \A oo \in Ops : frozen'[oo].inc <= tbl'.inc
        BY <2>1, <2>2
  <2>4. ASSUME NEW c \in log
        PROVE  /\ c.inc <= tbl'.inc
               /\ tbl'.live /\ c.inc = tbl'.inc => c.id <= tbl'.snap
               /\ c.by \notin Ops => c.files = {}
               /\ c.by \in Ops => /\ pc'[c.by] \in {"ok", "unknown"}
                                  /\ c.files = decoded'[c.by]
        BY <2>1, <2>2
  <2> QED BY <2>1, <2>3, <2>4
<1>7. ASSUME NEW o \in Ops, PrepareCtasCapture(o) PROVE LogInv'
  <2>1. /\ tbl' = tbl /\ log' = log /\ decoded' = decoded
        /\ pc[o] = "created"
        /\ \A oo \in Ops : oo # o => pc'[oo] = pc[oo]
        BY <1>7 DEF PrepareCtasCapture, store
  <2>2. frozen' = frozen \/ frozen' = [frozen EXCEPT ![o] = LoadTargetState]
        BY <1>7 DEF PrepareCtasCapture
  <2>3. \A oo \in Ops : frozen'[oo].inc <= tbl'.inc
        BY <2>1, <2>2 DEF LoadTargetState
  <2> QED BY <2>1, <2>3
<1>8. ASSUME NEW o \in Ops, NEW res \in ResultLists,
             FinalizeDistributedWrite(o, res)
      PROVE  LogInv'
  <2>1. /\ tbl' = tbl /\ log' = log /\ frozen' = frozen
        /\ pc[o] = "prepared"
        /\ \A oo \in Ops : oo # o => /\ pc'[oo] = pc[oo]
                                     /\ decoded'[oo] = decoded[oo]
        BY <1>8 DEF FinalizeDistributedWrite
  <2> QED BY <2>1
<1>9. ASSUME NEW o \in Ops, FinalizeThrowsEarly(o) PROVE LogInv'
      BY <1>9 DEF FinalizeThrowsEarly, store
<1>10. ASSUME NEW o \in Ops, FinalizeLock(o) PROVE LogInv'
      BY <1>10 DEF FinalizeLock, store
<1>11. ASSUME NEW o \in Ops, FinalizeEmpty(o) PROVE LogInv'
      BY <1>11 DEF FinalizeEmpty, store
<1>12. ASSUME NEW o \in Ops, FinalizeValidate(o) PROVE LogInv'
      BY <1>12 DEF FinalizeValidate, ValidateTargetBaseline, LoadTargetState,
          store
<1>13. ASSUME NEW o \in Ops, FinalizeReject(o) PROVE LogInv'
      BY <1>13 DEF FinalizeReject, store
<1>14. ASSUME NEW o \in Ops, FinalizeAbort(o) PROVE LogInv'
      BY <1>14 DEF FinalizeAbort
<1>15. ASSUME NEW o \in Ops, FilterAndCommit(o) PROVE LogInv'
      BY <1>15 DEF FilterAndCommit, AppendSnapshot, CommitInv
<1>16. ASSUME NEW o \in Ops, CommitWithoutEffect(o) PROVE LogInv'
      BY <1>16 DEF CommitWithoutEffect, store
<1>17. ASSUME NEW o \in Ops, NEW res \in ResultLists,
             AbortDistributedWrite(o, res)
      PROVE  LogInv'
      BY <1>17 DEF AbortDistributedWrite
<1>18. ASSUME NEW x \in Attempt, StartAttempt(x) PROVE LogInv'
      BY <1>18 DEF StartAttempt, store, coord
<1>19. ASSUME NEW x \in Attempt, WorkerCombine(x) PROVE LogInv'
      BY <1>19 DEF WorkerCombine, coord
<1>20. ASSUME NEW x \in Attempt, WorkerFinalize(x) PROVE LogInv'
      BY <1>20 DEF WorkerFinalize, store, coord
<1>21. ASSUME NEW x \in Attempt, WorkerFailEarly(x) PROVE LogInv'
      BY <1>21 DEF WorkerFailEarly, coord
<1>22. ASSUME NEW x \in Attempt, WorkerFailLate(x) PROVE LogInv'
      BY <1>22 DEF WorkerFailLate, coord
<1>23. CASE CoordinatorCrash
      BY <1>23 DEF CoordinatorCrash, store, Answered
<1>24. ASSUME NEW d \in Defs, CreateTable(d) PROVE LogInv'
      BY <1>24 DEF CreateTable, NewTable, coord
<1>25. CASE DropTable
      BY <1>25 DEF DropTable, coord
<1>26. CASE NativeCommit
      BY <1>26 DEF NativeCommit, AppendSnapshot, coord
<1>27. CASE ForeignCommit
      BY <1>27 DEF ForeignCommit, AppendSnapshot, coord
<1> QED BY <1>1, <1>2, <1>3, <1>4, <1>5, <1>6, <1>7, <1>8, <1>9, <1>10, <1>11,
      <1>12, <1>13, <1>14, <1>15, <1>16, <1>17, <1>18, <1>19, <1>20, <1>21,
      <1>22, <1>23, <1>24, <1>25, <1>26, <1>27 DEF Next, Coordinator, Worker,
      Others

\* While an operation commits, only other processes append to its table.
LEMMA CommitInvNext ==
  ASSUME SafetyInv, TypeOK', [Next]_vars
  PROVE  CommitInv'
<1> USE OpsAssumption DEF SafetyInv, TypeOK, CommitInv, Table, Target, Snapshot
<1>1. CASE UNCHANGED vars
      BY <1>1 DEF vars
<1>2. ASSUME NEW o \in Ops, InitializeDistributedWrite(o) PROVE CommitInv'
      BY <1>2 DEF InitializeDistributedWrite, LoadTargetState, store
<1>3. ASSUME NEW o \in Ops, ValidateDistributedWrite(o) PROVE CommitInv'
      BY <1>3 DEF ValidateDistributedWrite, ValidateOrThrow,
          ValidateTargetBaseline, LoadTargetState, store
<1>4. ASSUME NEW o \in Ops, PrepareInsert(o) PROVE CommitInv'
      BY <1>4 DEF PrepareInsert, ValidateOrThrow, ValidateTargetBaseline,
          LoadTargetState, store
<1>5. ASSUME NEW o \in Ops, PrepareCtasAbsent(o) PROVE CommitInv'
      BY <1>5 DEF PrepareCtasAbsent, store
<1>6. ASSUME NEW o \in Ops, PrepareCtasCreate(o) PROVE CommitInv'
      BY <1>6 DEF PrepareCtasCreate, NewTable, ControlInv
<1>7. ASSUME NEW o \in Ops, PrepareCtasCapture(o) PROVE CommitInv'
      BY <1>7 DEF PrepareCtasCapture, CapturePreparedCTASTarget,
          LoadTargetState, store
<1>8. ASSUME NEW o \in Ops, NEW res \in ResultLists,
             FinalizeDistributedWrite(o, res)
      PROVE  CommitInv'
      BY <1>8 DEF FinalizeDistributedWrite
<1>9. ASSUME NEW o \in Ops, FinalizeThrowsEarly(o) PROVE CommitInv'
      BY <1>9 DEF FinalizeThrowsEarly, store
<1>10. ASSUME NEW o \in Ops, FinalizeLock(o) PROVE CommitInv'
      BY <1>10 DEF FinalizeLock, store
<1>11. ASSUME NEW o \in Ops, FinalizeEmpty(o) PROVE CommitInv'
      BY <1>11 DEF FinalizeEmpty, store
<1>12. ASSUME NEW o \in Ops, FinalizeValidate(o) PROVE CommitInv'
      BY <1>12 DEF FinalizeValidate, ValidateTargetBaseline, LoadTargetState,
          store, LogInv
<1>13. ASSUME NEW o \in Ops, FinalizeReject(o) PROVE CommitInv'
      BY <1>13 DEF FinalizeReject, store
<1>14. ASSUME NEW o \in Ops, FinalizeAbort(o) PROVE CommitInv'
      BY <1>14 DEF FinalizeAbort
<1>15. ASSUME NEW o \in Ops, FilterAndCommit(o) PROVE CommitInv'
      BY <1>15 DEF FilterAndCommit, AppendSnapshot, ControlInv
<1>16. ASSUME NEW o \in Ops, CommitWithoutEffect(o) PROVE CommitInv'
      BY <1>16 DEF CommitWithoutEffect, store
<1>17. ASSUME NEW o \in Ops, NEW res \in ResultLists,
             AbortDistributedWrite(o, res)
      PROVE  CommitInv'
      BY <1>17 DEF AbortDistributedWrite
<1>18. ASSUME NEW x \in Attempt, StartAttempt(x) PROVE CommitInv'
      BY <1>18 DEF StartAttempt, store, coord
<1>19. ASSUME NEW x \in Attempt, WorkerCombine(x) PROVE CommitInv'
      BY <1>19 DEF WorkerCombine, coord
<1>20. ASSUME NEW x \in Attempt, WorkerFinalize(x) PROVE CommitInv'
      BY <1>20 DEF WorkerFinalize, store, coord
<1>21. ASSUME NEW x \in Attempt, WorkerFailEarly(x) PROVE CommitInv'
      BY <1>21 DEF WorkerFailEarly, coord
<1>22. ASSUME NEW x \in Attempt, WorkerFailLate(x) PROVE CommitInv'
      BY <1>22 DEF WorkerFailLate, coord
<1>23. CASE CoordinatorCrash
      BY <1>23 DEF CoordinatorCrash, store, Answered
<1>24. ASSUME NEW d \in Defs, CreateTable(d) PROVE CommitInv'
      BY <1>24 DEF CreateTable, NewTable, coord, ControlInv
<1>25. CASE DropTable
      BY <1>25 DEF DropTable, coord, ControlInv
<1>26. CASE NativeCommit
      BY <1>26 DEF NativeCommit, AppendSnapshot, coord, ControlInv
<1>27. CASE ForeignCommit
      BY <1>27 DEF ForeignCommit, AppendSnapshot, coord
<1> QED BY <1>1, <1>2, <1>3, <1>4, <1>5, <1>6, <1>7, <1>8, <1>9, <1>10, <1>11,
      <1>12, <1>13, <1>14, <1>15, <1>16, <1>17, <1>18, <1>19, <1>20, <1>21,
      <1>22, <1>23, <1>24, <1>25, <1>26, <1>27 DEF Next, Coordinator, Worker,
      Others

\* So a commit lands on the baseline its operation froze.
LEMMA CommitsOnFrozenBaselineNext ==
  ASSUME SafetyInv, TypeOK', [Next]_vars
  PROVE  CommitsOnFrozenBaseline'
<1> USE OpsAssumption DEF SafetyInv, TypeOK, CommitsOnFrozenBaseline, Table, Target, Snapshot
<1>1. CASE UNCHANGED vars
      BY <1>1 DEF vars
<1>2. ASSUME NEW o \in Ops, InitializeDistributedWrite(o) PROVE CommitsOnFrozenBaseline'
      BY <1>2 DEF InitializeDistributedWrite, LoadTargetState, store, LogInv
<1>3. ASSUME NEW o \in Ops, ValidateDistributedWrite(o) PROVE CommitsOnFrozenBaseline'
      BY <1>3 DEF ValidateDistributedWrite, ValidateOrThrow,
          ValidateTargetBaseline, LoadTargetState, store
<1>4. ASSUME NEW o \in Ops, PrepareInsert(o) PROVE CommitsOnFrozenBaseline'
      BY <1>4 DEF PrepareInsert, ValidateOrThrow, ValidateTargetBaseline,
          LoadTargetState, store
<1>5. ASSUME NEW o \in Ops, PrepareCtasAbsent(o) PROVE CommitsOnFrozenBaseline'
      BY <1>5 DEF PrepareCtasAbsent, store
<1>6. ASSUME NEW o \in Ops, PrepareCtasCreate(o) PROVE CommitsOnFrozenBaseline'
      BY <1>6 DEF PrepareCtasCreate, NewTable
<1>7. ASSUME NEW o \in Ops, PrepareCtasCapture(o) PROVE CommitsOnFrozenBaseline'
      BY <1>7 DEF PrepareCtasCapture, CapturePreparedCTASTarget,
          LoadTargetState, store, LogInv
<1>8. ASSUME NEW o \in Ops, NEW res \in ResultLists,
             FinalizeDistributedWrite(o, res)
      PROVE  CommitsOnFrozenBaseline'
      BY <1>8 DEF FinalizeDistributedWrite
<1>9. ASSUME NEW o \in Ops, FinalizeThrowsEarly(o) PROVE CommitsOnFrozenBaseline'
      BY <1>9 DEF FinalizeThrowsEarly, store
<1>10. ASSUME NEW o \in Ops, FinalizeLock(o) PROVE CommitsOnFrozenBaseline'
      BY <1>10 DEF FinalizeLock, store
<1>11. ASSUME NEW o \in Ops, FinalizeEmpty(o) PROVE CommitsOnFrozenBaseline'
      BY <1>11 DEF FinalizeEmpty, store
<1>12. ASSUME NEW o \in Ops, FinalizeValidate(o) PROVE CommitsOnFrozenBaseline'
      BY <1>12 DEF FinalizeValidate, ValidateTargetBaseline, LoadTargetState,
          store
<1>13. ASSUME NEW o \in Ops, FinalizeReject(o) PROVE CommitsOnFrozenBaseline'
      BY <1>13 DEF FinalizeReject, store
<1>14. ASSUME NEW o \in Ops, FinalizeAbort(o) PROVE CommitsOnFrozenBaseline'
      BY <1>14 DEF FinalizeAbort
<1>15. ASSUME NEW o \in Ops, FilterAndCommit(o) PROVE CommitsOnFrozenBaseline'
      BY <1>15 DEF FilterAndCommit, AppendSnapshot, CommitInv, LogInv
<1>16. ASSUME NEW o \in Ops, CommitWithoutEffect(o) PROVE CommitsOnFrozenBaseline'
      BY <1>16 DEF CommitWithoutEffect, store
<1>17. ASSUME NEW o \in Ops, NEW res \in ResultLists,
             AbortDistributedWrite(o, res)
      PROVE  CommitsOnFrozenBaseline'
      BY <1>17 DEF AbortDistributedWrite
<1>18. ASSUME NEW x \in Attempt, StartAttempt(x) PROVE CommitsOnFrozenBaseline'
      BY <1>18 DEF StartAttempt, store, coord
<1>19. ASSUME NEW x \in Attempt, WorkerCombine(x) PROVE CommitsOnFrozenBaseline'
      BY <1>19 DEF WorkerCombine, coord
<1>20. ASSUME NEW x \in Attempt, WorkerFinalize(x) PROVE CommitsOnFrozenBaseline'
      BY <1>20 DEF WorkerFinalize, store, coord
<1>21. ASSUME NEW x \in Attempt, WorkerFailEarly(x) PROVE CommitsOnFrozenBaseline'
      BY <1>21 DEF WorkerFailEarly, coord
<1>22. ASSUME NEW x \in Attempt, WorkerFailLate(x) PROVE CommitsOnFrozenBaseline'
      BY <1>22 DEF WorkerFailLate, coord
<1>23. CASE CoordinatorCrash
      BY <1>23 DEF CoordinatorCrash, store, Answered
<1>24. ASSUME NEW d \in Defs, CreateTable(d) PROVE CommitsOnFrozenBaseline'
      BY <1>24 DEF CreateTable, NewTable, coord
<1>25. CASE DropTable
      BY <1>25 DEF DropTable, coord
<1>26. CASE NativeCommit
      BY <1>26 DEF NativeCommit, AppendSnapshot, coord, LogInv
<1>27. CASE ForeignCommit
      BY <1>27 DEF ForeignCommit, AppendSnapshot, coord, LogInv
<1> QED BY <1>1, <1>2, <1>3, <1>4, <1>5, <1>6, <1>7, <1>8, <1>9, <1>10, <1>11,
      <1>12, <1>13, <1>14, <1>15, <1>16, <1>17, <1>18, <1>19, <1>20, <1>21,
      <1>22, <1>23, <1>24, <1>25, <1>26, <1>27 DEF Next, Coordinator, Worker,
      Others


\* The safety invariant holds initially, ...
LEMMA SafetyInit == Init => SafetyInv
<1> SUFFICES ASSUME Init PROVE SafetyInv
    OBVIOUS
<1>1. TypeOK
      BY TypeInit
<1>2. ControlInv
      BY OpsAssumption DEF Init, ControlInv, Finalizing
<1>3. MessageInv /\ FileInv
      BY DEF Init, MessageInv, FileInv, Writing
<1>4. LogInv
      BY <1>1 DEF Init, LogInv, TypeOK, Table
<1>5. CommitInv /\ CommitsOnFrozenBaseline
      BY DEF Init, CommitInv, CommitsOnFrozenBaseline
<1> QED BY <1>1, <1>2, <1>3, <1>4, <1>5 DEF SafetyInv

\* ... every step keeps it, ...
LEMMA SafetyNext == SafetyInv /\ [Next]_vars => SafetyInv'
<1> SUFFICES ASSUME SafetyInv, [Next]_vars PROVE SafetyInv'
    OBVIOUS
<1>1. TypeOK'
      BY TypeNext DEF SafetyInv
<1> QED
    BY <1>1, ControlInvNext, MessageInvNext, FileInvNext, LogInvNext,
       CommitInvNext, CommitsOnFrozenBaselineNext
    DEF SafetyInv

\* ... so it holds in every reachable state.
LEMMA SafetyAlways == Spec => []SafetyInv
BY SafetyInit, SafetyNext, PTL DEF Spec

\* Whatever the interleaving of operations, attempts, aborts, crashes and DDL:
\* a snapshot that a reader of the table can see refers only to files that
\* are on disk.
THEOREM VisibleFilesExist == Spec => []NoDanglingSnapshot
<1>1. SafetyInv => NoDanglingSnapshot
  <2> SUFFICES ASSUME SafetyInv, NEW c \in LiveSnapshots,
                      NEW x \in c.files
               PROVE  x \in files
      BY DEF NoDanglingSnapshot
  <2>1. c \in log /\ tbl.live /\ c.inc = tbl.inc
        BY DEF LiveSnapshots
  <2>2. /\ c.by \in Ops
        /\ pc[c.by] \in {"ok", "unknown"}
        /\ x \in decoded[c.by]
        /\ c.inc = frozen[c.by].inc
        BY <2>1 DEF SafetyInv, LogInv, CommitsOnFrozenBaseline
  <2>3. x \in Writing /\ Owner(x) = c.by /\ att[x] = "published"
        BY <2>2 DEF SafetyInv, MessageInv
  <2> QED
      BY <2>1, <2>2, <2>3 DEF SafetyInv, FileInv, Committable
<1> QED BY <1>1, SafetyAlways, PTL

\* The mutation mutex binds the validated baseline to the commit: a distributed
\* commit lands on the table incarnation and snapshot its operation froze, and
\* no statement of the same process gets in between.
THEOREM BaselineBoundToCommit == Spec => []CommitsOnFrozenBaseline
<1>1. SafetyInv => CommitsOnFrozenBaseline
      BY DEF SafetyInv
<1> QED BY <1>1, SafetyAlways, PTL

\* From the moment FilterAndCommit is called on, whatever becomes of it, no step
\* but DROP TABLE removes a file of the operation: no late abort request, no
\* failing operation beside it and no dying worker.
THEOREM ArtifactsRetained == Spec => RetainedFromCommitOn
<1> DEFINE Retained ==
      \A o \in Ops :
        pc[o] \in {"committing", "ok", "unknown"} /\ tbl'.live
          => decoded[o] \cap files \subseteq files'
<1>1. ASSUME SafetyInv, [Next]_vars PROVE Retained
  <2> SUFFICES ASSUME NEW o \in Ops, pc[o] \in {"committing", "ok", "unknown"},
                      tbl'.live,
                      NEW f \in decoded[o], f \in files
               PROVE  f \in files'
      OBVIOUS
  <2>1. f \in Writing /\ Owner(f) = o /\ att[f] = "published"
        BY <1>1 DEF SafetyInv, MessageInv
  <2>2. ASSUME NEW q \in Ops, NEW res \in ResultLists,
               FinalizeDistributedWrite(q, res)
        PROVE  f \in files'
    <3>1. pc[q] = "prepared"
          BY <2>2 DEF FinalizeDistributedWrite
    <3>2. f \notin DecodedMessages(q, res)
          BY <2>1, <3>1, DecodedOwn
    <3> QED BY <2>2, <3>2, AbortShrinksFiles DEF FinalizeDistributedWrite
  <2>3. ASSUME NEW q \in Ops, FinalizeAbort(q) PROVE f \in files'
    <3>1. pc[q] = "aborting"
          BY <2>3 DEF FinalizeAbort
    <3>2. f \notin decoded[q]
          BY <1>1, <2>1, <3>1 DEF SafetyInv, MessageInv
    <3> QED BY <2>3, <3>2, AbortShrinksFiles DEF FinalizeAbort
  <2>4. ASSUME NEW q \in Ops, NEW res \in ResultLists,
               AbortDistributedWrite(q, res)
        PROVE  f \in files'
    <3>1. q # o
          BY <1>1, <2>4
          DEF AbortDistributedWrite, SafetyInv, ControlInv, Finalizing
    <3>2. f \notin DecodedMessages(q, res)
          BY <2>1, <3>1, DecodedOwn
    <3> QED BY <2>4, <3>2, AbortShrinksFiles DEF AbortDistributedWrite
  <2>5. ASSUME NEW x \in Attempt, WorkerFailLate(x) PROVE f \in files'
    <3>1. x # f
          BY <2>1, <2>5 DEF WorkerFailLate
    <3> QED BY <2>5, <3>1, AbortShrinksFiles DEF WorkerFailLate
  <2>6. ASSUME NEW x \in Attempt, \/ StartAttempt(x) \/ WorkerCombine(x)
                                  \/ WorkerFinalize(x) \/ WorkerFailEarly(x)
        PROVE  f \in files'
        BY <2>6 DEF StartAttempt, WorkerCombine, WorkerFinalize,
                    WorkerFailEarly, store
  <2>7. CASE Others
        BY <2>7, <1>1 DEF Others, CreateTable, DropTable, NativeCommit,
                          ForeignCommit, SafetyInv, TypeOK, Table
  <2>8. CASE CoordinatorCrash \/ UNCHANGED vars
        BY <2>8 DEF CoordinatorCrash, vars, store
  <2>9. ASSUME NEW q \in Ops, Coordinator(q) PROVE f \in files'
    <3>1. CASE \/ InitializeDistributedWrite(q) \/ ValidateDistributedWrite(q)
               \/ PrepareInsert(q) \/ PrepareCtasAbsent(q)
               \/ PrepareCtasCreate(q) \/ PrepareCtasCapture(q)
          BY <3>1 DEF InitializeDistributedWrite, ValidateDistributedWrite,
                      PrepareInsert, PrepareCtasAbsent, PrepareCtasCreate,
                      PrepareCtasCapture, store
    <3>2. CASE \/ FinalizeThrowsEarly(q) \/ FinalizeLock(q) \/ FinalizeEmpty(q)
               \/ FinalizeValidate(q) \/ FinalizeReject(q)
               \/ FilterAndCommit(q) \/ CommitWithoutEffect(q)
          BY <3>2 DEF FinalizeThrowsEarly, FinalizeLock, FinalizeEmpty,
                      FinalizeValidate, FinalizeReject, FilterAndCommit,
                      CommitWithoutEffect, store
    <3> QED BY <2>2, <2>3, <2>4, <2>9, <3>1, <3>2 DEF Coordinator
  <2> QED BY <1>1, <2>5, <2>6, <2>7, <2>8, <2>9 DEF Next, Worker
<1>2. SafetyInv /\ [Next]_vars => [Retained]_vars
      BY <1>1
<1>3. RetainedFromCommitOn <=> [][Retained]_vars
      BY DEF RetainedFromCommitOn
<1> QED BY <1>2, <1>3, SafetyAlways, PTL DEF Spec

\* When Abort works, a step after a failure brings no decoded message back.
LEMMA CleanupInvNext ==
  ASSUME SafetyInv, CleanupInv, [Next]_vars
  PROVE  CleanupInv'
<1> USE AttemptParts DEF SafetyInv, TypeOK, CleanupInv, KnownFailureCleansUp, Finalizing
<1>1. CASE UNCHANGED vars
      BY <1>1 DEF vars
<1>2. ASSUME NEW o \in Ops, InitializeDistributedWrite(o) PROVE CleanupInv'
      BY <1>2 DEF InitializeDistributedWrite, LoadTargetState, store
<1>3. ASSUME NEW o \in Ops, ValidateDistributedWrite(o) PROVE CleanupInv'
      BY <1>3 DEF ValidateDistributedWrite, ValidateOrThrow,
          ValidateTargetBaseline, LoadTargetState, store
<1>4. ASSUME NEW o \in Ops, PrepareInsert(o) PROVE CleanupInv'
      BY <1>4 DEF PrepareInsert, ValidateOrThrow, ValidateTargetBaseline,
          LoadTargetState, store
<1>5. ASSUME NEW o \in Ops, PrepareCtasAbsent(o) PROVE CleanupInv'
      BY <1>5 DEF PrepareCtasAbsent, store
<1>6. ASSUME NEW o \in Ops, PrepareCtasCreate(o) PROVE CleanupInv'
      BY <1>6 DEF PrepareCtasCreate, NewTable
<1>7. ASSUME NEW o \in Ops, PrepareCtasCapture(o) PROVE CleanupInv'
      BY <1>7 DEF PrepareCtasCapture, CapturePreparedCTASTarget,
          LoadTargetState, store
<1>8. ASSUME NEW o \in Ops, NEW res \in ResultLists,
             FinalizeDistributedWrite(o, res)
      PROVE  CleanupInv'
      BY <1>8 DEF FinalizeDistributedWrite, BestEffortAbortMessages
<1>9. ASSUME NEW o \in Ops, FinalizeThrowsEarly(o) PROVE CleanupInv'
      BY <1>9 DEF FinalizeThrowsEarly, store
<1>10. ASSUME NEW o \in Ops, FinalizeLock(o) PROVE CleanupInv'
      BY <1>10 DEF FinalizeLock, store
<1>11. ASSUME NEW o \in Ops, FinalizeEmpty(o) PROVE CleanupInv'
      BY <1>11 DEF FinalizeEmpty, store
<1>12. ASSUME NEW o \in Ops, FinalizeValidate(o) PROVE CleanupInv'
      BY <1>12 DEF FinalizeValidate, ValidateTargetBaseline, LoadTargetState,
          store
<1>13. ASSUME NEW o \in Ops, FinalizeReject(o) PROVE CleanupInv'
      BY <1>13 DEF FinalizeReject, store
<1>14. ASSUME NEW o \in Ops, FinalizeAbort(o) PROVE CleanupInv'
      BY <1>14 DEF FinalizeAbort, BestEffortAbortMessages
<1>15. ASSUME NEW o \in Ops, FilterAndCommit(o) PROVE CleanupInv'
      BY <1>15 DEF FilterAndCommit, AppendSnapshot
<1>16. ASSUME NEW o \in Ops, CommitWithoutEffect(o) PROVE CleanupInv'
      BY <1>16 DEF CommitWithoutEffect, store
<1>17. ASSUME NEW o \in Ops, NEW res \in ResultLists,
             AbortDistributedWrite(o, res)
      PROVE  CleanupInv'
      BY <1>17, AbortShrinksFiles DEF AbortDistributedWrite
<1>18. ASSUME NEW x \in Attempt, StartAttempt(x) PROVE CleanupInv'
      BY <1>18 DEF StartAttempt, store, coord
<1>19. ASSUME NEW x \in Attempt, WorkerCombine(x) PROVE CleanupInv'
      BY <1>19 DEF WorkerCombine, coord, MessageInv
<1>20. ASSUME NEW x \in Attempt, WorkerFinalize(x) PROVE CleanupInv'
      BY <1>20 DEF WorkerFinalize, store, coord
<1>21. ASSUME NEW x \in Attempt, WorkerFailEarly(x) PROVE CleanupInv'
      BY <1>21 DEF WorkerFailEarly, coord, MessageInv
<1>22. ASSUME NEW x \in Attempt, WorkerFailLate(x) PROVE CleanupInv'
      BY <1>22, AbortShrinksFiles DEF WorkerFailLate, coord
<1>23. CASE CoordinatorCrash
      BY <1>23 DEF CoordinatorCrash, store, Answered
<1>24. ASSUME NEW d \in Defs, CreateTable(d) PROVE CleanupInv'
      BY <1>24 DEF CreateTable, NewTable, coord
<1>25. CASE DropTable
      BY <1>25 DEF DropTable, coord
<1>26. CASE NativeCommit
      BY <1>26 DEF NativeCommit, AppendSnapshot, coord
<1>27. CASE ForeignCommit
      BY <1>27 DEF ForeignCommit, AppendSnapshot, coord
<1> QED BY <1>1, <1>2, <1>3, <1>4, <1>5, <1>6, <1>7, <1>8, <1>9, <1>10, <1>11,
      <1>12, <1>13, <1>14, <1>15, <1>16, <1>17, <1>18, <1>19, <1>20, <1>21,
      <1>22, <1>23, <1>24, <1>25, <1>26, <1>27 DEF Next, Coordinator, Worker,
      Others


\* When Paimon's Abort works, a finalization that fails before its commit, in
\* decoding, in validation or in creating the committer, leaves no message
\* that it decoded on disk.
THEOREM KnownFailureIsClean == Spec => []KnownFailureCleansUp
<1>1. Init => CleanupInv
      BY DEF Init, CleanupInv, KnownFailureCleansUp
<1>2. SafetyInv /\ CleanupInv /\ [Next]_vars => CleanupInv'
      BY CleanupInvNext
<1>3. CleanupInv => KnownFailureCleansUp
      BY DEF CleanupInv
<1> QED BY <1>1, <1>2, <1>3, SafetyAlways, PTL DEF Spec

-----------------------------------------------------------------------------
(* Refinement: DistributedWrite implements AtomicAppend *)

\* A list of results that covers every logical task and that decoding accepts
\* selects one attempt of every logical task with rows.
LEMMA DecodeSelects ==
  ASSUME NEW o \in Ops, NEW res \in ResultLists,
         CoversAllTasks(o, res), DecodeCommitResults(o, res)
  PROVE  DecodedMessages(o, res) \in Abstract!Selections(o)
<1> DEFINE NE == {t \in Tasks : Rows[o][t] > 0}
           at(t) == CHOOSE i \in DOMAIN res : TaskOf(res[i].id) = t
           chosen == [t \in NE |-> res[at(t)].id[3]]
<1>1. ASSUME NEW i \in DOMAIN res
      PROVE  /\ res[i].id \in Attempt
             /\ res[i].id = <<o, TaskOf(res[i].id), res[i].id[3]>>
             /\ res[i].id[3] \in 1..MaxAttempts
  <2>1. res[i] \in Result
        BY ResultListIsSeq
  <2>2. res[i].id \in Attempt
        BY <2>1 DEF Result
  <2>3. Owner(res[i].id) = o
        BY DEF DecodeCommitResults, RejectedAt
  <2> QED BY <2>2, <2>3 DEF Attempt, Owner, TaskOf
<1>2. ASSUME NEW t \in Tasks
      PROVE  at(t) \in DOMAIN res /\ TaskOf(res[at(t)].id) = t
      BY DEF CoversAllTasks
<1>3. ASSUME NEW i \in DOMAIN res
      PROVE  i = at(TaskOf(res[i].id))
  <2>1. TaskOf(res[i].id) \in Tasks
        BY <1>1, AttemptParts
  <2>2. /\ at(TaskOf(res[i].id)) \in DOMAIN res
        /\ TaskOf(res[at(TaskOf(res[i].id))].id) = TaskOf(res[i].id)
        BY <1>2, <2>1
  <2> QED BY <2>2 DEF DecodeCommitResults, DuplicateLogicalTask
<1>4. chosen \in [NE -> 1..MaxAttempts]
      BY <1>1, <1>2
<1>6. ASSUME NEW k \in DOMAIN res
      PROVE  /\ \A j \in 1..k : ~RejectedAt(o, res, j)
             /\ \A j \in 1..(k - 1) : ~OverflowAt(res, j)
  <2>1. k \in 1..Len(res) /\ Len(res) \in Nat /\ DOMAIN res = 1..Len(res)
        BY ResultListIsSeq
  <2> QED BY <2>1 DEF DecodeCommitResults
<1>5. DecodedMessages(o, res) = {<<o, t, chosen[t]>> : t \in NE}
  <2>1. ASSUME NEW x \in DecodedMessages(o, res)
        PROVE  x \in {<<o, t, chosen[t]>> : t \in NE}
    <3>1. PICK i \in DOMAIN res : res[i].id = x
          BY DEF DecodedMessages
    <3>2. x \in Writing /\ Owner(x) = o
          BY DecodedOwn
    <3>3. TaskOf(x) \in NE
          BY <3>2, AttemptParts DEF Writing, RowsOf
    <3>4. chosen[TaskOf(x)] = x[3]
          BY <1>3, <3>1, <3>3
    <3> QED BY <1>1, <3>1, <3>3, <3>4
  <2>2. ASSUME NEW t \in NE
        PROVE  <<o, t, chosen[t]>> \in DecodedMessages(o, res)
    <3>1. /\ at(t) \in DOMAIN res
          /\ res[at(t)].id = <<o, t, chosen[t]>>
          BY <1>1, <1>2
    <3>2. <<o, t, chosen[t]>> \in Writing
          BY <1>1, <3>1 DEF Writing, RowsOf, Owner, TaskOf
    <3>3. /\ \A j \in 1..at(t) : ~RejectedAt(o, res, j)
          /\ \A j \in 1..(at(t) - 1) : ~OverflowAt(res, j)
          BY <1>6, <3>1
    <3> QED BY <3>1, <3>2, <3>3 DEF DecodedMessages
  <2> QED BY <2>1, <2>2
<1> QED BY <1>4, <1>5 DEF Abstract!Selections

-----------------------------------------------------------------------------
\* Until it commits, an operation holds a selection; it commits no empty one.
SelectionInv ==
  \A o \in Ops :
    /\ pc[o] \in {"decoded", "locked", "committing"}
         => decoded[o] \in Abstract!Selections(o)
    /\ pc[o] = "committing" => decoded[o] # {}

vis == [o \in Ops |-> VisibleFiles(o)]
ans == [o \in Ops |-> AnswerOf(o)]

\* Only finalization changes a selection, and decoding yields one.
LEMMA SelectionInvNext ==
  ASSUME SafetyInv, SelectionInv, [Next]_vars
  PROVE  SelectionInv'
<1> USE DEF SafetyInv, TypeOK, SelectionInv
<1>1. CASE UNCHANGED vars
      BY <1>1 DEF vars
<1>2. ASSUME NEW o \in Ops, InitializeDistributedWrite(o) PROVE SelectionInv'
      BY <1>2 DEF InitializeDistributedWrite, LoadTargetState, store
<1>3. ASSUME NEW o \in Ops, ValidateDistributedWrite(o) PROVE SelectionInv'
      BY <1>3 DEF ValidateDistributedWrite, ValidateOrThrow,
          ValidateTargetBaseline, LoadTargetState, store
<1>4. ASSUME NEW o \in Ops, PrepareInsert(o) PROVE SelectionInv'
      BY <1>4 DEF PrepareInsert, ValidateOrThrow, ValidateTargetBaseline,
          LoadTargetState, store
<1>5. ASSUME NEW o \in Ops, PrepareCtasAbsent(o) PROVE SelectionInv'
      BY <1>5 DEF PrepareCtasAbsent, store
<1>6. ASSUME NEW o \in Ops, PrepareCtasCreate(o) PROVE SelectionInv'
      BY <1>6 DEF PrepareCtasCreate, NewTable
<1>7. ASSUME NEW o \in Ops, PrepareCtasCapture(o) PROVE SelectionInv'
      BY <1>7 DEF PrepareCtasCapture, CapturePreparedCTASTarget,
          LoadTargetState, store
<1>8. ASSUME NEW o \in Ops, NEW res \in ResultLists,
             FinalizeDistributedWrite(o, res)
      PROVE  SelectionInv'
      BY <1>8, DecodeSelects DEF FinalizeDistributedWrite
<1>9. ASSUME NEW o \in Ops, FinalizeThrowsEarly(o) PROVE SelectionInv'
      BY <1>9 DEF FinalizeThrowsEarly, store
<1>10. ASSUME NEW o \in Ops, FinalizeLock(o) PROVE SelectionInv'
      BY <1>10 DEF FinalizeLock, store
<1>11. ASSUME NEW o \in Ops, FinalizeEmpty(o) PROVE SelectionInv'
      BY <1>11 DEF FinalizeEmpty, store
<1>12. ASSUME NEW o \in Ops, FinalizeValidate(o) PROVE SelectionInv'
      BY <1>12 DEF FinalizeValidate, ValidateTargetBaseline, LoadTargetState,
          store
<1>13. ASSUME NEW o \in Ops, FinalizeReject(o) PROVE SelectionInv'
      BY <1>13 DEF FinalizeReject, store
<1>14. ASSUME NEW o \in Ops, FinalizeAbort(o) PROVE SelectionInv'
      BY <1>14 DEF FinalizeAbort
<1>15. ASSUME NEW o \in Ops, FilterAndCommit(o) PROVE SelectionInv'
      BY <1>15 DEF FilterAndCommit, AppendSnapshot
<1>16. ASSUME NEW o \in Ops, CommitWithoutEffect(o) PROVE SelectionInv'
      BY <1>16 DEF CommitWithoutEffect, store
<1>17. ASSUME NEW o \in Ops, NEW res \in ResultLists,
             AbortDistributedWrite(o, res)
      PROVE  SelectionInv'
      BY <1>17 DEF AbortDistributedWrite
<1>18. ASSUME NEW x \in Attempt, StartAttempt(x) PROVE SelectionInv'
      BY <1>18 DEF StartAttempt, store, coord
<1>19. ASSUME NEW x \in Attempt, WorkerCombine(x) PROVE SelectionInv'
      BY <1>19 DEF WorkerCombine, coord
<1>20. ASSUME NEW x \in Attempt, WorkerFinalize(x) PROVE SelectionInv'
      BY <1>20 DEF WorkerFinalize, store, coord
<1>21. ASSUME NEW x \in Attempt, WorkerFailEarly(x) PROVE SelectionInv'
      BY <1>21 DEF WorkerFailEarly, coord
<1>22. ASSUME NEW x \in Attempt, WorkerFailLate(x) PROVE SelectionInv'
      BY <1>22 DEF WorkerFailLate, coord
<1>23. CASE CoordinatorCrash
      BY <1>23 DEF CoordinatorCrash, store, Answered
<1>24. ASSUME NEW d \in Defs, CreateTable(d) PROVE SelectionInv'
      BY <1>24 DEF CreateTable, NewTable, coord
<1>25. CASE DropTable
      BY <1>25 DEF DropTable, coord
<1>26. CASE NativeCommit
      BY <1>26 DEF NativeCommit, AppendSnapshot, coord
<1>27. CASE ForeignCommit
      BY <1>27 DEF ForeignCommit, AppendSnapshot, coord
<1> QED BY <1>1, <1>2, <1>3, <1>4, <1>5, <1>6, <1>7, <1>8, <1>9, <1>10, <1>11,
      <1>12, <1>13, <1>14, <1>15, <1>16, <1>17, <1>18, <1>19, <1>20, <1>21,
      <1>22, <1>23, <1>24, <1>25, <1>26, <1>27 DEF Next, Coordinator, Worker,
      Others

-----------------------------------------------------------------------------
\* A step that commits nothing and at most moves one operation from no answer
\* to a failure or an unknown outcome is a refusal or no step at all.
LEMMA QuietStep ==
  ASSUME NEW o \in Ops, log' = log,
         \A q \in Ops \ {o} : pc'[q] = pc[q],
         \/ AnswerOf(o)' = AnswerOf(o)
         \/ AnswerOf(o) = "none" /\ AnswerOf(o)' \in {"failed", "unknown"}
  PROVE  [Abstract!Next]_(Abstract!vars)
<1>1. vis' = vis
      BY DEF vis, VisibleFiles
<1>2. \A q \in Ops \ {o} : AnswerOf(q)' = AnswerOf(q)
      BY DEF AnswerOf
<1>3. CASE AnswerOf(o)' = AnswerOf(o)
  <2>1. ans' = ans
        BY <1>2, <1>3 DEF ans
  <2> QED BY <1>1, <2>1 DEF Abstract!vars, vis, ans
<1>4. CASE AnswerOf(o) = "none" /\ AnswerOf(o)' \in {"failed", "unknown"}
  <2>1. ans' = [ans EXCEPT ![o] = AnswerOf(o)']
        BY <1>2, <1>4 DEF ans
  <2>2. Abstract!Refuse(o)
        BY <1>1, <1>4, <2>1 DEF Abstract!Refuse, vis, ans
  <2> QED BY <2>2 DEF Abstract!Next
<1> QED BY <1>3, <1>4

\* A step of the detailed specification is a step of AtomicAppend or leaves its
\* variables alone.
LEMMA RefineNext ==
  ASSUME SafetyInv, SelectionInv, [Next]_vars
  PROVE  [Abstract!Next]_(Abstract!vars)
<1> USE DEF SafetyInv, TypeOK, AnswerOf
<1>1. CASE UNCHANGED vars
  <2>1. vis' = vis /\ ans' = ans
        BY <1>1 DEF vars, vis, ans, VisibleFiles
  <2> QED BY <2>1 DEF vis, ans, Abstract!vars
<1>2. ASSUME NEW o \in Ops, InitializeDistributedWrite(o)
      PROVE  [Abstract!Next]_(Abstract!vars)
      BY <1>2, QuietStep DEF InitializeDistributedWrite, LoadTargetState, store
<1>3. ASSUME NEW o \in Ops, ValidateDistributedWrite(o)
      PROVE  [Abstract!Next]_(Abstract!vars)
      BY <1>3, QuietStep DEF ValidateDistributedWrite, ValidateOrThrow,
          ValidateTargetBaseline, LoadTargetState, store
<1>4. ASSUME NEW o \in Ops, PrepareInsert(o)
      PROVE  [Abstract!Next]_(Abstract!vars)
      BY <1>4, QuietStep DEF PrepareInsert, ValidateOrThrow,
          ValidateTargetBaseline, LoadTargetState, store
<1>5. ASSUME NEW o \in Ops, PrepareCtasAbsent(o)
      PROVE  [Abstract!Next]_(Abstract!vars)
      BY <1>5, QuietStep DEF PrepareCtasAbsent, store
<1>6. ASSUME NEW o \in Ops, PrepareCtasCreate(o)
      PROVE  [Abstract!Next]_(Abstract!vars)
      BY <1>6, QuietStep DEF PrepareCtasCreate, NewTable
<1>7. ASSUME NEW o \in Ops, PrepareCtasCapture(o)
      PROVE  [Abstract!Next]_(Abstract!vars)
      BY <1>7, QuietStep DEF PrepareCtasCapture, CapturePreparedCTASTarget,
          LoadTargetState, store
<1>8. ASSUME NEW o \in Ops, NEW res \in ResultLists,
             FinalizeDistributedWrite(o, res)
      PROVE  [Abstract!Next]_(Abstract!vars)
      BY <1>8, QuietStep DEF FinalizeDistributedWrite
<1>9. ASSUME NEW o \in Ops, FinalizeThrowsEarly(o)
      PROVE  [Abstract!Next]_(Abstract!vars)
      BY <1>9, QuietStep DEF FinalizeThrowsEarly, store
<1>10. ASSUME NEW o \in Ops, FinalizeLock(o)
      PROVE  [Abstract!Next]_(Abstract!vars)
      BY <1>10, QuietStep DEF FinalizeLock, store
<1>11. ASSUME NEW o \in Ops, FinalizeEmpty(o)
      PROVE  [Abstract!Next]_(Abstract!vars)
  <2> DEFINE NE == {t \in Tasks : Rows[o][t] > 0}
  <2>1. PICK chosen \in [NE -> 1..MaxAttempts] :
          decoded[o] = {<<o, t, chosen[t]>> : t \in NE}
        BY <1>11 DEF FinalizeEmpty, SelectionInv, Abstract!Selections
  <2>2. NE = {}
    <3>1. ASSUME NEW t \in NE PROVE FALSE
      <4>1. <<o, t, chosen[t]>> \in decoded[o]
            BY <2>1
      <4> QED BY <1>11, <4>1 DEF FinalizeEmpty
    <3> QED BY <3>1
  <2>3. vis' = vis
        BY <1>11 DEF FinalizeEmpty, store, vis, VisibleFiles
  <2>4. AnswerOf(o) = "none" /\ ans' = [ans EXCEPT ![o] = "ok"]
        BY <1>11 DEF FinalizeEmpty, ans
  <2>5. Abstract!AppendNothing(o)
        BY <2>2, <2>3, <2>4 DEF Abstract!AppendNothing, vis, ans
  <2> QED BY <2>5 DEF Abstract!Next
<1>12. ASSUME NEW o \in Ops, FinalizeValidate(o)
      PROVE  [Abstract!Next]_(Abstract!vars)
      BY <1>12, QuietStep DEF FinalizeValidate, ValidateTargetBaseline,
          LoadTargetState, store
<1>13. ASSUME NEW o \in Ops, FinalizeReject(o)
      PROVE  [Abstract!Next]_(Abstract!vars)
      BY <1>13, QuietStep DEF FinalizeReject, store
<1>14. ASSUME NEW o \in Ops, FinalizeAbort(o)
      PROVE  [Abstract!Next]_(Abstract!vars)
      BY <1>14, QuietStep DEF FinalizeAbort
<1>15. ASSUME NEW o \in Ops, FilterAndCommit(o)
      PROVE  [Abstract!Next]_(Abstract!vars)
  <2> DEFINE NE == {t \in Tasks : Rows[o][t] > 0}
  <2>1. pc[o] = "committing" /\ decoded[o] \in Abstract!Selections(o)
        BY <1>15 DEF FilterAndCommit, SelectionInv
  <2>2. \A c \in log : c.by # o
        BY <2>1 DEF LogInv
  <2>3. PICK c : c.by = o /\ c.files = decoded[o] /\ log' = log \cup {c}
        BY <1>15 DEF FilterAndCommit, AppendSnapshot
  <2>4. VisibleFiles(o)' = decoded[o]
        BY <2>2, <2>3 DEF VisibleFiles
  <2>5. \A q \in Ops \ {o} : VisibleFiles(q)' = VisibleFiles(q)
        BY <2>3 DEF VisibleFiles
  <2>6. vis' = [vis EXCEPT ![o] = decoded[o]]
        BY <2>4, <2>5 DEF vis
  <2>7. PICK told \in {"ok", "unknown"} : pc' = [pc EXCEPT ![o] = told]
        BY <1>15 DEF FilterAndCommit
  <2>8. AnswerOf(o) = "none" /\ ans' = [ans EXCEPT ![o] = told]
        BY <2>1, <2>7 DEF ans
  <2>9. NE # {}
    <3>1. decoded[o] # {}
          BY <2>1 DEF SelectionInv
    <3>2. PICK chosen \in [NE -> 1..MaxAttempts] :
            decoded[o] = {<<o, t, chosen[t]>> : t \in NE}
          BY <2>1 DEF Abstract!Selections
    <3> QED BY <3>1, <3>2
  <2>10. Abstract!Append(o)
        BY <2>1, <2>6, <2>8, <2>9 DEF Abstract!Append, vis, ans
  <2> QED BY <2>10 DEF Abstract!Next
<1>16. ASSUME NEW o \in Ops, CommitWithoutEffect(o)
      PROVE  [Abstract!Next]_(Abstract!vars)
      BY <1>16, QuietStep DEF CommitWithoutEffect, store
<1>17. ASSUME NEW o \in Ops, NEW res \in ResultLists,
             AbortDistributedWrite(o, res)
      PROVE  [Abstract!Next]_(Abstract!vars)
      BY <1>17, QuietStep DEF AbortDistributedWrite
<1>18. ASSUME NEW x \in Attempt, StartAttempt(x)
      PROVE  [Abstract!Next]_(Abstract!vars)
  <2>1. vis' = vis /\ ans' = ans
        BY <1>18 DEF StartAttempt, store, coord, vis, ans, VisibleFiles
  <2> QED BY <2>1 DEF vis, ans, Abstract!vars
<1>19. ASSUME NEW x \in Attempt, WorkerCombine(x)
      PROVE  [Abstract!Next]_(Abstract!vars)
  <2>1. vis' = vis /\ ans' = ans
        BY <1>19 DEF WorkerCombine, coord, vis, ans, VisibleFiles
  <2> QED BY <2>1 DEF vis, ans, Abstract!vars
<1>20. ASSUME NEW x \in Attempt, WorkerFinalize(x)
      PROVE  [Abstract!Next]_(Abstract!vars)
  <2>1. vis' = vis /\ ans' = ans
        BY <1>20 DEF WorkerFinalize, store, coord, vis, ans, VisibleFiles
  <2> QED BY <2>1 DEF vis, ans, Abstract!vars
<1>21. ASSUME NEW x \in Attempt, WorkerFailEarly(x)
      PROVE  [Abstract!Next]_(Abstract!vars)
  <2>1. vis' = vis /\ ans' = ans
        BY <1>21 DEF WorkerFailEarly, coord, vis, ans, VisibleFiles
  <2> QED BY <2>1 DEF vis, ans, Abstract!vars
<1>22. ASSUME NEW x \in Attempt, WorkerFailLate(x)
      PROVE  [Abstract!Next]_(Abstract!vars)
  <2>1. vis' = vis /\ ans' = ans
        BY <1>22 DEF WorkerFailLate, coord, vis, ans, VisibleFiles
  <2> QED BY <2>1 DEF vis, ans, Abstract!vars
<1>23. CASE CoordinatorCrash
  <2> DEFINE lost == {o \in Ops : AnswerOf(o) = "none" /\ pc[o] # "new"}
  <2>1. vis' = vis
        BY <1>23 DEF CoordinatorCrash, store, vis, VisibleFiles
  <2>2. ans' = [o \in Ops |-> IF o \in lost THEN "crashed" ELSE ans[o]]
        BY <1>23 DEF CoordinatorCrash, ans, Answered, PcValues, InCall
  <2>3. Abstract!Crash
        BY <2>1, <2>2 DEF Abstract!Crash, vis, ans
  <2> QED BY <2>3 DEF Abstract!Next
<1>24. ASSUME NEW d \in Defs, CreateTable(d)
      PROVE  [Abstract!Next]_(Abstract!vars)
  <2>1. vis' = vis /\ ans' = ans
        BY <1>24 DEF CreateTable, NewTable, coord, vis, ans, VisibleFiles
  <2> QED BY <2>1 DEF vis, ans, Abstract!vars
<1>25. CASE DropTable
  <2>1. vis' = vis /\ ans' = ans
        BY <1>25 DEF DropTable, coord, vis, ans, VisibleFiles
  <2> QED BY <2>1 DEF vis, ans, Abstract!vars
<1>26. CASE NativeCommit
  <2>1. PICK c : c.by \notin Ops /\ log' = log \cup {c}
        BY <1>26, OpsAssumption DEF NativeCommit, AppendSnapshot
  <2>2. vis' = vis
        BY <2>1 DEF vis, VisibleFiles
  <2>3. ans' = ans
        BY <1>26 DEF NativeCommit, coord, ans
  <2> QED BY <2>2, <2>3 DEF vis, ans, Abstract!vars
<1>27. CASE ForeignCommit
  <2>1. PICK c : c.by \notin Ops /\ log' = log \cup {c}
        BY <1>27, OpsAssumption DEF ForeignCommit, AppendSnapshot
  <2>2. vis' = vis
        BY <2>1 DEF vis, VisibleFiles
  <2>3. ans' = ans
        BY <1>27 DEF ForeignCommit, coord, ans
  <2> QED BY <2>2, <2>3 DEF vis, ans, Abstract!vars
<1> QED BY <1>1, <1>2, <1>3, <1>4, <1>5, <1>6, <1>7, <1>8, <1>9, <1>10, <1>11,
      <1>12, <1>13, <1>14, <1>15, <1>16, <1>17, <1>18, <1>19, <1>20, <1>21,
      <1>22, <1>23, <1>24, <1>25, <1>26, <1>27 DEF Next, Coordinator, Worker,
      Others

\* Every distributed write is an atomic append: it becomes visible at most once,
\* with exactly one attempt of every logical task that has rows, and the answer
\* its caller gets never contradicts the table.
THEOREM Refinement == Spec => ImplementsAtomicAppend
<1>1. Init => Abstract!Init
      BY DEF Init, Abstract!Init, VisibleFiles, AnswerOf
<1>2. Init => SelectionInv
      BY DEF Init, SelectionInv
<1>3. SafetyInv /\ SelectionInv /\ [Next]_vars => SelectionInv'
      BY SelectionInvNext
<1>4. SafetyInv /\ SelectionInv /\ [Next]_vars
        => [Abstract!Next]_(Abstract!vars)
      BY RefineNext
<1>5. ImplementsAtomicAppend <=> Abstract!Init /\ [][Abstract!Next]_(Abstract!vars)
      BY DEF ImplementsAtomicAppend, Abstract!Spec
<1> QED BY <1>1, <1>2, <1>3, <1>4, <1>5, SafetyAlways, PTL DEF Spec

-----------------------------------------------------------------------------
(* The row count *)

\* Results that decoding accepts and that cover every logical task are one for
\* each logical task, so their row counts add up to the input rows.
LEMMA DecodedRowCount ==
  ASSUME NEW o \in Ops, NEW res \in ResultLists,
         CoversAllTasks(o, res), DecodeCommitResults(o, res)
  PROVE  RowsUpTo(res, Len(res)) = InputRows(o)
<1> DEFINE n == Len(res)
           f == [i \in 1..n |-> RowsOf(res[i].id)]
           b == [i \in 1..n |-> TaskOf(res[i].id)]
<1>1. n \in Nat /\ DOMAIN res = 1..n /\ res \in Seq(Result)
      BY ResultListIsSeq
<1>2. ASSUME NEW i \in 1..n
      PROVE  /\ TaskOf(res[i].id) \in Tasks /\ Owner(res[i].id) = o
             /\ RowsOf(res[i].id) = Rows[o][TaskOf(res[i].id)]
  <2>0. res[i] \in Result
        BY <1>1
  <2>1. res[i].id \in Attempt
        BY <2>0 DEF Result
  <2>2. Owner(res[i].id) = o
        BY <1>1 DEF DecodeCommitResults, RejectedAt
  <2> QED BY <2>1, <2>2, AttemptParts DEF RowsOf
<1>3. Rows[o] \in [Tasks -> Nat]
      BY TasksAssumption
<1>4. b \in [1..n -> Tasks] /\ f \in [1..n -> Int] /\ Rows[o] \in [Tasks -> Int]
      BY <1>2, <1>3
<1>5. \A x, y \in 1..n : b[x] = b[y] => x = y
      BY <1>1 DEF DecodeCommitResults, DuplicateLogicalTask
<1>6. \A z \in Tasks : \E x \in 1..n : z = b[x]
      BY <1>1 DEF CoversAllTasks
<1>7. \A x \in 1..n : Rows[o][b[x]] = f[x]
      BY <1>2
<1>8. IsFiniteSet(1..n)
      BY <1>1, FS_Interval
<1>9. IsFiniteSet(Tasks)
  <2>1. b \in Bijection(1..n, Tasks)
        BY <1>4, <1>5, <1>6
        DEF Bijection, Injection, Surjection, IsInjective
  <2> QED BY <1>8, <2>1, FS_Bijection DEF ExistsBijection
<1> HIDE DEF b, f
<1> DEFINE S == 1..n
           h == Rows[o]
<1> HIDE DEF S, h
<1>10. SumOf(h) = SumOf(f)
  <2>1. /\ b \in [S -> Tasks] /\ f \in [S -> Int] /\ h \in [Tasks -> Int]
        /\ \A x, y \in S : b[x] = b[y] => x = y
        /\ \A z \in Tasks : \E x \in S : z = b[x]
        /\ \A x \in S : h[b[x]] = f[x]
        /\ IsFiniteSet(S)
        BY <1>4, <1>5, <1>6, <1>7, <1>8 DEF S, h
  <2> QED BY <1>9, <2>1, SumReindex
<1> QED BY <1>10 DEF RowsUpTo, InputRows, f, h

\* The count that finalization will return, from decoding on.
CountInv ==
  \A o \in Ops : pc[o] \in {"decoded", "locked", "committing", "ok"} =>
    rows[o] = InputRows(o)

\* Only finalization sets the count; afterwards an operation is in one of these
\* positions only if it came from one.
LEMMA CountInvNext ==
  ASSUME TypeOK, CountInv, [Next]_vars
  PROVE  CountInv'
<1> DEFINE Counted == {"decoded", "locked", "committing", "ok"}
           Keeps == rows' = rows /\ \A o \in Ops : pc'[o] \in Counted => pc[o] \in Counted
<1>0. ASSUME Keeps PROVE CountInv'
      BY <1>0 DEF CountInv, InputRows
<1> USE DEF TypeOK
<1>1. ASSUME NEW o \in Ops, NEW res \in ResultLists, FinalizeDistributedWrite(o, res)
      PROVE  CountInv'
  <2>1. CASE DecodeCommitResults(o, res)
    <3>1. RowsUpTo(res, Len(res)) = InputRows(o)
          BY <1>1, <2>1, DecodedRowCount DEF FinalizeDistributedWrite
    <3>2. /\ rows' = [rows EXCEPT ![o] = InputRows(o)]
          /\ pc' = [pc EXCEPT ![o] = "decoded"]
          BY <1>1, <2>1, <3>1 DEF FinalizeDistributedWrite
    <3> QED BY <3>2 DEF CountInv, InputRows
  <2>2. CASE ~DecodeCommitResults(o, res)
    <3>1. rows' = rows /\ pc' = [pc EXCEPT ![o] = "failed"]
          BY <1>1, <2>2 DEF FinalizeDistributedWrite
    <3> QED BY <1>0, <3>1
  <2> QED BY <2>1, <2>2
<1>2. ASSUME NEW o \in Ops,
             \/ InitializeDistributedWrite(o) \/ ValidateDistributedWrite(o)
             \/ PrepareInsert(o) \/ PrepareCtasAbsent(o) \/ PrepareCtasCreate(o)
             \/ PrepareCtasCapture(o)
      PROVE  Keeps
      BY <1>2 DEF InitializeDistributedWrite, ValidateDistributedWrite, ValidateOrThrow,
         PrepareInsert, PrepareCtasAbsent, PrepareCtasCreate, PrepareCtasCapture
<1>3. ASSUME NEW o \in Ops,
             \/ FinalizeThrowsEarly(o) \/ FinalizeLock(o) \/ FinalizeEmpty(o)
             \/ FinalizeValidate(o) \/ FinalizeReject(o) \/ FinalizeAbort(o)
             \/ FilterAndCommit(o) \/ CommitWithoutEffect(o)
             \/ \E res \in ResultLists : AbortDistributedWrite(o, res)
      PROVE  Keeps
      BY <1>3 DEF FinalizeThrowsEarly, FinalizeLock, FinalizeEmpty, FinalizeValidate,
         FinalizeReject, FinalizeAbort, FilterAndCommit, CommitWithoutEffect,
         AbortDistributedWrite
<1>4. ASSUME NEW x \in Attempt, Worker(x) PROVE Keeps
      BY <1>4 DEF Worker, StartAttempt, WorkerCombine, WorkerFinalize, WorkerFailEarly,
         WorkerFailLate, coord
<1>5. ASSUME Others PROVE Keeps
      BY <1>5 DEF Others, CreateTable, DropTable, NativeCommit, ForeignCommit, coord
<1>6. ASSUME CoordinatorCrash PROVE Keeps
      BY <1>6 DEF CoordinatorCrash
<1>7. ASSUME UNCHANGED vars PROVE Keeps
      BY <1>7 DEF vars
<1> HIDE DEF Keeps, TypeOK
<1> QED BY <1>0, <1>1, <1>2, <1>3, <1>4, <1>5, <1>6, <1>7 DEF Next, Coordinator

\* A successful finalization returns the number of input rows, whichever
\* attempts were selected and however often results were delivered.
THEOREM CountsInputRows == Spec => []ReportedRowsAreInputRows
<1>1. Init => CountInv
      BY DEF Init, CountInv
<1>2. TypeOK /\ CountInv /\ [Next]_vars => CountInv'
      BY CountInvNext
<1>3. CountInv => ReportedRowsAreInputRows
      BY DEF CountInv, ReportedRowsAreInputRows
<1> QED BY <1>1, <1>2, <1>3, TypeCorrect, PTL DEF Spec

-----------------------------------------------------------------------------
(***************************************************************************)
(* TargetBaseline, for any number of tables, changes and validations.      *)
(* What a load read is in the order of the reads, because tables, schemas  *)
(* and snapshots only grow; so if the first and the last read agree,       *)
(* nothing has changed in between.                                         *)
(***************************************************************************)
Older(a, b) ==
  \/ a.inc < b.inc
  \/ a.inc = b.inc /\ a.ver <= b.ver /\ a.snap <= b.snap

InOrder(r) == Older(r.uuid, r.schema) /\ Older(r.schema, r.snap)

\* Reads of the running load, oldest first.
ReadsInv ==
  /\ reading = "uuid" => Older(read.uuid, current)
  /\ reading = "schema" => Older(read.uuid, read.schema) /\ Older(read.schema, current)
  /\ reading = "snapshots" => InOrder(read) /\ Older(read.snap, current)

\* The frozen reads are in order, older than a validation and of one table.
FrozenInv ==
  stage \in {"planned", "accepted"} =>
    /\ InOrder(baseline) /\ Older(baseline.snap, current)
    /\ uniqueUuid => baseline.uuid.inc = baseline.snap.inc
    /\ reading # "idle" => Older(baseline.snap, read.uuid)

AcceptInv ==
  /\ stage \in {"accepted", "failed"} => reading = "idle"
  /\ AcceptedFromOneTable
  /\ AcceptedWasCurrent

IInv == BaselineTypeOK /\ ReadsInv /\ FrozenInv /\ AcceptInv

-----------------------------------------------------------------------------
\* The states of the path are ordered in time.
LEMMA OlderTransitive ==
  ASSUME NEW a \in TableState, NEW b \in TableState, NEW c \in TableState,
         Older(a, b), Older(b, c)
  PROVE  Older(a, c)
BY DEF Older, TableState

\* A state is as old as itself.
LEMMA OlderReflexive == ASSUME NEW a \in TableState PROVE Older(a, a)
BY DEF Older, TableState

\* Other processes make the table newer.
LEMMA TableGrows ==
  ASSUME BaselineTypeOK, OtherCreates \/ OtherAlters \/ OtherCommits
  PROVE  current' \in TableState /\ Older(current, current')
<1>1. CASE OtherCreates
  BY <1>1 DEF BaselineTypeOK, OtherCreates, TableState, Older
<1>2. CASE OtherAlters
  BY <1>2 DEF BaselineTypeOK, OtherAlters, TableState, Older
<1>3. CASE OtherCommits
  BY <1>3 DEF BaselineTypeOK, OtherCommits, TableState, Older
<1> QED  BY <1>1, <1>2, <1>3

\* Nothing has been read at the start.
LEMMA InitInv == BaselineInit => IInv
BY BaselineAssumption
   DEF BaselineInit, IInv, BaselineTypeOK, ReadsInv, FrozenInv, AcceptInv, AcceptedFromOneTable,
       AcceptedWasCurrent, TableState, Read, NoRead, NoTable

\* Every step keeps the types.
LEMMA TypeStep == BaselineTypeOK /\ [BaselineNext]_baselineVars => BaselineTypeOK'
<1> SUFFICES ASSUME BaselineTypeOK, [BaselineNext]_baselineVars PROVE BaselineTypeOK'
  OBVIOUS
<1> USE BaselineAssumption DEF BaselineTypeOK, TableState, Read
<1>1. CASE LoadUuid
  BY <1>1 DEF LoadUuid
<1>2. CASE LoadSchema
  BY <1>2 DEF LoadSchema
<1>3. CASE LoadSnapshots
  BY <1>3 DEF LoadSnapshots
<1>4. CASE Resolve
  BY <1>4 DEF Resolve
<1>5. CASE Throw
  BY <1>5 DEF Throw
<1>6. CASE OtherDrops
  BY <1>6 DEF OtherDrops
<1>7. CASE OtherCreates
  BY <1>7 DEF OtherCreates
<1>8. CASE OtherAlters
  BY <1>8 DEF OtherAlters
<1>9. CASE OtherCommits
  BY <1>9 DEF OtherCommits
<1>10. CASE UNCHANGED baselineVars
  BY <1>10 DEF baselineVars
<1> QED
  BY <1>1, <1>2, <1>3, <1>4, <1>5, <1>6, <1>7, <1>8, <1>9, <1>10 DEF BaselineNext, Load

\* A validation that finds the same UUID at its end, and the frozen values in
\* its reads, met the frozen table when it read the schema.
LEMMA AcceptSound ==
  ASSUME IInv, Resolve, stage # "new", SameBaseline(baseline, read)
  PROVE  /\ baseline.snap.inc = read.schema.inc
         /\ read.snap.inc = read.schema.inc =>
              read.schema.ver = baseline.schema.ver /\ read.schema.snap = baseline.snap.snap
         /\ uniqueUuid => read.schema = [inc |-> baseline.uuid.inc, ver |-> baseline.schema.ver,
                                         snap |-> baseline.snap.snap]
<1>1. /\ reading = "snapshots" /\ stage = "planned"
      /\ current \in TableState /\ read \in Read /\ baseline \in Read
      /\ Uuid(current) = Uuid(read.uuid)
  BY DEF IInv, AcceptInv, BaselineTypeOK, Resolve, NotReplaced
<1>2. /\ InOrder(baseline) /\ InOrder(read)
      /\ Older(baseline.snap, read.uuid) /\ Older(read.snap, current)
      /\ uniqueUuid => baseline.uuid.inc = baseline.snap.inc
  BY <1>1 DEF IInv, ReadsInv, FrozenInv
<1>3. SchemaJson(baseline.schema) = SchemaJson(read.schema)
  BY DEF SameBaseline
<1>4. baseline.schema.inc = read.schema.inc /\ baseline.schema.ver = read.schema.ver
  BY <1>3 DEF SchemaJson
<1>5. baseline.schema.inc = baseline.snap.inc
  BY <1>1, <1>2, <1>4 DEF InOrder, Older, Read, TableState
<1>6. ASSUME read.snap.inc = read.schema.inc
      PROVE  read.schema.snap = baseline.snap.snap
  <2>1. baseline.snap.snap = read.snap.snap
    BY DEF SameBaseline
  <2>2. Older(baseline.snap, read.schema)
    BY <1>1, <1>2, OlderTransitive DEF InOrder, Read
  <2>3. baseline.snap.snap <= read.schema.snap
    BY <1>1, <1>4, <1>5, <2>2 DEF Older, Read, TableState
  <2>4. read.schema.snap <= read.snap.snap
    BY <1>1, <1>2, <1>6 DEF InOrder, Older, Read, TableState
  <2> QED  BY <1>1, <2>1, <2>3, <2>4 DEF Read, TableState
<1>7. ASSUME uniqueUuid
      PROVE  read.schema = [inc |-> baseline.uuid.inc, ver |-> baseline.schema.ver,
                            snap |-> baseline.snap.snap]
  <2>1. current.inc = read.uuid.inc
    BY <1>1, <1>7 DEF Uuid
  <2>2. read.snap.inc = read.schema.inc
    BY <1>1, <1>2, <2>1 DEF InOrder, Older, Read, TableState
  <2>3. read.schema.inc = baseline.uuid.inc
    BY <1>2, <1>4, <1>5, <1>7
  <2> QED  BY <1>1, <1>4, <1>6, <2>2, <2>3 DEF Read, TableState
<1> QED  BY <1>4, <1>5, <1>6, <1>7

\* The reads of a running LoadTargetState stay in the order they were made.
LEMMA ReadsStep == IInv /\ [BaselineNext]_baselineVars => ReadsInv'
<1> SUFFICES ASSUME IInv, [BaselineNext]_baselineVars PROVE ReadsInv'
  OBVIOUS
<1>t. BaselineTypeOK /\ BaselineTypeOK' /\ ReadsInv
  BY TypeStep DEF IInv
<1> USE <1>t DEF BaselineTypeOK, Read
<1>1. CASE LoadUuid
  BY <1>1, OlderReflexive DEF LoadUuid, ReadsInv
<1>2. CASE LoadSchema
  BY <1>2, OlderReflexive DEF LoadSchema, ReadsInv
<1>3. CASE LoadSnapshots
  BY <1>3, OlderReflexive DEF LoadSnapshots, ReadsInv, InOrder
<1>4. CASE Resolve \/ Throw
  BY <1>4 DEF Resolve, Throw, ReadsInv
<1>5. CASE OtherDrops
  BY <1>5 DEF OtherDrops, ReadsInv, InOrder
<1>6. CASE OtherCreates \/ OtherAlters \/ OtherCommits
  <2>1. reading' = reading /\ read' = read
    BY <1>6 DEF OtherCreates, OtherAlters, OtherCommits
  <2>2. Older(current, current')
    BY <1>6, TableGrows
  <2> QED  BY <2>1, <2>2, OlderTransitive DEF ReadsInv, InOrder
<1>7. CASE UNCHANGED baselineVars
  BY <1>7 DEF baselineVars, ReadsInv, InOrder
<1> QED  BY <1>1, <1>2, <1>3, <1>4, <1>5, <1>6, <1>7 DEF BaselineNext, Load

\* What is frozen is a finished LoadTargetState, and stays as it was read.
LEMMA FrozenStep == IInv /\ [BaselineNext]_baselineVars => FrozenInv'
<1> SUFFICES ASSUME IInv, [BaselineNext]_baselineVars PROVE FrozenInv'
  OBVIOUS
<1>t. BaselineTypeOK /\ BaselineTypeOK' /\ ReadsInv /\ FrozenInv /\ AcceptInv
  BY TypeStep DEF IInv
<1>1. CASE LoadUuid
  BY <1>1, <1>t DEF LoadUuid, FrozenInv, AcceptInv, BaselineTypeOK, InOrder
<1>2. CASE LoadSchema \/ LoadSnapshots
  BY <1>2, <1>t DEF LoadSchema, LoadSnapshots, FrozenInv, BaselineTypeOK, Read, InOrder
<1>3. CASE Resolve
  <2>1. CASE stage = "new"
    <3>1. /\ baseline' = read /\ reading' = "idle"
          /\ current' = current /\ uniqueUuid' = uniqueUuid
      BY <1>3, <2>1 DEF Resolve
    <3>2. InOrder(read) /\ Older(read.snap, current)
      BY <1>3, <1>t DEF Resolve, ReadsInv
    <3>3. uniqueUuid => read.uuid.inc = read.snap.inc
      BY <1>3, <1>t, <3>2
         DEF Resolve, NotReplaced, Uuid, InOrder, Older, BaselineTypeOK, Read, TableState
    <3> QED  BY <3>1, <3>2, <3>3 DEF FrozenInv, InOrder
  <2>2. CASE stage # "new"
    BY <1>3, <1>t, <2>2 DEF Resolve, FrozenInv, AcceptInv, BaselineTypeOK, InOrder
  <2> QED  BY <2>1, <2>2
<1>4. CASE Throw
  BY <1>4 DEF Throw, FrozenInv
<1>5. CASE OtherDrops
  BY <1>5, <1>t DEF OtherDrops, FrozenInv, InOrder
<1>6. CASE OtherCreates \/ OtherAlters \/ OtherCommits
  <2>1. /\ stage' = stage /\ baseline' = baseline /\ reading' = reading /\ read' = read
        /\ uniqueUuid' = uniqueUuid
    BY <1>6 DEF OtherCreates, OtherAlters, OtherCommits
  <2>2. Older(current, current') /\ current' \in TableState
    BY <1>6, <1>t, TableGrows
  <2> QED  BY <1>t, <2>1, <2>2, OlderTransitive DEF FrozenInv, InOrder, BaselineTypeOK, Read
<1>7. CASE UNCHANGED baselineVars
  BY <1>7, <1>t DEF baselineVars, FrozenInv, InOrder
<1> QED  BY <1>1, <1>2, <1>3, <1>4, <1>5, <1>6, <1>7 DEF BaselineNext, Load

\* Only a finished validation accepts, and a new one starts over.
LEMMA AcceptStep == IInv /\ [BaselineNext]_baselineVars => AcceptInv'
<1> SUFFICES ASSUME IInv, [BaselineNext]_baselineVars PROVE AcceptInv'
  OBVIOUS
<1>t. BaselineTypeOK /\ AcceptInv
  BY DEF IInv
<1> USE DEF AcceptInv, AcceptedFromOneTable, AcceptedWasCurrent
<1>1. CASE LoadUuid
  BY <1>1, <1>t DEF LoadUuid, BaselineTypeOK
<1>2. CASE LoadSchema \/ LoadSnapshots
  BY <1>2, <1>t DEF LoadSchema, LoadSnapshots, BaselineTypeOK
<1>3. CASE Resolve
  <2>1. CASE stage # "new" /\ SameBaseline(baseline, read)
    <3>1. /\ baseline' = baseline /\ read' = read /\ reading' = "idle"
          /\ uniqueUuid' = uniqueUuid
      BY <1>3, <2>1 DEF Resolve
    <3> QED  BY <1>3, <2>1, <3>1, AcceptSound
  <2>2. CASE ~(stage # "new" /\ SameBaseline(baseline, read))
    BY <1>3, <2>2 DEF Resolve
  <2> QED  BY <2>1, <2>2
<1>4. CASE Throw
  BY <1>4 DEF Throw
<1>5. CASE OtherDrops \/ OtherCreates \/ OtherAlters \/ OtherCommits
  BY <1>5, <1>t DEF OtherDrops, OtherCreates, OtherAlters, OtherCommits
<1>6. CASE UNCHANGED baselineVars
  BY <1>6, <1>t DEF baselineVars
<1> QED  BY <1>1, <1>2, <1>3, <1>4, <1>5, <1>6 DEF BaselineNext, Load

\* The parts together are inductive.
LEMMA Inductive == IInv /\ [BaselineNext]_baselineVars => IInv'
BY TypeStep, ReadsStep, FrozenStep, AcceptStep DEF IInv

\* The invariant holds throughout.
LEMMA Invariance == BaselineSpec => []IInv
BY InitInv, Inductive, PTL DEF BaselineSpec

-----------------------------------------------------------------------------
\* LoadTargetState freezes what it read from one table, if UUIDs are unique.
THEOREM FrozenIsOneTable == BaselineSpec => []FrozenFromOneTable
<1>1. IInv => FrozenFromOneTable
  BY DEF IInv, BaselineTypeOK, FrozenInv, FrozenFromOneTable, InOrder, Older, Read, TableState
<1> QED  BY <1>1, Invariance, PTL

\* ValidateTargetBaseline accepts only a snapshot of the table whose schema it
\* read, unchanged unless the table was replaced in between, UUIDs or not.
THEOREM AcceptedIsOneTable == BaselineSpec => []AcceptedFromOneTable
<1>1. IInv => AcceptedFromOneTable
  BY DEF IInv, AcceptInv
<1> QED  BY <1>1, Invariance, PTL

\* With unique UUIDs a validation of several reads accepts only a table that
\* an atomic one would have accepted at the moment the schema was read.
THEOREM ValidationIsAtomic == BaselineSpec => []AcceptedWasCurrent
<1>1. IInv => AcceptedWasCurrent
  BY DEF IInv, AcceptInv
<1> QED  BY <1>1, Invariance, PTL
=============================================================================
