----------------------- MODULE VarulabSchedulerProofs -----------------------
(* Theorems about VarulabScheduler, for any runs, files, slots and lives.  *)
EXTENDS VarulabScheduler, TLAPS

(* The parts of the state that belong to a goroutine are set exactly while *)
(* it needs them, and a program that is down has none.                     *)
ProcInv ==
  /\ loop = "holding" <=> held # None
  /\ \A k \in Slots : Busy(k) <=> runOf[k] # None
  /\ main = "down" => loop = "none" /\ \A k \in Slots : ~Busy(k)

(* What the rows of the runs in somebody's hands say; once Stop has waited *)
(* its reset may have made them pending.                                   *)
Late == main \in {"waited", "reset"}

RowInv ==
  /\ loop = "holding" => status[held] = "claimed" \/ (Late /\ status[held] = "pending")
  /\ \A k \in Slots :
       /\ work[k] = "starting" =>
            status[runOf[k]] = "claimed" \/ (Late /\ status[runOf[k]] = "pending")
       /\ work[k] \in {"executing", "result", "noResult", "killed"} =>
            status[runOf[k]] = "running" \/ (Late /\ status[runOf[k]] = "pending")
       /\ work[k] = "recorded" => status[runOf[k]] \in Final

(* After the wait one run may still be dispatched, and then the loop has   *)
(* ended or is about to.                                                   *)
LateInv ==
  Late => /\ loop \in {"picking", "idle", "holding"} => \A k \in Slots : ~Busy(k)
          /\ \A j, k \in Slots : Busy(j) /\ Busy(k) => j = k

IInv == TypeOK /\ ProcInv /\ RowInv /\ LateInv /\ OneExecutor /\ NoRunIsForgotten

-----------------------------------------------------------------------------
(* Statements of SQL touch no row that has ended, and leave none claimed. *)

LEMMA ResetRows ==
  ASSUME NEW s \in [Runs -> Statuses]
  PROVE  /\ Reset(s) \in [Runs -> Statuses]
         /\ \A r \in Runs : /\ s[r] \in Final => Reset(s)[r] = s[r]
                            /\ s[r] \in {"claimed", "running"} => Reset(s)[r] = "pending"
                            /\ s[r] = "pending" => Reset(s)[r] = "pending"
                            /\ Reset(s)[r] \notin {"claimed", "running"}
  BY DEF Reset, Statuses, Final

LEMMA GeneratedRows ==
  ASSUME NEW s \in [Runs -> Statuses]
  PROVE  /\ GenerateRuns(s) \in [Runs -> Statuses]
         /\ \A r \in Runs : /\ s[r] # "absent" => GenerateRuns(s)[r] = s[r]
                            /\ GenerateRuns(s)[r] \in {"claimed", "running"} =>
                                 GenerateRuns(s)[r] = s[r]
  BY DEF GenerateRuns, Statuses

-----------------------------------------------------------------------------

LEMMA TypeNext == TypeOK /\ ProcInv /\ [Next]_vars => TypeOK'
<1> SUFFICES ASSUME TypeOK, ProcInv, [Next]_vars PROVE TypeOK'
  OBVIOUS
<1> USE SchedulerAssumption
<1>1. CASE Start
  <2>1. status' \in [Runs -> Statuses]
    BY <1>1, ResetRows, GeneratedRows DEF TypeOK, Start
  <2>2. lives' \in 0..MaxLives
    <3>1. lives \in Nat /\ MaxLives \in Nat
      BY DEF TypeOK
    <3> QED
      BY <1>1, <3>1 DEF Start
  <2> HIDE SchedulerAssumption
  <2> QED
    BY <1>1, <2>1, <2>2 DEF TypeOK, Start
<1>2. CASE Stop \/ Wait
  BY <1>2 DEF TypeOK, Stop, Wait, history
<1>3. CASE StopResets
  BY <1>3, ResetRows DEF TypeOK, StopResets, history
<1>4. CASE Exit \/ Crash
  BY <1>4 DEF TypeOK, Exit, Crash, Ends
<1>5. CASE LoopTop \/ Wake \/ GiveUp
  BY <1>5 DEF TypeOK, LoopTop, Wake, GiveUp, history
<1>6. CASE PickNext
  BY <1>6 DEF TypeOK, PickNext, Candidates, Pending, Statuses, history
<1>7. ASSUME NEW k \in Slots, Dispatch(k) PROVE TypeOK'
  BY <1>7 DEF TypeOK, Dispatch, history
<1>8. ASSUME NEW k \in Slots, ExecuteRun(k) PROVE TypeOK'
  <2>1. CASE Begin(k)
    BY <2>1 DEF TypeOK, Begin, Statuses, history
  <2>2. CASE Finish(k) \/ Kill(k)
    BY <2>2 DEF TypeOK, Finish, Kill, ProcInv, Busy, history
  <2>3. CASE Record(k)
    BY <2>3 DEF TypeOK, Record, Statuses, history
  <2>4. CASE Release(k)
    BY <2>4 DEF TypeOK, Release, history
  <2> QED
    BY <1>8, <2>1, <2>2, <2>3, <2>4 DEF ExecuteRun
<1>9. ASSUME NEW f \in Files, PlaceFile(f) \/ Download(f) PROVE TypeOK'
  BY <1>9 DEF TypeOK, PlaceFile, Download, history
<1>10. ASSUME NEW g \in Generators, InsertRuns(g) \/ NotifyScheduler(g) PROVE TypeOK'
  BY <1>10, GeneratedRows DEF TypeOK, InsertRuns, NotifyScheduler, history
<1>11. CASE UNCHANGED vars
  BY <1>11 DEF TypeOK, vars, history
<1> QED
  BY <1>1, <1>2, <1>3, <1>4, <1>5, <1>6, <1>7, <1>8, <1>9, <1>10, <1>11
  DEF Next, Run

LEMMA ProcNext == TypeOK /\ ProcInv /\ [Next]_vars => ProcInv'
<1> SUFFICES ASSUME TypeOK, ProcInv, [Next]_vars PROVE ProcInv'
  OBVIOUS
<1>0. None \notin Runs
  BY SchedulerAssumption
<1>1. CASE Start \/ Stop \/ Wait \/ StopResets
  BY <1>1 DEF ProcInv, Start, Stop, Wait, StopResets, Busy
<1>2. CASE Exit \/ Crash
  BY <1>2 DEF ProcInv, Exit, Crash, Ends, Busy
<1>3. CASE LoopTop \/ Wake \/ GiveUp
  BY <1>3 DEF ProcInv, TypeOK, LoopTop, Wake, GiveUp, Busy
<1>4. CASE PickNext
  BY <1>0, <1>4 DEF ProcInv, PickNext, Candidates, Pending, Busy
<1>5. ASSUME NEW k \in Slots, Dispatch(k) PROVE ProcInv'
  BY <1>5 DEF ProcInv, TypeOK, Dispatch, Busy
<1>6. ASSUME NEW k \in Slots, ExecuteRun(k) PROVE ProcInv'
  <2>1. CASE Begin(k) \/ Finish(k) \/ Kill(k) \/ Record(k)
    BY <2>1 DEF ProcInv, TypeOK, Begin, Finish, Kill, Record, Busy
  <2>2. CASE Release(k)
    BY <2>2 DEF ProcInv, TypeOK, Release, Busy
  <2> QED
    BY <1>6, <2>1, <2>2 DEF ExecuteRun
<1>7. ASSUME NEW f \in Files, PlaceFile(f) \/ Download(f) PROVE ProcInv'
  BY <1>7 DEF ProcInv, PlaceFile, Download, Busy
<1>8. ASSUME NEW g \in Generators, InsertRuns(g) \/ NotifyScheduler(g) PROVE ProcInv'
  BY <1>8 DEF ProcInv, InsertRuns, NotifyScheduler, Busy
<1>9. CASE UNCHANGED vars
  BY <1>9 DEF ProcInv, Busy, vars
<1> QED
  BY <1>1, <1>2, <1>3, <1>4, <1>5, <1>6, <1>7, <1>8, <1>9 DEF Next, Run

LEMMA LateNext == IInv /\ [Next]_vars => LateInv'
<1> SUFFICES ASSUME IInv, [Next]_vars PROVE LateInv'
  OBVIOUS
<1> USE DEF LateInv, Late
<1>1. CASE Start \/ Stop \/ Exit \/ Crash
  BY <1>1 DEF Start, Stop, Exit, Crash, Ends
<1>2. CASE Wait \/ StopResets
  BY <1>2 DEF IInv, Wait, StopResets, Busy
<1>3. CASE LoopTop \/ Wake \/ GiveUp
  BY <1>3 DEF IInv, LoopTop, Wake, GiveUp, Busy, Cancelled
<1>4. CASE PickNext
  BY <1>4 DEF IInv, PickNext, Busy
<1>5. ASSUME NEW k \in Slots, Dispatch(k) PROVE LateInv'
  BY <1>5 DEF IInv, TypeOK, Dispatch, Busy
<1>6. ASSUME NEW k \in Slots, ExecuteRun(k) PROVE LateInv'
  <2>1. \A j \in Slots : Busy(j)' => Busy(j)
    BY <1>6 DEF IInv, TypeOK, ExecuteRun, Begin, Finish, Kill, Record, Release, Busy
  <2>2. UNCHANGED <<main, loop>>
    BY <1>6 DEF ExecuteRun, Begin, Finish, Kill, Record, Release
  <2> QED
    BY <2>1, <2>2 DEF IInv
<1>7. ASSUME NEW f \in Files, PlaceFile(f) \/ Download(f) PROVE LateInv'
  BY <1>7 DEF IInv, PlaceFile, Download, Busy
<1>8. ASSUME NEW g \in Generators, InsertRuns(g) \/ NotifyScheduler(g) PROVE LateInv'
  BY <1>8 DEF IInv, InsertRuns, NotifyScheduler, Busy
<1>9. CASE UNCHANGED vars
  BY <1>9 DEF IInv, Busy, vars
<1> QED
  BY <1>1, <1>2, <1>3, <1>4, <1>5, <1>6, <1>7, <1>8, <1>9 DEF Next, Run

(* A busy slot has a run, and not the one the loop holds or another has. *)
LEMMA BusyRuns ==
  ASSUME TypeOK, ProcInv, NEW k \in Slots, Busy(k)
  PROVE  runOf[k] \in Runs
  BY DEF TypeOK, ProcInv

LEMMA HeldRun ==
  ASSUME TypeOK, ProcInv, loop = "holding"
  PROVE  held \in Runs
  BY DEF TypeOK, ProcInv

LEMMA OneExecutorNext == IInv /\ [Next]_vars => OneExecutor'
<1> SUFFICES ASSUME IInv, [Next]_vars PROVE OneExecutor'
  OBVIOUS
<1> USE DEF OneExecutor
<1>1. CASE Start \/ Stop \/ Wait \/ StopResets
  BY <1>1 DEF IInv, Start, Stop, Wait, StopResets, Busy
<1>2. CASE Exit \/ Crash
  BY <1>2 DEF Exit, Crash, Ends, Busy
<1>3. CASE LoopTop \/ Wake \/ GiveUp
  BY <1>3 DEF IInv, LoopTop, Wake, GiveUp, Busy
<1>4. CASE PickNext
  <2>1. ASSUME NEW k \in Slots, Busy(k) PROVE status[runOf[k]] # "pending"
    BY <1>4, <2>1 DEF IInv, TypeOK, PickNext, LateInv, RowInv, Busy, Final
  <2>2. loop' = "holding" => status[held'] = "pending"
    BY <1>4 DEF PickNext, Candidates, Pending
  <2> QED
    BY <1>4, <2>1, <2>2 DEF IInv, PickNext, Busy
<1>5. ASSUME NEW k \in Slots, Dispatch(k) PROVE OneExecutor'
  BY <1>5 DEF IInv, TypeOK, Dispatch, Busy
<1>6. ASSUME NEW k \in Slots, ExecuteRun(k) PROVE OneExecutor'
  <2>1. \A j \in Slots : Busy(j)' => Busy(j) /\ runOf'[j] = runOf[j]
    BY <1>6 DEF IInv, TypeOK, ExecuteRun, Begin, Finish, Kill, Record, Release, Busy
  <2>2. UNCHANGED <<loop, held>>
    BY <1>6 DEF ExecuteRun, Begin, Finish, Kill, Record, Release
  <2> QED
    BY <2>1, <2>2 DEF IInv
<1>7. ASSUME NEW f \in Files, PlaceFile(f) \/ Download(f) PROVE OneExecutor'
  BY <1>7 DEF IInv, PlaceFile, Download, Busy
<1>8. ASSUME NEW g \in Generators, InsertRuns(g) \/ NotifyScheduler(g)
      PROVE  OneExecutor'
  BY <1>8 DEF IInv, InsertRuns, NotifyScheduler, Busy
<1>9. CASE UNCHANGED vars
  BY <1>9 DEF IInv, Busy, vars
<1> QED
  BY <1>1, <1>2, <1>3, <1>4, <1>5, <1>6, <1>7, <1>8, <1>9 DEF Next, Run

(* A change of other rows than those in somebody's hands keeps RowInv. *)
LEMMA RowsKept ==
  ASSUME IInv, UNCHANGED <<main, work, runOf>>,
         loop' = "holding" => loop = "holding" /\ held' = held,
         \A r \in Runs : status[r] # "absent" => status'[r] = status[r]
  PROVE  RowInv'
<1>1. \A k \in Slots : Busy(k) => runOf[k] \in Runs
  BY BusyRuns DEF IInv
<1>2. loop = "holding" => held \in Runs
  BY HeldRun DEF IInv
<1> QED
  BY <1>1, <1>2 DEF IInv, RowInv, Late, Busy, Final

LEMMA RowNext == IInv /\ [Next]_vars => RowInv'
<1> SUFFICES ASSUME IInv, [Next]_vars PROVE RowInv'
  OBVIOUS
<1>a. \A k \in Slots : Busy(k) => runOf[k] \in Runs
  BY BusyRuns DEF IInv
<1>b. loop = "holding" => held \in Runs
  BY HeldRun DEF IInv
<1>1. CASE Start
  BY <1>1 DEF IInv, ProcInv, RowInv, Start, Busy
<1>2. CASE Stop \/ Wait
  BY <1>2 DEF IInv, RowInv, Late, Stop, Wait
<1>3. CASE StopResets
  <2>1. \A r \in Runs : /\ status[r] \in Final => status'[r] = status[r]
                        /\ status[r] \in {"claimed", "running", "pending"} =>
                             status'[r] = "pending"
    BY <1>3, ResetRows DEF IInv, TypeOK, StopResets
  <2> QED
    BY <1>3, <1>a, <1>b, <2>1 DEF IInv, RowInv, Late, StopResets, Busy
<1>4. CASE Exit \/ Crash
  BY <1>4 DEF RowInv, Exit, Crash, Ends
<1>5. CASE LoopTop \/ Wake \/ GiveUp
  BY <1>5, RowsKept DEF LoopTop, Wake, GiveUp
<1>6. CASE PickNext
  <2>1. CASE Pending = {} /\ loop' = "idle" /\ UNCHANGED <<status, held>>
    BY <1>6, <2>1, RowsKept DEF PickNext
  <2>2. ASSUME NEW r \in Runs, status[r] = "pending",
               status' = [status EXCEPT ![r] = "claimed"], held' = r
        PROVE  RowInv'
    <3>1. ASSUME NEW k \in Slots, Busy(k) PROVE status'[runOf[k]] = status[runOf[k]]
      <4>1. status[runOf[k]] # "pending"
        BY <1>6, <3>1 DEF IInv, TypeOK, PickNext, LateInv, RowInv, Busy, Final
      <4> QED
        BY <2>2, <4>1, <1>a, <3>1 DEF IInv, TypeOK
    <3>2. status'[held'] = "claimed"
      BY <2>2 DEF IInv, TypeOK
    <3>3. UNCHANGED <<main, work, runOf>>
      BY <1>6 DEF PickNext
    <3> QED
      BY <3>1, <3>2, <3>3 DEF IInv, RowInv, Late, Busy
  <2> QED
    BY <1>6, <2>1, <2>2 DEF PickNext, Candidates, Pending
<1>7. ASSUME NEW k \in Slots, Dispatch(k) PROVE RowInv'
  BY <1>7 DEF IInv, TypeOK, RowInv, Late, Dispatch
<1>8. ASSUME NEW k \in Slots, ExecuteRun(k) PROVE RowInv'
  <2>1. Busy(k) /\ UNCHANGED <<main, loop, held>>
    BY <1>8 DEF ExecuteRun, Begin, Finish, Kill, Record, Release, Busy
  <2>2. \A r \in Runs : r # runOf[k] => status'[r] = status[r]
    BY <1>8 DEF IInv, TypeOK, ExecuteRun, Begin, Finish, Kill, Record, Release
  <2>3. loop = "holding" => status'[held] = status[held]
    BY <1>b, <2>1, <2>2 DEF IInv, OneExecutor
  <2>4. ASSUME NEW j \in Slots \ {k}, Busy(j)
        PROVE  work'[j] = work[j] /\ runOf'[j] = runOf[j]
               /\ status'[runOf[j]] = status[runOf[j]]
    <3>1. runOf[j] \in Runs /\ runOf[j] # runOf[k]
      BY <1>a, <2>1, <2>4 DEF IInv, OneExecutor
    <3>2. work'[j] = work[j] /\ runOf'[j] = runOf[j]
      BY <1>8 DEF IInv, TypeOK, ExecuteRun, Begin, Finish, Kill, Record, Release
    <3> QED
      BY <2>2, <3>1, <3>2
  <2>5. \A j \in Slots \ {k} : ~Busy(j) => work'[j] = work[j]
    BY <1>8 DEF IInv, TypeOK, ExecuteRun, Begin, Finish, Kill, Record, Release
  <2>6. /\ work'[k] = "starting" => FALSE
        /\ work'[k] \in {"executing", "result", "noResult", "killed"} =>
             /\ runOf'[k] = runOf[k]
             /\ status'[runOf[k]] = "running" \/ (Late /\ status'[runOf[k]] = "pending")
        /\ work'[k] = "recorded" => runOf'[k] = runOf[k] /\ status'[runOf[k]] \in Final
    <3>1. CASE Begin(k)
      BY <1>a, <2>1, <3>1 DEF IInv, TypeOK, Begin
    <3>2. CASE Finish(k) \/ Kill(k)
      BY <3>2 DEF IInv, TypeOK, RowInv, Finish, Kill
    <3>3. CASE Record(k)
      BY <1>a, <2>1, <3>3 DEF IInv, TypeOK, Record, Final
    <3>4. CASE Release(k)
      BY <3>4 DEF IInv, TypeOK, Release
    <3> QED
      BY <1>8, <3>1, <3>2, <3>3, <3>4 DEF ExecuteRun
  <2>7. loop' = "holding" =>
          status'[held'] = "claimed" \/ (Late' /\ status'[held'] = "pending")
    BY <2>1, <2>3 DEF IInv, RowInv, Late
  <2>8. ASSUME NEW j \in Slots
        PROVE  /\ work'[j] = "starting" => status'[runOf'[j]] = "claimed"
                                           \/ (Late' /\ status'[runOf'[j]] = "pending")
               /\ work'[j] \in {"executing", "result", "noResult", "killed"} =>
                    status'[runOf'[j]] = "running"
                    \/ (Late' /\ status'[runOf'[j]] = "pending")
               /\ work'[j] = "recorded" => status'[runOf'[j]] \in Final
    <3>1. CASE j = k
      BY <2>1, <2>6, <3>1 DEF Late
    <3>2. CASE j # k /\ Busy(j)
      BY <2>1, <2>4, <3>2 DEF IInv, RowInv, Late
    <3>3. CASE j # k /\ ~Busy(j)
      BY <2>5, <3>3 DEF Busy
    <3> QED
      BY <3>1, <3>2, <3>3
  <2> QED
    BY <2>7, <2>8 DEF RowInv
<1>9. ASSUME NEW f \in Files, PlaceFile(f) \/ Download(f) PROVE RowInv'
  BY <1>9, RowsKept DEF PlaceFile, Download
<1>10. ASSUME NEW g \in Generators, InsertRuns(g) \/ NotifyScheduler(g) PROVE RowInv'
  <2>1. \A r \in Runs : status[r] # "absent" => status'[r] = status[r]
    BY <1>10, GeneratedRows DEF IInv, TypeOK, InsertRuns, NotifyScheduler
  <2> QED
    BY <1>10, <2>1, RowsKept DEF InsertRuns, NotifyScheduler
<1>11. CASE UNCHANGED vars
  BY <1>11, RowsKept DEF vars
<1> QED
  BY <1>1, <1>2, <1>3, <1>4, <1>5, <1>6, <1>7, <1>8, <1>9, <1>10, <1>11 DEF Next, Run

LEMMA ForgottenNext == IInv /\ [Next]_vars => NoRunIsForgotten'
<1> SUFFICES ASSUME IInv, [Next]_vars PROVE NoRunIsForgotten'
  OBVIOUS
<1> USE DEF NoRunIsForgotten, Executed
<1>1. CASE Start
  <2>1. \A r \in Runs : status'[r] \notin {"claimed", "running"}
    <3>1. Reset(status) \in [Runs -> Statuses]
          /\ \A r \in Runs : Reset(status)[r] \notin {"claimed", "running"}
      BY ResetRows DEF IInv, TypeOK
    <3>2. \A r \in Runs : GenerateRuns(Reset(status))[r] \in {"claimed", "running"} =>
                          GenerateRuns(Reset(status))[r] = Reset(status)[r]
      BY <3>1, GeneratedRows
    <3> QED
      BY <1>1, <3>1, <3>2 DEF Start
  <2> QED
    BY <2>1
<1>2. CASE Stop \/ Wait \/ StopResets \/ Exit \/ Crash
  BY <1>2 DEF Stop, Wait, StopResets, Exit, Crash, Ends
<1>3. CASE LoopTop \/ Wake \/ GiveUp
  BY <1>3 DEF IInv, LoopTop, Wake, GiveUp, Cancelled, Busy
<1>4. CASE PickNext
  <2>1. CASE Pending = {} /\ loop' = "idle" /\ UNCHANGED <<status, held>>
    BY <1>4, <2>1 DEF IInv, PickNext, Busy
  <2>2. ASSUME NEW r \in Runs, status' = [status EXCEPT ![r] = "claimed"],
               held' = r, loop' = "holding"
        PROVE  NoRunIsForgotten'
    <3>1. \A q \in Runs : q # r => status'[q] = status[q]
      BY <2>2 DEF IInv, TypeOK
    <3>2. loop # "holding" /\ UNCHANGED <<main, work, runOf>>
      BY <1>4 DEF PickNext
    <3> QED
      BY <2>2, <3>1, <3>2 DEF IInv, Busy
  <2> QED
    BY <1>4, <2>1, <2>2 DEF PickNext, Candidates, Pending
<1>5. ASSUME NEW k \in Slots, Dispatch(k) PROVE NoRunIsForgotten'
  <2>1. \A j \in Slots : Busy(j) => Busy(j)' /\ runOf'[j] = runOf[j]
    BY <1>5 DEF IInv, TypeOK, Dispatch, Busy
  <2>2. Busy(k)' /\ runOf'[k] = held
    BY <1>5 DEF IInv, TypeOK, Dispatch, Busy
  <2>3. UNCHANGED <<main, status>>
    BY <1>5 DEF Dispatch
  <2> QED
    BY <2>1, <2>2, <2>3 DEF IInv
<1>6. ASSUME NEW k \in Slots, ExecuteRun(k) PROVE NoRunIsForgotten'
  <2>1. UNCHANGED <<main, loop, held>>
    BY <1>6 DEF ExecuteRun, Begin, Finish, Kill, Record, Release
  <2>2. CASE Release(k)
    <3>1. status[runOf[k]] \in Final
      BY <2>2 DEF IInv, RowInv, Release
    <3>2. UNCHANGED status
      BY <2>2 DEF Release
    <3>3. \A j \in Slots \ {k} : Busy(j) => Busy(j)' /\ runOf'[j] = runOf[j]
      BY <2>2 DEF IInv, TypeOK, Release, Busy
    <3> QED
      BY <2>1, <3>1, <3>2, <3>3 DEF IInv, Final
  <2>3. CASE Begin(k) \/ Finish(k) \/ Kill(k) \/ Record(k)
    <3>1. \A j \in Slots : Busy(j) => Busy(j)' /\ runOf'[j] = runOf[j]
      BY <2>3 DEF IInv, TypeOK, Begin, Finish, Kill, Record, Busy
    <3>2. Busy(k)
      BY <2>3 DEF Begin, Finish, Kill, Record, Busy
    <3>3. \A r \in Runs : r # runOf[k] => status'[r] = status[r]
      BY <2>3 DEF IInv, TypeOK, Begin, Finish, Kill, Record
    <3> QED
      BY <2>1, <3>1, <3>2, <3>3 DEF IInv
  <2> QED
    BY <1>6, <2>2, <2>3 DEF ExecuteRun
<1>7. ASSUME NEW f \in Files, PlaceFile(f) \/ Download(f) PROVE NoRunIsForgotten'
  BY <1>7 DEF IInv, PlaceFile, Download, Busy
<1>8. ASSUME NEW g \in Generators, InsertRuns(g) \/ NotifyScheduler(g)
      PROVE  NoRunIsForgotten'
  <2>1. \A r \in Runs : status'[r] \in {"claimed", "running"} => status'[r] = status[r]
    BY <1>8, GeneratedRows DEF IInv, TypeOK, InsertRuns, NotifyScheduler
  <2>2. UNCHANGED <<main, loop, held, work, runOf>>
    BY <1>8 DEF InsertRuns, NotifyScheduler
  <2> QED
    BY <2>1, <2>2 DEF IInv, Busy
<1>9. CASE UNCHANGED vars
  BY <1>9 DEF IInv, Busy, vars
<1> QED
  BY <1>1, <1>2, <1>3, <1>4, <1>5, <1>6, <1>7, <1>8, <1>9 DEF Next, Run

-----------------------------------------------------------------------------
(* The theorems. *)

LEMMA InitInv == Init => IInv
<1> SUFFICES ASSUME Init PROVE IInv
  OBVIOUS
<1>1. TypeOK
  <2>1. 0 \in 0..MaxLives
    BY SchedulerAssumption
  <2> QED
    BY <2>1 DEF Init, TypeOK, Statuses
<1>2. ProcInv /\ RowInv /\ LateInv /\ OneExecutor /\ NoRunIsForgotten
  BY DEF Init, ProcInv, RowInv, LateInv, Late, OneExecutor, NoRunIsForgotten, Busy
<1> QED
  BY <1>1, <1>2 DEF IInv

LEMMA NextInv == IInv /\ [Next]_vars => IInv'
  BY TypeNext, ProcNext, RowNext, LateNext, OneExecutorNext, ForgottenNext DEF IInv

LEMMA Invariance == Spec => []IInv
<1> QED
  BY InitInv, NextInv, PTL DEF Spec

(* The state of the scheduler has its type.                                *)
THEOREM SchedulerTypeCorrect == Spec => []TypeOK
<1>1. IInv => TypeOK
  BY DEF IInv
<1> QED
  BY <1>1, Invariance, PTL

(* No run has two executors, through stops, crashes and restarts.          *)
THEOREM RunsHaveOneExecutor == Spec => []OneExecutor
<1>1. IInv => OneExecutor
  BY DEF IInv
<1> QED
  BY <1>1, Invariance, PTL

(* While the program is up, every claimed or running row is in somebody's  *)
(* hands.                                                                  *)
THEOREM RunsAreNotForgotten == Spec => []NoRunIsForgotten
<1>1. IInv => NoRunIsForgotten
  BY DEF IInv
<1> QED
  BY <1>1, Invariance, PTL

LEMMA FinalStep ==
  IInv /\ [Next]_vars => \A r \in Runs : status[r] \in Final => status'[r] = status[r]
<1> SUFFICES ASSUME IInv, [Next]_vars, NEW r \in Runs, status[r] \in Final
             PROVE  status'[r] = status[r]
  OBVIOUS
<1>0. status \in [Runs -> Statuses] /\ status[r] # "absent"
  BY DEF IInv, TypeOK, Final
<1>1. CASE Start
  <2>1. Reset(status) \in [Runs -> Statuses] /\ Reset(status)[r] = status[r]
    BY <1>0, ResetRows
  <2>2. GenerateRuns(Reset(status))[r] = Reset(status)[r]
    BY <1>0, <2>1, GeneratedRows
  <2> QED
    BY <1>1, <2>1, <2>2 DEF Start
<1>2. CASE StopResets
  BY <1>0, <1>2, ResetRows DEF StopResets
<1>3. CASE PickNext
  BY <1>0, <1>3 DEF PickNext, Candidates, Pending, Final
<1>4. ASSUME NEW k \in Slots, Begin(k) \/ Record(k) PROVE status'[r] = status[r]
  <2>1. status[runOf[k]] \notin Final
    BY <1>4 DEF IInv, RowInv, Begin, Record, Final
  <2> QED
    BY <1>0, <1>4, <2>1 DEF Begin, Record
<1>5. ASSUME NEW g \in Generators, InsertRuns(g) PROVE status'[r] = status[r]
  BY <1>0, <1>5, GeneratedRows DEF InsertRuns
<1>6. CASE UNCHANGED status
  BY <1>6
<1> QED
  BY <1>1, <1>2, <1>3, <1>4, <1>5, <1>6
  DEF Next, Run, ExecuteRun, Stop, Wait, Exit, Crash, Ends, LoopTop, Wake, GiveUp,
      Dispatch, Finish, Kill, Release, PlaceFile, Download, NotifyScheduler, vars

(* What is recorded of a run that ended is never overwritten.              *)
THEOREM RecordedResultsAreFinal == Spec => ResultsAreFinal
<1>1. IInv /\ [Next]_vars =>
        [\A r \in Runs : status[r] \in Final => status'[r] = status[r]]_vars
  BY FinalStep
<1> QED
  BY <1>1, Invariance, PTL DEF Spec, ResultsAreFinal

=============================================================================
