-------------------------- MODULE VarulabScheduler --------------------------
(***************************************************************************)
(* The experiment scheduler of src/cmd/varulab: runs are rows of a SQLite  *)
(* table; a loop claims pending rows and starts a goroutine for each, as   *)
(* many as the semaphore has slots; the goroutine runs a backtest in a     *)
(* process of its own and records how it ended; the downloader and the     *)
(* dashboard insert new rows and wake the loop; SIGINT stops all of this   *)
(* and a crash may end it anywhere.  The rows survive.                     *)
(*                                                                         *)
(* One program works on an experiment at a time, statements of SQL succeed *)
(* and the configured symbols stay the same.  What a backtest computes, its*)
(* log and the state sent to browsers are not modelled.                    *)
(***************************************************************************)
EXTENDS Naturals

CONSTANTS
  Runs,       (* the combinations of a data file and flags                  *)
  Files,      (* .dbn files: a symbol on a date                             *)
  FileOf,     (* the data file (dbn_path) of a run                          *)
  DateOf,     (* the date of a data file                                    *)
  MaxJobs,    (* the capacity of the semaphore                              *)
  MaxLives,   (* bound: times the program is started                        *)
  None

ASSUME SchedulerAssumption ==
  /\ FileOf \in [Runs -> Files] /\ DateOf \in [Files -> Nat]
  /\ MaxJobs \in Nat /\ MaxLives \in Nat /\ None \notin Runs

Slots == 1..MaxJobs

Generators == {"downloader", "dashboard"}  (* who calls GenerateRuns later *)

VARIABLES
  (* on disk *)
  files,      (* the data files there are                                   *)
  status,     (* the status column; "absent": no row                        *)
  (* the process *)
  main,       (* "down", "up", "stopping" (cancelled), "waited", "reset"    *)
  loop,       (* Run(): "none", "top", "picking", "idle", "holding", "gone" *)
  held,       (* the run pickNext returned                                  *)
  work,       (* executeRun in each slot of the semaphore                   *)
  runOf,      (* the run it executes                                        *)
  notify,     (* gSchedulerNotify has an item                               *)
  gen,        (* the generators: "idle", "downloaded" a file, "inserted"    *)
  (* history *)
  killed,     (* runs whose backtest Stop killed                            *)
  stopped,    (* the last program ended by Stop                             *)
  lives

history == <<killed, stopped, lives>>
vars == <<files, status, main, loop, held, work, runOf, notify, gen, history>>

Statuses == {"absent", "pending", "claimed", "running", "done", "failed"}
Final    == {"done", "failed"}
Cancelled == main \in {"stopping", "waited", "reset"}
Busy(k)  == work[k] # "free"

-----------------------------------------------------------------------------
(* Statements of SQL. *)

(* INSERT OR IGNORE of every combination of a file on disk. *)
GenerateRuns(before) ==
  [r \in Runs |-> IF before[r] = "absent" /\ FileOf[r] \in files THEN "pending"
                  ELSE before[r]]

(* Mutant: failed runs are given another try. *)
ResetAlsoFailed(before) ==
  [r \in Runs |-> IF before[r] \in {"running", "claimed", "failed"} THEN "pending"
                  ELSE before[r]]

(* Mutant: a reset run gets a status of its own. *)
ResetToStopped(before) ==
  [r \in Runs |-> IF before[r] \in {"running", "claimed"} THEN "stopped"
                  ELSE before[r]]

(* Mutant: a claimed run is not reset. *)
ResetRunningOnly(before) ==
  [r \in Runs |-> IF before[r] = "running" THEN "pending" ELSE before[r]]

Reset(before) ==
  [r \in Runs |-> IF before[r] \in {"running", "claimed"} THEN "pending"
                  ELSE before[r]]

-----------------------------------------------------------------------------
(* main: start, stop, crash. *)

(* The program starts, resets what the last one left, inserts new runs and *)
(* starts the loop; nothing else works on the rows before that.            *)
Start ==
  /\ main = "down" /\ lives < MaxLives
  /\ main' = "up" /\ loop' = "top"
  /\ lives' = lives + 1
  /\ status' = GenerateRuns(Reset(status))
  /\ killed' = {} /\ stopped' = FALSE
  /\ UNCHANGED <<files, held, work, runOf, notify, gen>>

(* SIGINT: the context is cancelled. *)
Stop ==
  /\ main = "up"
  /\ main' = "stopping"
  /\ UNCHANGED <<files, status, loop, held, work, runOf, notify, gen, history>>

(* wg.Wait returns.  The loop may yet add a goroutine: it is not counted.  *)
Wait ==
  /\ main = "stopping"
  /\ \A k \in Slots : ~Busy(k)
  /\ main' = "waited"
  /\ UNCHANGED <<files, status, loop, held, work, runOf, notify, gen, history>>

StopResets ==
  /\ main = "waited"
  /\ main' = "reset"
  /\ status' = Reset(status)
  /\ UNCHANGED <<files, loop, held, work, runOf, notify, gen, history>>

Ends ==
  /\ main' = "down" /\ loop' = "none" /\ held' = None
  /\ work' = [k \in Slots |-> "free"] /\ runOf' = [k \in Slots |-> None]
  /\ notify' = FALSE /\ gen' = [g \in Generators |-> "idle"]
  /\ UNCHANGED <<files, status, lives>>

(* A crash ends the backtests too.  In the code a backtest has a process    *)
(* group of its own (runner.go:46) and may go on after a crash; nobody      *)
(* records what it finds.                                                   *)
Exit  == main = "reset" /\ stopped' = TRUE /\ UNCHANGED killed /\ Ends
Crash == main # "down" /\ killed' = {} /\ UNCHANGED stopped /\ Ends

-----------------------------------------------------------------------------
(* Scheduler.Run. *)

LoopTop ==
  /\ loop = "top"
  /\ loop' = IF Cancelled THEN "gone" ELSE "picking"
  /\ UNCHANGED <<files, status, main, held, work, runOf, notify, gen, history>>

(* pickNext: of the files being worked on, which one comes first is up to  *)
(* the order of a Go map; otherwise a run of the latest date.              *)
Hot == {FileOf[runOf[k]] : k \in {j \in Slots : Busy(j)}}

Pending == {r \in Runs : status[r] = "pending"}

Candidates ==
  LET hot == {r \in Pending : FileOf[r] \in Hot} IN
  IF hot # {} THEN hot
  ELSE {r \in Pending : \A q \in Pending : DateOf[FileOf[q]] <= DateOf[FileOf[r]]}

(* Mutant: the row is not claimed. *)
PickNextUnclaimed ==
  /\ loop = "picking"
  /\ \/ Pending = {} /\ loop' = "idle" /\ UNCHANGED held
     \/ \E r \in Candidates : held' = r /\ loop' = "holding"
  /\ UNCHANGED <<files, status, main, work, runOf, notify, gen, history>>

PickNext ==
  /\ loop = "picking"
  /\ \/ /\ Pending = {} /\ loop' = "idle" /\ UNCHANGED <<status, held>>
     \/ \E r \in Candidates :
          /\ status' = [status EXCEPT ![r] = "claimed"]
          /\ held' = r /\ loop' = "holding"
  /\ UNCHANGED <<files, main, work, runOf, notify, gen, history>>

(* The select of an idle loop: the context, or a notification. *)
Wake ==
  /\ loop = "idle"
  /\ \/ Cancelled /\ loop' = "gone" /\ UNCHANGED notify
     \/ notify /\ notify' = FALSE /\ loop' = "top"
  /\ UNCHANGED <<files, status, main, held, work, runOf, gen, history>>

(* The select for a slot.  With the context cancelled and a slot free, Go  *)
(* takes either.                                                           *)
GiveUp ==
  /\ loop = "holding" /\ Cancelled
  /\ loop' = "gone" /\ held' = None
  /\ UNCHANGED <<files, status, main, work, runOf, notify, gen, history>>

Dispatch(k) ==
  /\ loop = "holding" /\ ~Busy(k) /\ \A j \in Slots : j < k => Busy(j)
  /\ work' = [work EXCEPT ![k] = "starting"]
  /\ runOf' = [runOf EXCEPT ![k] = held]
  /\ loop' = "top" /\ held' = None
  /\ UNCHANGED <<files, status, main, notify, gen, history>>

-----------------------------------------------------------------------------
(* executeRun, and the deferred end of its goroutine. *)

(* The row is marked running; a process is started unless the context is   *)
(* cancelled, which is an error like being killed.                         *)
Begin(k) ==
  /\ work[k] = "starting"
  /\ status' = [status EXCEPT ![runOf[k]] = "running"]
  /\ work' = [work EXCEPT ![k] = IF Cancelled THEN "killed" ELSE "executing"]
  /\ UNCHANGED <<files, main, loop, held, runOf, notify, gen, history>>

(* The backtest ends by itself, with a result in its output or without. *)
Finish(k) ==
  /\ work[k] = "executing"
  /\ \E outcome \in {"result", "noResult"} : work' = [work EXCEPT ![k] = outcome]
  /\ UNCHANGED <<files, status, main, loop, held, runOf, notify, gen, history>>

Kill(k) ==
  /\ work[k] = "executing" /\ Cancelled
  /\ work' = [work EXCEPT ![k] = "killed"]
  /\ killed' = killed \cup {runOf[k]}
  /\ UNCHANGED <<files, status, main, loop, held, runOf, notify, gen, stopped, lives>>

Record(k) ==
  /\ work[k] \in {"result", "noResult", "killed"}
  /\ status' = [status EXCEPT ![runOf[k]] =
       IF work[k] = "result" THEN "done" ELSE "failed"]
  /\ work' = [work EXCEPT ![k] = "recorded"]
  /\ UNCHANGED <<files, main, loop, held, runOf, notify, gen, history>>

Release(k) ==
  /\ work[k] = "recorded"
  /\ work' = [work EXCEPT ![k] = "free"]
  /\ runOf' = [runOf EXCEPT ![k] = None]
  /\ notify' = TRUE
  /\ UNCHANGED <<files, status, main, loop, held, gen, history>>

-----------------------------------------------------------------------------
(* New runs. *)

Alive == main # "down"

(* A file is put there by somebody else, or downloaded. *)
PlaceFile(f) ==
  /\ f \notin files
  /\ files' = files \cup {f}
  /\ UNCHANGED <<status, main, loop, held, work, runOf, notify, gen, history>>

Download(f) ==
  /\ Alive /\ gen["downloader"] = "idle" /\ f \notin files
  /\ files' = files \cup {f}
  /\ gen' = [gen EXCEPT !["downloader"] = "downloaded"]
  /\ UNCHANGED <<status, main, loop, held, work, runOf, notify, history>>

(* GenerateRuns after a download, or for POST .../regenerate. *)
InsertRuns(g) ==
  /\ IF g = "downloader" THEN gen[g] = "downloaded" ELSE gen[g] = "idle" /\ Alive
  /\ gen' = [gen EXCEPT ![g] = "inserted"]
  /\ status' = GenerateRuns(status)
  /\ UNCHANGED <<files, main, loop, held, work, runOf, notify, history>>

(* Mutant: only the downloader wakes the loop. *)
NotifySchedulerOnce(g) ==
  /\ gen[g] = "inserted"
  /\ gen' = [gen EXCEPT ![g] = "idle"]
  /\ notify' = (notify \/ g = "downloader")
  /\ UNCHANGED <<files, status, main, loop, held, work, runOf, history>>

NotifyScheduler(g) ==
  /\ gen[g] = "inserted"
  /\ gen' = [gen EXCEPT ![g] = "idle"]
  /\ notify' = TRUE
  /\ UNCHANGED <<files, status, main, loop, held, work, runOf, history>>

-----------------------------------------------------------------------------

Init ==
  /\ files \in SUBSET Files
  /\ status = [r \in Runs |-> "absent"]
  /\ main = "down" /\ loop = "none" /\ held = None
  /\ work = [k \in Slots |-> "free"] /\ runOf = [k \in Slots |-> None]
  /\ notify = FALSE /\ gen = [g \in Generators |-> "idle"]
  /\ killed = {} /\ stopped = FALSE /\ lives = 0

Run == LoopTop \/ PickNext \/ Wake \/ GiveUp \/ \E k \in Slots : Dispatch(k)

ExecuteRun(k) == Begin(k) \/ Finish(k) \/ Kill(k) \/ Record(k) \/ Release(k)

Next ==
  \/ Start \/ Stop \/ Wait \/ StopResets \/ Exit \/ Crash
  \/ Run
  \/ \E k \in Slots : ExecuteRun(k)
  \/ \E f \in Files : PlaceFile(f) \/ Download(f)
  \/ \E g \in Generators : InsertRuns(g) \/ NotifyScheduler(g)

Spec == Init /\ [][Next]_vars

(* The loop and the goroutines go on, backtests end, and who has inserted  *)
(* runs gets to notify the loop.                                           *)
Fairness ==
  /\ WF_vars(Run)
  /\ \A k \in Slots : WF_vars(ExecuteRun(k))
  /\ \A g \in Generators : WF_vars(NotifyScheduler(g))

FairSpec == Spec /\ Fairness
-----------------------------------------------------------------------------
(* Properties. *)

TypeOK ==
  /\ files \subseteq Files /\ status \in [Runs -> Statuses]
  /\ main \in {"down", "up", "stopping", "waited", "reset"}
  /\ loop \in {"none", "top", "picking", "idle", "holding", "gone"}
  /\ held \in Runs \cup {None}
  /\ work \in [Slots -> {"free", "starting", "executing", "result", "noResult",
                         "killed", "recorded"}]
  /\ runOf \in [Slots -> Runs \cup {None}]
  /\ notify \in BOOLEAN /\ gen \in [Generators -> {"idle", "downloaded", "inserted"}]
  /\ killed \subseteq Runs /\ stopped \in BOOLEAN /\ lives \in 0..MaxLives

(* No run is executed twice at the same time, nor executed while the loop   *)
(* is about to execute it: also not when Stop gives claimed runs back while *)
(* the loop dispatches them (scheduler.go:152 "to prevent double-dispatch").*)
OneExecutor ==
  \A k \in Slots : Busy(k) =>
    /\ loop = "holding" => held # runOf[k]
    /\ \A j \in Slots \ {k} : Busy(j) => runOf[j] # runOf[k]

(* Until Stop has waited, the rows say what goes on: a claimed run is in the *)
(* hands of the loop or of a goroutine, a running one is being executed.     *)
(* None is left behind that nobody would execute (scheduler.go, runner.go).  *)
Executed(r) == \E k \in Slots : runOf[k] = r /\ Busy(k)

NoRunIsForgotten ==
  main = "up" => \A r \in Runs : status[r] \in {"claimed", "running"} =>
    (loop = "holding" /\ held = r) \/ Executed(r)

(* How a run ended stays as it was recorded, though runner.go writes rows    *)
(* whatever their status and programs stop, crash and start again.           *)
ResultsAreFinal ==
  [][\A r \in Runs : status[r] \in Final => status'[r] = status[r]]_vars

(* Every pending run ends, unless the program is stopped or crashes: no      *)
(* wake-up of the loop is lost and no slot leaks.                            *)
PendingRunsEnd ==
  \A r \in Runs :
    (main = "up" /\ status[r] = "pending") ~> (status[r] \in Final \/ main # "up")

(* scheduler.go:140 "reset any runs that were running/claimed back to        *)
(* pending": after Stop, the runs whose backtests it killed are pending.     *)
StopResetsRuns ==
  stopped => \A r \in killed : status[r] = "pending"
=============================================================================
