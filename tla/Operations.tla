------------------------------ MODULE Operations ------------------------------
(***************************************************************************)
(* The migration runner.  Deployments start it, perhaps at the same time   *)
(* and each with a directory of its own; it may die at any point.          *)
(*                                                                         *)
(* A file is a sequence of statements: "work" changes the schema, "commit" *)
(* stands for the transaction control the runner recognises and blanks     *)
(* out, "abort" for the one it does not, "fail" for an error.  A file name *)
(* is its place in the order.                                              *)
(***************************************************************************)
EXTENDS Server, Sequences

CONSTANTS
  Runners,
  Directories,   \* what may be deployed: the version of each file, by file
  Content,       \* the statements of each <<file, version>>
  MaxRuns        \* bound of the model

ASSUME OperationsAssumption ==
  /\ \A d \in Directories: /\ DOMAIN d \subseteq Nat \ {0}
                           /\ \A f \in DOMAIN d: <<f, d[f]>> \in DOMAIN Content
  /\ MaxRuns \in Nat /\ Null \notin Runners

VARIABLES
  schema,     \* the work that was committed
  recorded,   \* schema_migrations
  lock,       \* who holds the advisory lock
  run,        \* where each runner is and what its transaction holds
  ended,      \* how each runner ended last
  runs        \* runs so far

operationVars == <<schema, recorded, lock, run, ended, runs>>

NotRunning == [at |-> "stopped"]

----------------------------------------------------------------------------
(* Files *)

\* Mutant: the file is sent as it is.
Executable_AsWritten(statements) == statements

\* stripTransactionControl
Executable(statements) ==
  [i \in DOMAIN statements |-> IF statements[i] = "commit" THEN "blank" ELSE statements[i]]

\* One query of several statements: it stops at the first that fails.  What came before a COMMIT is
\* kept, what came before an ABORT is not; after either, the rest is a transaction of its own that
\* ends with the query.
Failing(statements) == {i \in DOMAIN statements: statements[i] = "fail"}
Reached(statements) == {i \in DOMAIN statements: \A j \in Failing(statements): i < j}
Enders(statements) == {i \in Reached(statements): statements[i] \in {"commit", "abort"}}

\* The work that is in the schema after the query, whatever comes next.
KeptWork(statements) ==
  {i \in Reached(statements):
     LET later == {j \in Enders(statements): j > i}
     IN /\ statements[i] = "work"
        /\ \/ \E j \in later: statements[j] = "commit" /\ \A k \in later: j <= k
           \/ later = {} /\ Enders(statements) # {} /\ Failing(statements) = {}}

\* The work that waits for the COMMIT of the runner.
OpenWork(statements) ==
  {i \in DOMAIN statements:
     statements[i] = "work" /\ Enders(statements) = {} /\ Failing(statements) = {}}

\* What the query for the file at hand holds.
Sent(r) == Executable(Content[<<run[r].file, run[r].dir[run[r].file]>>])

Effects(r, indices) ==
  {[file |-> run[r].file, version |-> run[r].dir[run[r].file], statement |-> i, by |-> run[r].no]:
     i \in indices}

----------------------------------------------------------------------------
(* runMigrations *)

Running(r, step) == run[r].at = step
Advance(r, step) == run' = [run EXCEPT ![r].at = step]

\* Mutant: no lock.
Lockable_Always(r) == TRUE

Lockable(r) == lock = Null

Stop(r, how) ==
  /\ run' = [run EXCEPT ![r] = NotRunning]
  /\ ended' = [ended EXCEPT ![r] = [how |-> how, dir |-> run[r].dir]]
  /\ lock' = IF lock = r THEN Null ELSE lock

Start(r) ==
  /\ run[r] = NotRunning /\ runs < MaxRuns
  /\ \E d \in Directories:
       run' = [run EXCEPT ![r] = [at |-> "lock", dir |-> d, file |-> 0, applied |-> {},
                                  no |-> runs + 1]]
  /\ runs' = runs + 1
  /\ UNCHANGED <<schema, recorded, lock, ended>>

TakeLock(r) ==
  /\ Running(r, "lock") /\ Lockable(r)
  /\ lock' = r
  /\ Advance(r, "read")
  /\ UNCHANGED <<schema, recorded, ended, runs>>

\* The record is read once, before the first file.
ReadRecord(r) ==
  /\ Running(r, "read")
  /\ run' = [run EXCEPT ![r].applied = recorded, ![r].at = "next"]
  /\ UNCHANGED <<schema, recorded, lock, ended, runs>>

Left(r) == {f \in DOMAIN run[r].dir: f > run[r].file}

\* A recorded file is skipped, unless it was edited since.
NextFile(r) ==
  /\ Running(r, "next")
  /\ IF Left(r) = {}
     THEN Stop(r, "applied")
     ELSE \E f \in Left(r):
            LET known == {m \in run[r].applied: m.file = f}
            IN /\ \A g \in Left(r): f <= g
               /\ IF \E m \in known: m.version # run[r].dir[f]
                  THEN Stop(r, "failed")
                  ELSE /\ run' = [run EXCEPT ![r].file = f,
                                             ![r].at = IF known = {} THEN "execute" ELSE "next"]
                       /\ UNCHANGED <<ended, lock>>
  /\ UNCHANGED <<schema, recorded, runs>>

\* BEGIN and the file
Execute(r) ==
  /\ Running(r, "execute")
  /\ schema' = schema \cup Effects(r, KeptWork(Sent(r)))
  /\ IF Failing(Sent(r)) # {} THEN Stop(r, "failed") ELSE Advance(r, "record") /\ UNCHANGED <<ended, lock>>
  /\ UNCHANGED <<recorded, runs>>

\* The transaction must still be the runner's; then its row and COMMIT.
Record(r) ==
  /\ Running(r, "record")
  /\ IF Enders(Sent(r)) # {} \/ \E m \in recorded: m.file = run[r].file
     THEN Stop(r, "failed") /\ UNCHANGED <<schema, recorded>>
     ELSE /\ schema' = schema \cup Effects(r, OpenWork(Sent(r)))
          /\ recorded' = recorded \cup {[file |-> run[r].file, version |-> run[r].dir[run[r].file]]}
          /\ Advance(r, "next")
          /\ UNCHANGED <<ended, lock>>
  /\ UNCHANGED runs

\* The session ends: its transaction is rolled back and its lock released.
Die(r) ==
  /\ run[r] # NotRunning
  /\ Stop(r, "died")
  /\ UNCHANGED <<schema, recorded, runs>>

OperationsInit ==
  /\ schema = {} /\ recorded = {} /\ lock = Null
  /\ run = [r \in Runners |-> NotRunning]
  /\ ended = [r \in Runners |-> Null]
  /\ runs = 0

OperationsStep(r) ==
  \/ Start(r) \/ TakeLock(r) \/ ReadRecord(r) \/ NextFile(r) \/ Execute(r) \/ Record(r) \/ Die(r)

OperationsNext == \E r \in Runners: OperationsStep(r)

OperationsSpec == OperationsInit /\ [][OperationsNext]_operationVars

----------------------------------------------------------------------------
(* Properties *)

Work(f, v) == {i \in DOMAIN Content[<<f, v>>]: Content[<<f, v>>][i] = "work"}
Escapes(f, v) == "abort" \in {Content[<<f, v>>][i]: i \in DOMAIN Content[<<f, v>>]}

\* A recorded file has its work in the schema whole and once, in the version recorded; there is
\* nothing of a file that is not recorded.  A file whose transaction control the runner does not
\* recognise is never recorded; what it leaves behind is the one exception.
RecordIsTrue(f) ==
  LET there == {e \in schema: e.file = f /\ ~Escapes(f, e.version)}
      known == {m \in recorded: m.file = f}
  IN /\ \A m, n \in known: m = n
     /\ known = {} => there = {}
     /\ \A d, e \in there: d.statement = e.statement => d = e
     /\ \A m \in known: /\ ~Escapes(f, m.version)
                        /\ {e.statement: e \in there} = Work(f, m.version)
                        /\ \A e \in there: e.version = m.version

\* After any number of runs, edits and crashes.
SchemaIsTheRecord == \A f \in UNION {DOMAIN d: d \in Directories}: RecordIsTrue(f)

\* A file of a directory is broken, or was applied in another version.
HasBadFile(dir) ==
  \E f \in DOMAIN dir:
    \/ \E i \in DOMAIN Content[<<f, dir[f]>>]: Content[<<f, dir[f]>>][i] \in {"abort", "fail"}
    \/ \E m \in recorded: m.file = f /\ m.version # dir[f]

\* Deployments that start at the same time do not fail one another: a run fails only over a file of
\* its own.
OnlyBadFilesFail ==
  \A r \in Runners: (ended[r] # Null /\ ended[r].how = "failed") => HasBadFile(ended[r].dir)

\* However many deployments run, die, are repeated or overlap, the schema is what the record says
\* it is, and none fails but over a file of its own.
DeploymentsAgree == SchemaIsTheRecord /\ OnlyBadFilesFail

=============================================================================
