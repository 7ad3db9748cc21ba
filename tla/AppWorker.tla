------------------------------- MODULE AppWorker -------------------------------
(***************************************************************************)
(* The application's task worker (core/src/app.ts): startWorker() and      *)
(* stopWorker(), which awaits worker.stop() and forgets the worker then,   *)
(* whichever it is by that time, and enqueue()'s warning.  TaskWorker is   *)
(* what one worker does; here it runs or does not.                         *)
(***************************************************************************)
EXTENDS Naturals

CONSTANTS Callers,    \* who call stopWorker(), one call at a time each
          MaxWorkers  \* bound: workers made

VARIABLES taskWorker,   \* this.taskWorker, 0 for null
          made,         \* workers made so far, which are 1..made
          up,           \* those that run
          awaits,       \* the worker each caller of stopWorker() waits for, 0 for none
          warned,       \* this._enqueuedWithoutWorkerWarned
          unattended,   \* history: the workers that were forgotten as they ran
          overlapped    \* history: did two callers wait at once?

appVars == <<taskWorker, made, up, awaits, warned, unattended, overlapped>>

AppInit ==
  /\ taskWorker = 0 /\ made = 0 /\ up = {} /\ awaits = [c \in Callers |-> 0]
  /\ warned = FALSE /\ unattended = {} /\ overlapped = FALSE

\* It does nothing while there is a worker, one that is being stopped included.
StartWorker ==
  /\ taskWorker = 0 /\ made < MaxWorkers
  /\ made' = made + 1 /\ taskWorker' = made + 1 /\ up' = up \cup {made + 1}
  /\ UNCHANGED <<awaits, warned, unattended, overlapped>>

StopWorker(c) ==
  /\ awaits[c] = 0 /\ taskWorker # 0
  /\ awaits' = [awaits EXCEPT ![c] = taskWorker] /\ up' = up \ {taskWorker}
  /\ overlapped' = (overlapped \/ \E a \in Callers \ {c} : awaits[a] # 0)
  /\ UNCHANGED <<taskWorker, made, warned, unattended>>

\* The worker's stop() returns: there is no worker any more, even if there is another.
StopWorkerReturns(c) ==
  /\ awaits[c] # 0 /\ awaits' = [awaits EXCEPT ![c] = 0] /\ taskWorker' = 0
  /\ unattended' = unattended \cup (up \cap {taskWorker})
  /\ UNCHANGED <<made, up, warned, overlapped>>

\* enqueue() warns once that nobody takes the job.
EnqueueWarns == taskWorker = 0 /\ ~warned /\ warned' = TRUE /\ UNCHANGED <<taskWorker, made, up, awaits, unattended, overlapped>>

AppNext == StartWorker \/ EnqueueWarns \/ \E c \in Callers : StopWorker(c) \/ StopWorkerReturns(c)

AppSpec == AppInit /\ [][AppNext]_appVars
-----------------------------------------------------------------------------
(* Properties *)

\* The application's worker runs unless somebody is stopping it.  One that it does not
\* know runs only if two calls of stopWorker() overlapped: the second return forgot the
\* worker started after the first; it cannot be stopped, and startWorker() runs another.
WorkersSound ==
  /\ taskWorker # 0 /\ taskWorker \notin up => \E c \in Callers : awaits[c] = taskWorker
  /\ up \subseteq unattended \cup {taskWorker}
  /\ unattended # {} => overlapped
  /\ unattended \subseteq up
=============================================================================
