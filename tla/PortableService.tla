-------------------------- MODULE PortableService --------------------------
(***************************************************************************)
(* The processes of the portable service (src/server/portable_service.rs): *)
(* start_portable_service starts one, its run_ipc_client connects to the   *)
(* ipc server of the main process, which has a task for every connection.  *)
(* The tasks take turns, as each holds the receiver of the input events    *)
(* while it serves.  RUNNING decides where input, cursor and capture go.   *)
(*                                                                         *)
(* Both sides ping every second and count the pings not answered (nack);   *)
(* the counters are left out: a process without an answer gives up.        *)
(***************************************************************************)
EXTENDS Naturals

CONSTANTS MaxProcs      \* bound: processes started

ASSUME MaxProcsAssumption == MaxProcs \in Nat \ {0}

Procs == 1..MaxProcs

VARIABLES
  RUNNING,
  starting,       \* a caller of start_portable_service is past its check of RUNNING
  proc,           \* where each process is
  task,           \* its task in the main process
  pong,           \* a Pong on its way to the task
  count,          \* ConnCount(Some(n)) on its way to the process
  remote,         \* some remote connection is authorized
  quick_support   \* QUICK_SUPPORT: the count is not told

portableVars == <<RUNNING, starting, proc, task, pong, count, remote, quick_support>>

PortableInit ==
  /\ RUNNING = FALSE
  /\ starting = FALSE
  /\ proc = [p \in Procs |-> "none"]
  /\ task = [p \in Procs |-> "none"]
  /\ pong = [p \in Procs |-> FALSE]
  /\ count = [p \in Procs |-> "none"]
  /\ remote \in BOOLEAN
  /\ quick_support \in BOOLEAN

Alive(p) == proc[p] \in {"started", "connected"}
-----------------------------------------------------------------------------
(* The main process.                                                       *)

\* "already running" is only said once the first Pong has come.
Checks ==
  /\ ~RUNNING /\ ~starting
  /\ starting' = TRUE
  /\ UNCHANGED <<RUNNING, proc, task, pong, count, remote, quick_support>>

\* The process is started, or cannot be.
Starts ==
  /\ starting
  /\ starting' = FALSE
  /\ \/ \E p \in Procs : /\ proc[p] = "none"
                         /\ \A o \in Procs : o < p => proc[o] # "none"
                         /\ proc' = [proc EXCEPT ![p] = "started"]
     \/ UNCHANGED proc
  /\ UNCHANGED <<RUNNING, task, pong, count, remote, quick_support>>

\* rx_clone.lock()
TakesReceiver(p) ==
  /\ task[p] = "waiting"
  /\ \A o \in Procs : task[o] # "serving"
  /\ task' = [task EXCEPT ![p] = "serving"]
  /\ UNCHANGED <<RUNNING, starting, proc, pong, count, remote, quick_support>>

GetsPong(p) ==
  /\ task[p] = "serving"
  /\ pong[p]
  /\ pong' = [pong EXCEPT ![p] = FALSE]
  /\ RUNNING' = TRUE
  /\ UNCHANGED <<starting, proc, task, count, remote, quick_support>>

\* ConnCount(None)
TellsCount(p) ==
  /\ task[p] = "serving"
  /\ proc[p] = "connected"
  /\ ~quick_support
  /\ count[p] = "none"
  /\ count' = [count EXCEPT ![p] = IF remote THEN "some" ELSE "zero"]
  /\ UNCHANGED <<RUNNING, starting, proc, task, pong, remote, quick_support>>

\* Mutated form of TaskEnds: the end of a service is not noted.
TaskEndsSilently(p) ==
  /\ task[p] = "serving"
  /\ ~pong[p]
  /\ ~Alive(p)
  /\ task' = [task EXCEPT ![p] = "over"]
  /\ UNCHANGED <<RUNNING, starting, proc, pong, count, remote, quick_support>>

\* WillClose, or the connection is closed; the receiver is released.
TaskEnds(p) ==
  /\ task[p] = "serving"
  /\ ~pong[p]
  /\ ~Alive(p)
  /\ task' = [task EXCEPT ![p] = "over"]
  /\ RUNNING' = FALSE
  /\ UNCHANGED <<starting, proc, pong, count, remote, quick_support>>

\* max ipc nack: a process that hangs is disconnected, and finds that it is.
TaskGivesUp(p) ==
  /\ task[p] = "serving"
  /\ proc[p] = "connected"
  /\ task' = [task EXCEPT ![p] = "over"]
  /\ RUNNING' = FALSE
  /\ UNCHANGED <<starting, proc, pong, count, remote, quick_support>>
-----------------------------------------------------------------------------
(* The service process.                                                    *)

\* ipc::connect; the listener may not be there yet.
Connects(p) ==
  /\ proc[p] = "started"
  /\ \/ /\ proc' = [proc EXCEPT ![p] = "connected"]
        /\ task' = [task EXCEPT ![p] = "waiting"]
     \/ /\ proc' = [proc EXCEPT ![p] = "exit"]
        /\ UNCHANGED task
  /\ UNCHANGED <<RUNNING, starting, pong, count, remote, quick_support>>

AnswersPing(p) ==
  /\ proc[p] = "connected"
  /\ task[p] = "serving"
  /\ ~pong[p]
  /\ pong' = [pong EXCEPT ![p] = TRUE]
  /\ UNCHANGED <<RUNNING, starting, proc, task, count, remote, quick_support>>

GetsCount(p) ==
  /\ proc[p] = "connected"
  /\ count[p] # "none"
  /\ count' = [count EXCEPT ![p] = "none"]
  /\ proc' = IF count[p] = "zero" THEN [proc EXCEPT ![p] = "exit"] ELSE proc
  /\ UNCHANGED <<RUNNING, starting, task, pong, remote, quick_support>>

\* max ping nack, while the task waits for its turn or is over.
GivesUp(p) ==
  /\ proc[p] = "connected"
  /\ task[p] # "serving"
  /\ proc' = [proc EXCEPT ![p] = "exit"]
  /\ UNCHANGED <<RUNNING, starting, task, pong, count, remote, quick_support>>

\* run_capture sets EXIT, or the process is killed.
Fails(p) ==
  /\ Alive(p)
  /\ proc' = [proc EXCEPT ![p] = "exit"]
  /\ UNCHANGED <<RUNNING, starting, task, pong, count, remote, quick_support>>

RemoteChanges ==
  /\ remote' = ~remote
  /\ UNCHANGED <<RUNNING, starting, proc, task, pong, count, quick_support>>

Serves(p) == TakesReceiver(p) \/ GetsPong(p) \/ TellsCount(p) \/ TaskEnds(p)
Obeys(p) == Connects(p) \/ AnswersPing(p) \/ GetsCount(p) \/ GivesUp(p)

PortableNext ==
  \/ Checks \/ Starts \/ RemoteChanges
  \/ \E p \in Procs : Serves(p) \/ Obeys(p) \/ TaskGivesUp(p) \/ Fails(p)

PortableSpec == PortableInit /\ [][PortableNext]_portableVars

\* Tasks and processes are served their messages; a ping without an answer and a closed
\* connection are noticed.
PortableFairness ==
  \A p \in Procs : /\ WF_portableVars(TakesReceiver(p))
                   /\ SF_portableVars(TellsCount(p))
                   /\ SF_portableVars(TaskEnds(p))
                   /\ WF_portableVars(Connects(p))
                   /\ SF_portableVars(GetsCount(p))
                   /\ WF_portableVars(GetsPong(p))
                   /\ WF_portableVars(GivesUp(p))
-----------------------------------------------------------------------------
(* Properties.                                                             *)

\* However many processes overlapping elevation requests have started, all end and
\* RUNNING is false once the remote connections are gone, and RUNNING does not outlive
\* the processes: input is not sent to nobody for ever.
ServiceFollows ==
  PortableFairness =>
    /\ <>[](~remote /\ ~quick_support)
         => <>[](~RUNNING /\ \A p \in Procs : ~Alive(p))
    /\ (\A p \in Procs : ~Alive(p)) ~> (~RUNNING \/ \E p \in Procs : Alive(p))
=============================================================================
