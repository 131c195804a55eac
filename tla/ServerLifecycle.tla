-------------------------- MODULE ServerLifecycle ---------------------------
(***************************************************************************)
(* One run of the process: what startServer brings up in turn, what        *)
(* gracefulShutdown takes down, and the requests, sockets and jobs that    *)
(* are being served meanwhile.  Node is external: server.close calls back  *)
(* when every connection has ended, an upgraded one too.  BullMQ is        *)
(* external: closing a worker waits for the job it is working on.          *)
(***************************************************************************)
EXTENDS Naturals, FiniteSets

CONSTANTS Connections, \* HTTP requests and sockets served at once
          Jobs         \* jobs worked on at once

VARIABLES phase,      \* see Phases
          up,         \* what is open: a subset of Parts
          connection, \* each connection: "none", "request" or "socket"
          task,       \* each job: "idle" or "active"
          deadline    \* the 10 s timer: "unset", "set" or "over"

serverVars == <<phase, up, connection, task, deadline>>

\* Starting, by the last step done; serving; closing the HTTP server; closing the rest.
Phases == {"boot", "database", "redis", "jobs", "sockets",
           "serving", "draining", "releasing", "exit_0", "exit_1"}

Parts == {"database", "redis", "workers", "sockets", "http"}

Exited == phase \in {"exit_0", "exit_1"}
Open(c) == connection[c] # "none"
Busy == {j \in Jobs : task[j] = "active"}

-----------------------------------------------------------------------------
ServerInit ==
    /\ phase = "boot" /\ up = {}
    /\ connection = [c \in Connections |-> "none"]
    /\ task = [j \in Jobs |-> "idle"]
    /\ deadline = "unset"

(* Starting *)

Begin(from, to, part) ==
    /\ phase = from /\ phase' = to
    /\ up' = up \cup {part}
    /\ UNCHANGED <<connection, task, deadline>>

\* initializeDatabase, connectRedis, initializeJobSystem, initializeSocketServer, listen
StartDatabase == Begin("boot", "database", "database")
StartRedis    == Begin("database", "redis", "redis")
StartJobs     == Begin("redis", "jobs", "workers")
StartSockets  == Begin("jobs", "sockets", "sockets")
Listen        == Begin("sockets", "serving", "http")

\* connectRedis only logs its failure.
StartWithoutRedis ==
    /\ phase = "database" /\ phase' = "redis"
    /\ UNCHANGED <<up, connection, task, deadline>>

\* Any other step that fails is fatal; so is an unhandled rejection or exception, later.
Die ==
    /\ ~Exited
    /\ phase' = "exit_1"
    /\ connection' = [c \in Connections |-> "none"]
    /\ task' = [j \in Jobs |-> "idle"]
    /\ up' = {}
    /\ UNCHANGED <<deadline>>

(* Serving *)

Accept(c) ==
    /\ "http" \in up /\ ~Open(c)
    /\ \E kind \in {"request", "socket"} : connection' = [connection EXCEPT ![c] = kind]
    /\ UNCHANGED <<phase, up, task, deadline>>

\* A request is answered; a client closes its socket, if it ever does.
EndConnection(c) ==
    /\ Open(c) /\ ~Exited
    /\ connection' = [connection EXCEPT ![c] = "none"]
    /\ UNCHANGED <<phase, up, task, deadline>>

\* A worker takes a job.
TakeJob(j) ==
    /\ "workers" \in up /\ phase # "releasing"
    /\ task[j] = "idle"
    /\ task' = [task EXCEPT ![j] = "active"]
    /\ UNCHANGED <<phase, up, connection, deadline>>

\* It ends, or fails at its next statement when there is no database any more.
EndJob(j) ==
    /\ task[j] = "active"
    /\ task' = [task EXCEPT ![j] = "idle"]
    /\ UNCHANGED <<phase, up, connection, deadline>>

(* gracefulShutdown *)

\* SIGTERM or SIGINT, once: server.close, and the timer.
Signal ==
    /\ phase = "serving"
    /\ phase' = "draining" /\ up' = up \ {"http"}
    /\ deadline' = "set"
    /\ UNCHANGED <<connection, task>>

\* Mutant: what serves the connections goes first.
ReleaseAtOnce ==
    /\ phase = "draining"
    /\ phase' = "releasing"
    /\ UNCHANGED <<up, connection, task, deadline>>

\* server.close calls back: the four that remain are closed side by side.
Drained ==
    /\ phase = "draining"
    /\ \A c \in Connections : ~Open(c)
    /\ phase' = "releasing"
    /\ UNCHANGED <<up, connection, task, deadline>>

\* shutdownSocketServer, sequelize.close, disconnectRedis
Release(part) ==
    /\ phase = "releasing" /\ part \in up \cap {"database", "redis", "sockets"}
    /\ up' = up \ {part}
    /\ UNCHANGED <<phase, connection, task, deadline>>

\* shutdownJobSystem waits for the jobs that are being worked on.
ReleaseWorkers ==
    /\ phase = "releasing" /\ "workers" \in up
    /\ Busy = {}
    /\ up' = up \ {"workers"}
    /\ UNCHANGED <<phase, connection, task, deadline>>

\* All are closed: exit code 0.
Exit ==
    /\ phase = "releasing" /\ up = {}
    /\ phase' = "exit_0"
    /\ UNCHANGED <<up, connection, task, deadline>>

\* Ten seconds are over.
ForceExit ==
    /\ deadline = "set" /\ ~Exited
    /\ phase' = "exit_1" /\ deadline' = "over" /\ up' = {}
    /\ connection' = [c \in Connections |-> "none"]
    /\ task' = [j \in Jobs |-> "idle"]

ServerNext ==
    \/ StartDatabase \/ StartRedis \/ StartWithoutRedis \/ StartJobs \/ StartSockets \/ Listen
    \/ Die
    \/ \E c \in Connections : Accept(c) \/ EndConnection(c)
    \/ \E j \in Jobs : TakeJob(j) \/ EndJob(j)
    \/ Signal \/ Drained \/ (\E part \in Parts : Release(part)) \/ ReleaseWorkers \/ Exit
    \/ ForceExit

ServerSpec == ServerInit /\ [][ServerNext]_serverVars

-----------------------------------------------------------------------------
(* Properties *)

\* Phases, parts, connections and jobs keep their types.
ServerTypeOK ==
    /\ phase \in Phases /\ up \subseteq Parts
    /\ connection \in [Connections -> {"none", "request", "socket"}]
    /\ task \in [Jobs -> {"idle", "active"}]
    /\ deadline \in {"unset", "set", "over"}

\* Whoever is being served has the database behind him, and the socket server with its
\* adapter, from the first connection to the last one's end; and a job loses the database
\* only when the connections have ended.
ServedHaveTheirParts ==
    /\ (\E c \in Connections : Open(c)) => {"database", "workers", "sockets"} \subseteq up
    /\ Busy # {} => "database" \in up \/ phase = "releasing"
=============================================================================
