----------------------------- MODULE Supervisor -----------------------------
(***************************************************************************)
(* The init program (user/init/init.c): it starts the jobs of /etc/init in *)
(* the order of their dependencies, tells from a job's output and end      *)
(* whether it is ready, and serves initctl's requests on a socket.  It is  *)
(* one program that polls; the programs that it starts, and the client,    *)
(* run beside it.                                                          *)
(*                                                                         *)
(* Of a program the model keeps what init sees of it: its output, a line   *)
(* at a time, its end and its status.  waitpid() is the kernel's: it finds *)
(* no program that has ended already, and then leaves the status alone.    *)
(***************************************************************************)
EXTENDS Naturals, Sequences, FiniteSets

CONSTANTS
  Job,          \* places of the job table: 1 .. n
  JobFiles,     \* boots to look at: [mode, after, loaded], and ctl, "idle" or "down"
  StallLimit,   \* polls without progress before jobs are given up: 6
  MaxPid,       \* how many programs get started (a bound: then pipe() fails)
  NIL

ASSUME SupervisorAssumption ==
  /\ Job \subseteq Nat /\ StallLimit \in Nat /\ MaxPid \in Nat /\ NIL \notin Nat
  /\ \A c \in JobFiles : /\ c.mode \in [Job -> {"exit", "start", "stdout"}]
                         /\ c.after \in [Job -> SUBSET Job] /\ c.loaded \subseteq Job
                         /\ c.ctl \in {"idle", "down"}

VARIABLES
  files,      \* what it booted with: mode and after of each job
  jobs,       \* the jobs in the table
  state,      \* of a job: PENDING, RUNNING, READY, FAILED or EXITED
  pid,        \* the program of a job, NIL without one
  pipe_fd,    \* the pipe that init reads: its program, or NIL
  startup,    \* startup_loop(), or service_loop()
  pc,         \* where in the loop: "start", "poll", "ctl", "recv", "pipes", "wait", "asleep"
  at,         \* the job that "start", "wait" or "asleep" is about
  started,    \* this round has started a job
  revents,    \* the pipes that poll() reported
  stall,      \* rounds without progress
  prog,       \* the programs started so far, by pid
  ctl         \* the control socket and its client: down, idle, connected, or a request

loop == <<startup, pc, at, started, revents, stall>>
vars == <<files, jobs, state, pid, pipe_fd, loop, prog, ctl>>

Request == ({"START", "STOP"} \X Job) \cup {<<"other">>}
Least(S) == CHOOSE x \in S : \A y \in S : x <= y
Pending == {j \in jobs : state[j] \in {"PENDING", "RUNNING"}}
-----------------------------------------------------------------------------
(* Programs. *)
NewProgram(j) == [job |-> j, alive |-> TRUE, open |-> TRUE, out |-> NIL,
                  matched |-> FALSE, status |-> 0, killed |-> FALSE]

Runs(p) == p \in DOMAIN prog /\ prog[p].alive
Mode(p) == files.mode[prog[p].job]

(* A program whose output nobody reads can only end.                       *)
Heard(p) == Runs(p) /\ prog[p].open /\ pipe_fd[prog[p].job] = p

PrintLine(p, line) ==
  /\ Heard(p) /\ prog[p].out = NIL
  /\ prog' = [prog EXCEPT ![p].out = line, ![p].matched = @ \/ line = "pattern"]
  /\ UNCHANGED <<files, jobs, state, pid, pipe_fd, loop, ctl>>

CloseOutput(p) ==
  /\ Heard(p)
  /\ prog' = [prog EXCEPT ![p].open = FALSE]
  /\ UNCHANGED <<files, jobs, state, pid, pipe_fd, loop, ctl>>

(* Its end, by itself or by a signal, after an exec that failed too.       *)
End(p, status) ==
  /\ Runs(p)
  /\ prog' = [prog EXCEPT ![p].alive = FALSE, ![p].open = FALSE, ![p].status = status]
  /\ UNCHANGED <<files, jobs, state, pid, pipe_fd, loop, ctl>>

(* The client of the control socket. *)
Connect == ctl = <<"idle">> /\ ctl' = <<"connected">>
           /\ UNCHANGED <<files, jobs, state, pid, pipe_fd, loop, prog>>

Send == ctl = <<"connected">> /\ ctl' \in Request
        /\ UNCHANGED <<files, jobs, state, pid, pipe_fd, loop, prog>>
-----------------------------------------------------------------------------
Init ==
  /\ files \in JobFiles
  /\ jobs = files.loaded
  /\ state = [j \in Job |-> "PENDING"]
  /\ pid = [j \in Job |-> NIL] /\ pipe_fd = [j \in Job |-> NIL]
  /\ startup = (jobs # {}) /\ pc = (IF jobs # {} THEN "start" ELSE "poll")
  /\ at = 0 /\ started = FALSE /\ revents = {} /\ stall = 0
  /\ prog = <<>> /\ ctl = <<files.ctl>>

(* start_job(): when pipe() or fork() fails, the job does.                 *)
start_job(j) ==
  \/ /\ state' = [state EXCEPT ![j] = "FAILED"]
     /\ pid' = [pid EXCEPT ![j] = NIL] /\ pipe_fd' = [pipe_fd EXCEPT ![j] = NIL]
     /\ UNCHANGED prog
  \/ /\ Len(prog) < MaxPid
     /\ prog' = Append(prog, NewProgram(j))
     /\ pid' = [pid EXCEPT ![j] = Len(prog) + 1]
     /\ pipe_fd' = [pipe_fd EXCEPT ![j] = Len(prog) + 1]
     /\ state' = [state EXCEPT ![j] = IF files.mode[j] = "start" THEN "READY" ELSE "RUNNING"]

(* A dependency that has no job is met. *)
deps_satisfied(j) == \A d \in files.after[j] \cap jobs : state[d] \in {"READY", "EXITED"}

(* The first part of a round of startup_loop(), job by job. *)
Rest == {j \in jobs : j > at}

StartPass ==
  /\ pc = "start" /\ Rest # {}
  /\ at' = Least(Rest)
  /\ IF state[at'] = "PENDING" /\ deps_satisfied(at')
     THEN start_job(at') /\ started' = TRUE
     ELSE UNCHANGED <<state, pid, pipe_fd, prog, started>>
  /\ UNCHANGED <<files, jobs, startup, pc, revents, stall, ctl>>

Polled == {j \in jobs : pipe_fd[j] # NIL}

StartPassEnd ==
  /\ pc = "start" /\ Rest = {}
  /\ at' = 0 /\ pc' = "poll"
  /\ startup' = ~(ctl = <<"down">> /\ Polled = {} /\ ~started)
  /\ UNCHANGED <<files, jobs, state, pid, pipe_fd, started, revents, stall, prog, ctl>>

(* poll() with a timeout in startup_loop(), without one in service_loop(). *)
Readable == {j \in Polled : prog[pipe_fd[j]].out # NIL \/ ~prog[pipe_fd[j]].open}
Called == ctl \notin {<<"down">>, <<"idle">>}

Poll_All ==
  /\ pc = "poll" /\ (startup \/ Called \/ Readable # {})
  /\ revents' = Polled
  /\ pc' = IF Called THEN "recv" ELSE "pipes"
  /\ UNCHANGED <<files, jobs, state, pid, pipe_fd, startup, at, started, stall, prog, ctl>>

Poll ==
  /\ pc = "poll" /\ (startup \/ Called \/ Readable # {})
  /\ revents' = Readable
  /\ pc' = IF Called THEN "recv" ELSE "pipes"
  /\ UNCHANGED <<files, jobs, state, pid, pipe_fd, startup, at, started, stall, prog, ctl>>
-----------------------------------------------------------------------------
(* handle_ctl_client(): it waits for the request of the client. *)
Served(request) ==
  /\ pc = "recv" /\ ctl = request
  /\ ctl' = <<"idle">> /\ pc' = "pipes"
  /\ UNCHANGED <<files, startup, at, started, revents, stall>>

(* STATUS, an unknown command, or a client that has gone. *)
ServeOther ==
  /\ Served(<<"other">>)
  /\ UNCHANGED <<jobs, state, pid, pipe_fd, prog>>

ServeStart_Twice(j) ==
  /\ Served(<<"START", j>>)
  /\ jobs' = jobs \cup {j}
  /\ IF j \in jobs /\ state[j] = "RUNNING"
     THEN UNCHANGED <<state, pid, pipe_fd, prog>> ELSE start_job(j)

(* A name without a job is looked for among the files. *)
ServeStart(j) ==
  /\ Served(<<"START", j>>)
  /\ jobs' = jobs \cup {j}
  /\ IF j \in jobs /\ state[j] \in {"RUNNING", "READY"}
     THEN UNCHANGED <<state, pid, pipe_fd, prog>> ELSE start_job(j)

ServeStop(j) ==
  /\ Served(<<"STOP", j>>)
  /\ IF j \in jobs /\ pid[j] # NIL
     THEN /\ state' = [state EXCEPT ![j] = "EXITED"]
          /\ pid' = [pid EXCEPT ![j] = NIL]
          /\ prog' = [prog EXCEPT ![pid[j]].killed = TRUE, ![pid[j]].out = NIL]
          /\ pipe_fd' = [pipe_fd EXCEPT ![j] = NIL]
     ELSE UNCHANGED <<state, pid, pipe_fd, prog>>
  /\ UNCHANGED jobs
-----------------------------------------------------------------------------
(* process_pipe() of the first reported pipe.  A read of a pipe that is    *)
(* empty and still open sleeps: then no action below is enabled.           *)
Turn(j) == pc = "pipes" /\ revents # {} /\ j = Least(revents)

ReadLine(j) ==
  /\ Turn(j) /\ pipe_fd[j] # NIL /\ prog[pipe_fd[j]].out # NIL
  /\ prog' = [prog EXCEPT ![pipe_fd[j]].out = NIL]
  /\ state' = [state EXCEPT ![j] =
       IF @ = "RUNNING" /\ files.mode[j] = "stdout" /\ prog[pipe_fd[j]].out = "pattern"
       THEN "READY" ELSE @]
  /\ revents' = revents \ {j}
  /\ UNCHANGED <<files, jobs, pid, pipe_fd, startup, pc, at, started, stall, ctl>>

(* The end of the output, or a pipe that is closed by now (STOP).          *)
HangUp_Any(j) ==
  /\ Turn(j)
  /\ pipe_fd[j] # NIL => prog[pipe_fd[j]].out = NIL /\ ~prog[pipe_fd[j]].open
  /\ pipe_fd' = [pipe_fd EXCEPT ![j] = NIL]
  /\ revents' = revents \ {j}
  /\ pc' = "wait" /\ at' = j
  /\ UNCHANGED <<files, jobs, state, pid, startup, started, stall, prog, ctl>>

HangUp(j) ==
  /\ Turn(j)
  /\ pipe_fd[j] # NIL => prog[pipe_fd[j]].out = NIL /\ ~prog[pipe_fd[j]].open
  /\ pipe_fd' = [pipe_fd EXCEPT ![j] = NIL]
  /\ revents' = revents \ {j}
  /\ IF state[j] = "RUNNING" THEN pc' = "wait" /\ at' = j ELSE UNCHANGED <<pc, at>>
  /\ UNCHANGED <<files, jobs, state, pid, startup, started, stall, prog, ctl>>

Ended(status) ==
  /\ state' = [state EXCEPT ![at] =
       IF files.mode[at] = "exit" /\ status = 0 THEN "EXITED" ELSE "FAILED"]
  /\ pid' = [pid EXCEPT ![at] = NIL]
  /\ pc' = "pipes" /\ at' = 0
  /\ UNCHANGED <<files, jobs, pipe_fd, startup, started, revents, stall, prog, ctl>>

(* waitpid(): a program that has ended is not found, and its status stays  *)
(* what it was initialised with.                                           *)
WaitGone == pc = "wait" /\ ~Runs(pid[at]) /\ Ended(0)

WaitSleep ==
  /\ pc = "wait" /\ Runs(pid[at]) /\ pc' = "asleep"
  /\ UNCHANGED <<files, jobs, state, pid, pipe_fd, startup, at, started, revents, stall, prog, ctl>>

WaitWoken == pc = "asleep" /\ ~Runs(pid[at]) /\ Ended(prog[pid[at]].status)
-----------------------------------------------------------------------------
(* The end of a round. *)
RoundEnd == pc = "pipes" /\ revents = {}

Progressed == started \/ Pending = {} \/ \E j \in jobs : state[j] = "RUNNING"

Continue_Sticky ==
  /\ RoundEnd /\ startup /\ (Progressed \/ stall + 1 < StallLimit)
  /\ stall' = IF Progressed THEN 0 ELSE stall
  /\ startup' = (Pending # {})
  /\ pc' = (IF Pending # {} THEN "start" ELSE "poll")
  /\ started' = FALSE
  /\ UNCHANGED <<files, jobs, state, pid, pipe_fd, at, revents, prog, ctl>>

Continue ==
  /\ RoundEnd /\ startup /\ (Progressed \/ stall + 1 < StallLimit)
  /\ stall' = IF Progressed THEN 0 ELSE stall + 1
  /\ startup' = (Pending # {})
  /\ pc' = (IF Pending # {} THEN "start" ELSE "poll")
  /\ started' = FALSE
  /\ UNCHANGED <<files, jobs, state, pid, pipe_fd, at, revents, prog, ctl>>

GiveUp ==
  /\ RoundEnd /\ startup /\ ~Progressed /\ stall + 1 >= StallLimit
  /\ state' = [j \in Job |-> IF j \in jobs /\ state[j] = "PENDING" THEN "FAILED" ELSE state[j]]
  /\ startup' = FALSE /\ pc' = "poll" /\ started' = FALSE /\ stall' = 0
  /\ UNCHANGED <<files, jobs, pid, pipe_fd, at, revents, prog, ctl>>

ServiceRound ==
  /\ RoundEnd /\ ~startup /\ pc' = "poll"
  /\ UNCHANGED <<files, jobs, state, pid, pipe_fd, startup, at, started, revents, stall, prog, ctl>>

InitNext ==
  \/ StartPass \/ StartPassEnd \/ Poll \/ ServeOther
  \/ \E j \in Job : ServeStart(j) \/ ServeStop(j) \/ ReadLine(j) \/ HangUp(j)
  \/ WaitGone \/ WaitSleep \/ WaitWoken
  \/ Continue \/ GiveUp \/ ServiceRound

(* Only what makes a difference for the mode of the job. *)
Line(p) == CASE Mode(p) = "exit" -> {} [] Mode(p) = "stdout" -> {"pattern"}
             [] OTHER -> {"other"}
Status(p) == IF Mode(p) = "exit" /\ ~prog[p].killed THEN {0, 1} ELSE {0}

ProgramNext(p) ==
  \/ \E line \in Line(p) : PrintLine(p, line)
  \/ CloseOutput(p)
  \/ \E status \in Status(p) : End(p, status)

Next == InitNext \/ (\E p \in DOMAIN prog : ProgramNext(p)) \/ Connect \/ Send

(* Init goes on; a program that init waits for gets ready or ends; and a   *)
(* client that has connected sends a request or goes away.                 *)
GetsReady(p) ==
  /\ p \in DOMAIN prog
  /\ CASE Mode(p) = "exit"   -> \E status \in {0, 1} : End(p, status)
       [] Mode(p) = "stdout" -> /\ ~prog[p].matched
                                /\ PrintLine(p, "pattern") \/ End(p, 1)
       [] OTHER -> FALSE

Fairness ==
  WF_vars(InitNext) /\ WF_vars(Send) /\ \A p \in 1 .. MaxPid : WF_vars(GetsReady(p))

Spec == Init /\ [][Next]_vars /\ Fairness
-----------------------------------------------------------------------------
(* A job has one program at a time, the one that init knows; others of the *)
(* job have been told to stop.  No request or late end of a pipe makes     *)
(* init lose a program that runs, or start a second one.                   *)
OneProgramEach ==
  \A p \in DOMAIN prog : Runs(p) /\ ~prog[p].killed => pid[prog[p].job] = p

(* What poll() reported still holds when the pipe is read, whatever the    *)
(* request that was served in between did: init never sleeps in read().    *)
ReadsNeverSleep ==
  pc = "pipes" => \A j \in revents : pipe_fd[j] # NIL => j \in Readable

(* The startup ends: circular dependencies are given up, and those on a    *)
(* job that has failed.                                                    *)
StartupEnds == <>(~startup)

(* A client of the control socket gets its answer, during the startup and  *)
(* afterwards: init is not left waiting for a program.                     *)
ClientsServed == ctl = <<"connected">> ~> ctl = <<"idle">>

(* The header of init.c: a oneshot job is "ready on exit 0".               *)
LastOf(j) == {p \in DOMAIN prog : prog[p].job = j /\ \A q \in DOMAIN prog : prog[q].job = j => q <= p}

ReadyOnExitZero ==
  \A j \in jobs : \A p \in LastOf(j) :
    state[j] = "EXITED" /\ ~prog[p].killed => prog[p].status = 0
=============================================================================
