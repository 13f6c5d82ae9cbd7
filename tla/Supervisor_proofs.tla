-------------------------- MODULE Supervisor_proofs --------------------------
(***************************************************************************)
(* One program for each job, and reads that never sleep: for any number of *)
(* jobs, any dependencies between them and any number of programs.         *)
(***************************************************************************)
EXTENDS Supervisor, TLAPS, WellFoundedInduction, SequenceTheorems

States == {"PENDING", "RUNNING", "READY", "FAILED", "EXITED"}
Up     == {"RUNNING", "READY"}

Programs ==
  [job : Job, alive : BOOLEAN, open : BOOLEAN, out : {NIL, "pattern", "other"},
   matched : BOOLEAN, status : Nat, killed : BOOLEAN]

Typed ==
  /\ jobs \subseteq Job /\ revents \subseteq Job
  /\ state \in [Job -> States]
  /\ pid \in [Job -> Nat \cup {NIL}] /\ pipe_fd \in [Job -> Nat \cup {NIL}]
  /\ prog \in Seq(Programs)
  /\ pc \in {"wait", "asleep"} => at \in Job

(* A job's program and pipe are its own. *)
Owned ==
  \A j \in Job :
    /\ pid[j] # NIL => pid[j] \in 1 .. Len(prog) /\ prog[pid[j]].job = j
    /\ pipe_fd[j] # NIL => pipe_fd[j] \in 1 .. Len(prog) /\ prog[pipe_fd[j]].job = j

(* Only a job that is up has them; this is what START relies on when it    *)
(* takes any other job for one without a program.                          *)
Idle ==
  \A j \in Job : pid[j] # NIL \/ pipe_fd[j] # NIL => j \in jobs /\ state[j] \in Up

(* The pipe of a program that init waits for has been closed. *)
Waits == pc \in {"wait", "asleep"} => pipe_fd[at] = NIL

(* What poll() reported stays readable until it is read: the program       *)
(* cannot take its output back, and START is refused to a job that is up.  *)
Reported ==
  /\ pc \in {"recv", "pipes", "wait", "asleep"} =>
       \A j \in revents : pipe_fd[j] # NIL => j \in Readable
  /\ pc = "recv" => \A j \in revents : pipe_fd[j] # NIL

SInv == Typed /\ Owned /\ Idle /\ Waits /\ Reported /\ OneProgramEach

LEMMA LeastOf ==
  ASSUME NEW S, S \subseteq Nat, S # {}
  PROVE  Least(S) \in S
<1>1. PICK x \in S : \A y \in S : ~(<<y, x>> \in OpToRel(<, Nat))
  BY NatLessThanWellFounded, WFMin
<1>2. \A y \in S : x <= y
  <2> TAKE y \in S
  <2>1. <<y, x>> \in Nat \X Nat
    OBVIOUS
  <2>2. ~(y < x)
    BY <1>1, <2>1, ZenonT(20) DEF OpToRel
  <2> QED
    BY <2>2
<1> QED
  BY <1>2 DEF Least

LEMMA Constants ==
  Job \subseteq Nat /\ NIL \notin Nat
BY SupervisorAssumption
-----------------------------------------------------------------------------
(* start_job() of a job that has no program, by StartPass or START.        *)
LEMMA StartJob ==
  ASSUME SInv, NEW j \in Job, state[j] \notin Up \/ j \notin jobs, start_job(j),
         jobs \cup {j} \subseteq jobs', jobs' \subseteq Job
  PROVE  /\ state' \in [Job -> States] /\ prog' \in Seq(Programs)
         /\ pid' \in [Job -> Nat \cup {NIL}] /\ pipe_fd' \in [Job -> Nat \cup {NIL}]
         /\ Owned' /\ Idle' /\ OneProgramEach'
         /\ pipe_fd[j] = NIL /\ \A i \in Job \ {j} : pipe_fd'[i] = pipe_fd[i]
         /\ Len(prog') >= Len(prog)
         /\ \A p \in 1 .. Len(prog) : prog'[p] = prog[p]
<1> USE DEF SInv
<1>1. pid[j] = NIL /\ pipe_fd[j] = NIL
  BY DEF Idle
<1>2. /\ state \in [Job -> States] /\ prog \in Seq(Programs) /\ Len(prog) \in Nat
      /\ pid \in [Job -> Nat \cup {NIL}] /\ pipe_fd \in [Job -> Nat \cup {NIL}]
      /\ DOMAIN prog = 1 .. Len(prog) /\ jobs \subseteq Job /\ NIL \notin Nat
  BY Constants DEF Typed
<1>3. ASSUME Runs(Len(prog) + 1) PROVE FALSE
  BY <1>2, <1>3 DEF Runs
<1>4. CASE /\ state' = [state EXCEPT ![j] = "FAILED"]
           /\ pid' = [pid EXCEPT ![j] = NIL] /\ pipe_fd' = [pipe_fd EXCEPT ![j] = NIL]
           /\ UNCHANGED prog
  <2>1. pid' = pid /\ pipe_fd' = pipe_fd /\ prog' = prog
    BY <1>1, <1>2, <1>4
  <2>2. state' \in [Job -> States] /\ \A i \in Job \ {j} : state'[i] = state[i]
    BY <1>2, <1>4 DEF States
  <2>3. Owned' /\ OneProgramEach'
    BY <2>1 DEF Owned, OneProgramEach, Runs
  <2>4. Idle'
    BY <1>1, <2>1, <2>2 DEF Idle
  <2> QED
    BY <1>1, <1>2, <2>1, <2>2, <2>3, <2>4
<1>5. CASE /\ Len(prog) < MaxPid
           /\ prog' = Append(prog, NewProgram(j))
           /\ pid' = [pid EXCEPT ![j] = Len(prog) + 1]
           /\ pipe_fd' = [pipe_fd EXCEPT ![j] = Len(prog) + 1]
           /\ state' = [state EXCEPT ![j] = IF files.mode[j] = "start" THEN "READY" ELSE "RUNNING"]
  <2>1. NewProgram(j) \in Programs /\ NewProgram(j).job = j
    BY DEF NewProgram, Programs
  <2>2. /\ prog' \in Seq(Programs) /\ Len(prog') = Len(prog) + 1
        /\ \A p \in 1 .. Len(prog) : prog'[p] = prog[p]
        /\ prog'[Len(prog) + 1] = NewProgram(j)
    BY <1>2, <1>5, <2>1, AppendProperties
  <2>3. DOMAIN prog' = 1 .. Len(prog) + 1
    BY <1>2, <2>2, LenProperties
  <2>4. /\ state' \in [Job -> States] /\ state'[j] \in Up
        /\ \A i \in Job \ {j} : state'[i] = state[i]
    BY <1>2, <1>5 DEF States, Up
  <2>5. /\ pid' \in [Job -> Nat \cup {NIL}] /\ pipe_fd' \in [Job -> Nat \cup {NIL}]
        /\ pid'[j] = Len(prog) + 1 /\ pipe_fd'[j] = Len(prog) + 1
        /\ \A i \in Job \ {j} : pid'[i] = pid[i] /\ pipe_fd'[i] = pipe_fd[i]
    BY <1>2, <1>5
  <2>6. Owned'
    BY <1>2, <2>1, <2>2, <2>5 DEF Owned
  <2>7. Idle'
    BY <2>4, <2>5 DEF Idle
  <2>8. OneProgramEach'
    <3> SUFFICES ASSUME NEW p \in DOMAIN prog', Runs(p)', ~prog'[p].killed
                 PROVE  pid'[prog'[p].job] = p
      BY DEF OneProgramEach
    <3>1. CASE p = Len(prog) + 1
      BY <2>1, <2>2, <2>5, <3>1
    <3>2. CASE p \in 1 .. Len(prog)
      <4>0. prog'[p] = prog[p] /\ prog[p] \in Programs
        BY <1>2, <2>2, <3>2, ElementOfSeq
      <4>1. prog'[p] = prog[p] /\ Runs(p) /\ prog[p].job \in Job
        BY <1>2, <3>2, <4>0 DEF Runs, Programs
      <4>2. pid[prog[p].job] = p
        BY <1>2, <3>2, <4>1 DEF OneProgramEach
      <4>3. prog[p].job # j
        BY <1>1, <1>2, <3>2, <4>2
      <4> QED
        BY <2>5, <4>1, <4>2, <4>3
    <3> QED
      BY <1>2, <2>3, <3>1, <3>2
  <2> QED
    BY <1>1, <1>2, <2>2, <2>4, <2>5, <2>6, <2>7, <2>8
<1> QED
  BY <1>4, <1>5 DEF start_job

(* A program changes: it keeps its job and never comes back to life.       *)
LEMMA ProgramChange ==
  ASSUME SInv, NEW p \in 1 .. Len(prog), NEW r \in Programs,
         prog' = [prog EXCEPT ![p] = r],
         r.job = prog[p].job, r.alive => prog[p].alive, prog[p].killed => r.killed
  PROVE  /\ prog' \in Seq(Programs) /\ Len(prog') = Len(prog)
         /\ prog'[p] = r /\ \A x \in 1 .. Len(prog) : x # p => prog'[x] = prog[x]
         /\ \A x \in 1 .. Len(prog) : prog'[x].job = prog[x].job /\ prog[x] \in Programs
         /\ UNCHANGED <<pid, pipe_fd>> => Owned' /\ OneProgramEach'
<1> USE DEF SInv
<1>1. /\ prog \in Seq(Programs) /\ Len(prog) \in Nat /\ DOMAIN prog = 1 .. Len(prog)
      /\ \A x \in 1 .. Len(prog) : prog[x] \in Programs
  BY DEF Typed
<1>2. /\ prog' \in Seq(Programs) /\ Len(prog') = Len(prog)
      /\ \A x \in 1 .. Len(prog) : prog'[x] = IF x = p THEN r ELSE prog[x]
  BY <1>1, ExceptSeq
<1>3. DOMAIN prog' = 1 .. Len(prog)
  BY <1>1, <1>2, LenProperties
<1>4. ASSUME UNCHANGED <<pid, pipe_fd>> PROVE Owned' /\ OneProgramEach'
  <2>1. Owned'
    BY <1>2, <1>4 DEF Owned
  <2>2. ASSUME NEW x \in DOMAIN prog', Runs(x)', ~prog'[x].killed
        PROVE  pid'[prog'[x].job] = x
    <3>1. Runs(x) /\ ~prog[x].killed /\ prog'[x].job = prog[x].job
      BY <1>1, <1>2, <1>3, <2>2 DEF Runs
    <3> QED
      BY <1>1, <1>3, <1>4, <3>1 DEF OneProgramEach
  <2> QED
    BY <2>1, <2>2 DEF OneProgramEach
<1> QED
  BY <1>1, <1>2, <1>4
-----------------------------------------------------------------------------
LEMMA InitS ==
  ASSUME Init
  PROVE  SInv
<1>1. files.loaded \subseteq Job
  BY SupervisorAssumption DEF Init
<1>2. prog = <<>> /\ Len(prog) = 0 /\ prog \in Seq(Programs) /\ DOMAIN prog = {}
  BY DEF Init
<1> QED
  BY <1>1, <1>2 DEF Init, SInv, Typed, States, Owned, Idle, Waits, Reported, OneProgramEach, Runs

(* Steps of the programs, and of the client.                               *)
LEMMA ProgramS ==
  ASSUME SInv, NEW p \in DOMAIN prog, ProgramNext(p)
  PROVE  SInv'
<1> USE DEF SInv
<1>1. UNCHANGED <<files, jobs, state, pid, pipe_fd, loop, ctl>>
  BY DEF ProgramNext, PrintLine, CloseOutput, End
<1>2. prog \in Seq(Programs) /\ DOMAIN prog = 1 .. Len(prog)
  BY LenProperties DEF Typed
<1>3. PICK old \in Programs : old = prog[p]
  BY <1>2, ElementOfSeq
<1> DEFINE Fits(r) ==
      /\ prog' = [prog EXCEPT ![p] = r] /\ r.job = old.job
      /\ (r.alive => old.alive) /\ (old.killed => r.killed)
      /\ old.out # NIL \/ ~old.open => r.out # NIL \/ ~r.open
<1>4. PICK r \in Programs : Fits(r)
  <2>1. ASSUME NEW line \in Line(p), PrintLine(p, line)
        PROVE  \E r \in Programs : Fits(r)
    <3> DEFINE m == (old.matched \/ line = "pattern")
               r == [old EXCEPT !.out = line, !.matched = m]
    <3>1. line \in {"pattern", "other"} /\ m \in BOOLEAN
      BY <2>1 DEF Line, Programs
    <3>2. old.open /\ old.out = NIL /\ prog' = [prog EXCEPT ![p] = r]
      BY <1>2, <1>3, <2>1 DEF PrintLine, Heard
    <3> HIDE DEF m
    <3>3. r \in Programs /\ r.job = old.job /\ r.alive = old.alive /\ r.killed = old.killed
      BY <3>1 DEF Programs
    <3> HIDE DEF r
    <3> QED
      BY <3>2, <3>3
  <2>2. ASSUME CloseOutput(p) PROVE \E r \in Programs : Fits(r)
    <3> DEFINE r == [old EXCEPT !.open = FALSE]
    <3>1. prog' = [prog EXCEPT ![p] = r]
      BY <1>3, <2>2 DEF CloseOutput
    <3>2. /\ r \in Programs /\ r.job = old.job /\ r.alive = old.alive
          /\ r.killed = old.killed /\ ~r.open
      BY DEF Programs
    <3> HIDE DEF r
    <3> QED
      BY <3>1, <3>2
  <2>3. ASSUME NEW status \in Status(p), End(p, status) PROVE \E r \in Programs : Fits(r)
    <3> DEFINE r == [old EXCEPT !.alive = FALSE, !.open = FALSE, !.status = status]
    <3>0. status \in Nat
      BY <2>3 DEF Status
    <3>1. prog' = [prog EXCEPT ![p] = r]
      BY <1>2, <1>3, <2>3 DEF End
    <3>2. r \in Programs /\ r.job = old.job /\ ~r.alive /\ r.killed = old.killed /\ ~r.open
      BY <3>0 DEF Programs
    <3> HIDE DEF r
    <3> QED
      BY <3>1, <3>2
  <2> QED
    BY <2>1, <2>2, <2>3 DEF ProgramNext
<1>5. /\ prog' \in Seq(Programs) /\ Len(prog') = Len(prog)
      /\ prog'[p] = r /\ \A x \in 1 .. Len(prog) : x # p => prog'[x] = prog[x]
      /\ \A x \in 1 .. Len(prog) : prog'[x].job = prog[x].job
      /\ Owned' /\ OneProgramEach'
  BY <1>1, <1>2, <1>3, <1>4, ProgramChange
<1>6. Typed' /\ Idle' /\ Waits'
  BY <1>1, <1>5 DEF Typed, Idle, Waits, loop
<1>7. ASSUME NEW j \in Readable, j \in Job PROVE j \in Readable'
  <2>1. /\ j \in jobs /\ pipe_fd[j] # NIL /\ pipe_fd[j] \in 1 .. Len(prog)
        /\ prog[pipe_fd[j]].out # NIL \/ ~prog[pipe_fd[j]].open
    BY <1>7 DEF Readable, Polled, Owned
  <2>2. prog'[pipe_fd[j]].out # NIL \/ ~prog'[pipe_fd[j]].open
    BY <1>3, <1>4, <1>5, <2>1
  <2> QED
    BY <1>1, <2>1, <2>2 DEF Readable, Polled
<1>8. Reported'
  BY <1>1, <1>7 DEF Reported, Typed, loop
<1> QED
  BY <1>5, <1>6, <1>8
-----------------------------------------------------------------------------
(* Steps of init that leave jobs and programs alone. *)
LEMMA QuietS ==
  ASSUME SInv, UNCHANGED <<files, jobs, state, pid, pipe_fd, prog>>,
         revents' \subseteq Job,
         pc' \in {"wait", "asleep"} => at' \in Job /\ pipe_fd[at'] = NIL,
         pc' \in {"recv", "pipes", "wait", "asleep"} =>
           \A j \in revents' : pipe_fd[j] # NIL => j \in Readable,
         pc' = "recv" => \A j \in revents' : pipe_fd[j] # NIL
  PROVE  SInv'
<1>1. Typed' /\ Owned' /\ Idle' /\ Waits' /\ OneProgramEach'
  BY DEF SInv, Typed, Owned, Idle, Waits, OneProgramEach, Runs
<1>2. Readable' = Readable
  BY DEF Readable, Polled
<1> QED
  BY <1>1, <1>2 DEF SInv, Reported

LEMMA LoopS ==
  ASSUME SInv, \/ StartPassEnd \/ Poll \/ ServeOther \/ WaitSleep \/ Continue \/ ServiceRound
               \/ Connect \/ Send \/ UNCHANGED vars
  PROVE  SInv'
<1> USE DEF SInv, Typed, Waits, Reported
<1>1. CASE StartPassEnd
  BY <1>1, QuietS DEF StartPassEnd
<1>2. CASE Poll
  BY <1>2, QuietS DEF Poll, Readable, Polled
<1>3. CASE ServeOther
  BY <1>3, QuietS DEF ServeOther, Served
<1>4. CASE WaitSleep
  BY <1>4, QuietS DEF WaitSleep
<1>5. CASE Continue
  <2>1. revents' = {}
    BY <1>5 DEF Continue, RoundEnd
  <2> QED
    BY <1>5, <2>1, QuietS DEF Continue
<1>6. CASE ServiceRound
  BY <1>6, QuietS DEF ServiceRound
<1>7. CASE Connect \/ Send \/ UNCHANGED vars
  BY <1>7, QuietS DEF Connect, Send, vars, loop
<1> QED
  BY <1>1, <1>2, <1>3, <1>4, <1>5, <1>6, <1>7

LEMMA StartPassS ==
  ASSUME SInv, StartPass
  PROVE  SInv'
<1> USE DEF SInv
<1>1. at' \in jobs /\ at' \in Job
  <2>1. Rest \subseteq Nat /\ Rest # {}
    BY Constants DEF StartPass, Rest, Typed
  <2> QED
    BY <2>1, LeastOf DEF StartPass, Rest, Typed
<1>2. UNCHANGED <<files, jobs, startup, pc, revents, stall, ctl>> /\ pc = "start"
  BY DEF StartPass
<1>3. CASE state[at'] = "PENDING" /\ start_job(at')
  <2>1. /\ state' \in [Job -> States] /\ prog' \in Seq(Programs)
        /\ pid' \in [Job -> Nat \cup {NIL}] /\ pipe_fd' \in [Job -> Nat \cup {NIL}]
        /\ Owned' /\ Idle' /\ OneProgramEach'
    BY <1>1, <1>2, <1>3, StartJob DEF Typed, Up
  <2> QED
    BY <1>2, <2>1 DEF Typed, Waits, Reported
<1>4. CASE UNCHANGED <<state, pid, pipe_fd, prog, started>>
  BY <1>2, <1>4, QuietS DEF Typed
<1> QED
  BY <1>3, <1>4 DEF StartPass

(* START: a job that poll() has reported is up, and refused.               *)
LEMMA ServeStartS ==
  ASSUME SInv, NEW j \in Job, ServeStart(j)
  PROVE  SInv'
<1> USE DEF SInv
<1>1. /\ pc = "recv" /\ pc' = "pipes" /\ revents' = revents /\ jobs' = jobs \cup {j}
      /\ files' = files
  BY DEF ServeStart, Served
<1>2. jobs' \subseteq Job /\ revents' \subseteq Job
  BY <1>1 DEF Typed
<1>3. CASE j \in jobs /\ UNCHANGED <<state, pid, pipe_fd, prog>>
  <2>1. jobs' = jobs
    BY <1>1, <1>3
  <2> QED
    BY <1>1, <1>2, <1>3, <2>1, QuietS DEF Reported
<1>4. CASE ~(j \in jobs /\ state[j] \in {"RUNNING", "READY"}) /\ start_job(j)
  <2>1. /\ state' \in [Job -> States] /\ prog' \in Seq(Programs)
        /\ pid' \in [Job -> Nat \cup {NIL}] /\ pipe_fd' \in [Job -> Nat \cup {NIL}]
        /\ Owned' /\ Idle' /\ OneProgramEach'
        /\ pipe_fd[j] = NIL /\ \A i \in Job \ {j} : pipe_fd'[i] = pipe_fd[i]
        /\ \A p \in 1 .. Len(prog) : prog'[p] = prog[p]
    BY <1>1, <1>2, <1>4, StartJob DEF Up
  <2>2. ASSUME NEW i \in revents PROVE i \in Readable'
    <3>1. i \in Job /\ pipe_fd[i] # NIL /\ i \in Readable /\ i # j
      BY <1>1, <2>1, <2>2 DEF Reported, Typed
    <3>2. pipe_fd'[i] = pipe_fd[i] /\ pipe_fd[i] \in 1 .. Len(prog)
      BY <2>1, <3>1 DEF Owned
    <3> QED
      BY <1>1, <2>1, <3>1, <3>2 DEF Readable, Polled
  <2>3. Typed' /\ Waits' /\ Reported'
    BY <1>1, <1>2, <2>1, <2>2 DEF Typed, Waits, Reported
  <2> QED
    BY <2>1, <2>3
<1> QED
  BY <1>3, <1>4 DEF ServeStart

(* STOP: the pipe that it closes may be one that poll() has reported; the  *)
(* other reported pipes are those of other programs.                       *)
LEMMA ServeStopS ==
  ASSUME SInv, NEW j \in Job, ServeStop(j)
  PROVE  SInv'
<1> USE DEF SInv
<1>1. pc = "recv" /\ pc' = "pipes" /\ UNCHANGED <<files, jobs, revents>>
  BY DEF ServeStop, Served
<1>2. CASE UNCHANGED <<state, pid, pipe_fd, prog>>
  BY <1>1, <1>2, QuietS DEF Reported, Typed
<1>3. CASE /\ pid[j] # NIL
           /\ state' = [state EXCEPT ![j] = "EXITED"]
           /\ pid' = [pid EXCEPT ![j] = NIL]
           /\ prog' = [prog EXCEPT ![pid[j]].killed = TRUE, ![pid[j]].out = NIL]
           /\ pipe_fd' = [pipe_fd EXCEPT ![j] = NIL]
  <2> DEFINE p == pid[j]
  <2>1. p \in 1 .. Len(prog) /\ prog[p].job = j /\ prog \in Seq(Programs)
    BY <1>3 DEF Owned, Typed
  <2>2. PICK old \in Programs : old = prog[p]
    BY <2>1, ElementOfSeq
  <2> DEFINE r == [old EXCEPT !.killed = TRUE, !.out = NIL]
  <2>3. prog' = [prog EXCEPT ![p] = r]
    BY <1>3, <2>1, <2>2
  <2>4. r \in Programs /\ r.job = old.job /\ r.alive = old.alive /\ r.killed
    BY DEF Programs
  <2> HIDE DEF r
  <2>5. /\ prog' \in Seq(Programs) /\ Len(prog') = Len(prog) /\ prog'[p] = r
        /\ \A x \in 1 .. Len(prog) : x # p => prog'[x] = prog[x]
        /\ \A x \in 1 .. Len(prog) : prog'[x].job = prog[x].job
    BY <2>1, <2>2, <2>3, <2>4, ProgramChange
  <2>6. /\ state' \in [Job -> States]
        /\ pid' \in [Job -> Nat \cup {NIL}] /\ pid'[j] = NIL
        /\ pipe_fd' \in [Job -> Nat \cup {NIL}] /\ pipe_fd'[j] = NIL
        /\ \A i \in Job \ {j} : /\ pid'[i] = pid[i] /\ pipe_fd'[i] = pipe_fd[i]
                                /\ state'[i] = state[i]
    BY <1>3 DEF Typed, States
  <2> HIDE DEF p
  <2>7. Typed' /\ Owned' /\ Idle' /\ Waits'
    BY <1>1, <2>1, <2>5, <2>6 DEF Typed, Owned, Idle, Waits
  <2>8. ASSUME NEW i \in revents, pipe_fd'[i] # NIL PROVE i \in Readable'
    <3>1. i \in Job /\ i # j /\ i \in Readable /\ pipe_fd'[i] = pipe_fd[i]
      BY <1>1, <2>6, <2>8 DEF Reported, Typed
    <3>2. pipe_fd[i] \in 1 .. Len(prog) /\ pipe_fd[i] # p
      BY <2>1, <2>6, <2>8, <3>1 DEF Owned
    <3> QED
      BY <1>1, <2>5, <2>8, <3>1, <3>2 DEF Readable, Polled
  <2>9. Reported'
    BY <1>1, <2>8 DEF Reported
  <2>10. ASSUME NEW x \in DOMAIN prog', Runs(x)', ~prog'[x].killed
         PROVE  pid'[prog'[x].job] = x
    <3>1. x \in 1 .. Len(prog) /\ x # p
      BY <2>4, <2>5, <2>10, LenProperties
    <3>2. prog[x] \in Programs /\ prog'[x] = prog[x]
      BY <2>1, <2>5, <3>1, ElementOfSeq
    <3>3. Runs(x) /\ ~prog[x].killed /\ prog[x].job \in Job /\ x \in DOMAIN prog
      BY <2>1, <2>10, <3>1, <3>2, LenProperties DEF Runs, Programs
    <3>4. pid[prog[x].job] = x
      BY <3>3 DEF OneProgramEach
    <3>5. prog[x].job # j
      BY <3>1, <3>4 DEF p
    <3> QED
      BY <2>6, <3>2, <3>3, <3>4, <3>5
  <2>11. OneProgramEach'
    BY <2>10 DEF OneProgramEach
  <2> QED
    BY <2>7, <2>9, <2>11
<1> QED
  BY <1>2, <1>3 DEF ServeStop

(* process_pipe() takes the line of one job, and the rest keep theirs.     *)
LEMMA ReadLineS ==
  ASSUME SInv, NEW j \in Job, ReadLine(j)
  PROVE  SInv'
<1> USE DEF SInv
<1> DEFINE p == pipe_fd[j]
<1>1. /\ UNCHANGED <<files, jobs, pid, pipe_fd, pc, at>> /\ pc = "pipes"
      /\ revents' = revents \ {j}
  BY DEF ReadLine, Turn
<1>2. /\ p \in 1 .. Len(prog) /\ prog[p].job = j /\ prog \in Seq(Programs)
      /\ prog' = [prog EXCEPT ![p].out = NIL]
  BY DEF ReadLine, Owned, Typed
<1>3. PICK old \in Programs : old = prog[p]
  BY <1>2, ElementOfSeq
<1> DEFINE r == [old EXCEPT !.out = NIL]
<1>4. prog' = [prog EXCEPT ![p] = r]
  BY <1>2, <1>3
<1>5. r \in Programs /\ r.job = old.job /\ r.alive = old.alive /\ r.killed = old.killed
  BY DEF Programs
<1> HIDE DEF r
<1>6. /\ prog' \in Seq(Programs) /\ Len(prog') = Len(prog)
      /\ \A x \in 1 .. Len(prog) : x # p => prog'[x] = prog[x]
      /\ Owned' /\ OneProgramEach'
  BY <1>1, <1>2, <1>3, <1>4, <1>5, ProgramChange
<1>7. /\ state' \in [Job -> States]
      /\ \A i \in Job : state'[i] = state[i] \/ (state[i] \in Up /\ state'[i] \in Up)
  BY DEF ReadLine, Typed, States, Up
<1>8. Typed' /\ Idle' /\ Waits'
  BY <1>1, <1>6, <1>7 DEF Typed, Idle, Waits
<1>9. ASSUME NEW i \in revents', pipe_fd'[i] # NIL PROVE i \in Readable'
  <2>1. i \in Job /\ i # j /\ i \in revents /\ i \in Readable /\ pipe_fd[i] # NIL
    BY <1>1, <1>9 DEF Reported, Typed
  <2>2. pipe_fd[i] \in 1 .. Len(prog) /\ pipe_fd[i] # p
    BY <1>2, <2>1 DEF Owned
  <2> QED
    BY <1>1, <1>6, <2>1, <2>2 DEF Readable, Polled
<1>10. Reported'
  BY <1>1, <1>9 DEF Reported
<1> QED
  BY <1>6, <1>8, <1>10

(* The end of the output: init drops the pipe, and the program with it     *)
(* once waitpid() has returned.                                            *)
LEMMA HangUpS ==
  ASSUME SInv, NEW j \in Job, HangUp(j)
  PROVE  SInv'
<1> USE DEF SInv
<1>1. /\ UNCHANGED <<files, jobs, state, pid, prog>> /\ pc = "pipes"
      /\ pc' \in {"pipes", "wait"} /\ revents' = revents \ {j}
      /\ pc' = "wait" => at' = j
  BY DEF HangUp, Turn
<1>2. /\ pipe_fd' \in [Job -> Nat \cup {NIL}] /\ pipe_fd'[j] = NIL
      /\ \A i \in Job \ {j} : pipe_fd'[i] = pipe_fd[i]
  BY DEF HangUp, Typed
<1>3. Typed' /\ Owned' /\ Idle' /\ Waits' /\ OneProgramEach'
  BY <1>1, <1>2 DEF Typed, Owned, Idle, Waits, OneProgramEach, Runs
<1>4. Reported'
  BY <1>1, <1>2 DEF Reported, Readable, Polled, Typed
<1> QED
  BY <1>3, <1>4

(* waitpid() has returned: the program that init forgets runs no more.     *)
LEMMA WaitS ==
  ASSUME SInv, WaitGone \/ WaitWoken
  PROVE  SInv'
<1> USE DEF SInv
<1>1. at \in Job /\ pipe_fd[at] = NIL /\ ~Runs(pid[at]) /\ pc \in {"wait", "asleep"}
  BY DEF WaitGone, WaitWoken, Typed, Waits
<1>2. /\ UNCHANGED <<files, jobs, pipe_fd, revents, prog>> /\ pc' = "pipes"
      /\ \E status : state' = [state EXCEPT ![at] =
           IF files.mode[at] = "exit" /\ status = 0 THEN "EXITED" ELSE "FAILED"]
      /\ pid' = [pid EXCEPT ![at] = NIL]
  BY DEF WaitGone, WaitWoken, Ended
<1>3. /\ state' \in [Job -> States] /\ pid' \in [Job -> Nat \cup {NIL}] /\ pid'[at] = NIL
      /\ \A i \in Job \ {at} : state'[i] = state[i] /\ pid'[i] = pid[i]
  BY <1>1, <1>2 DEF Typed, States
<1>4. Typed' /\ Owned' /\ Idle' /\ Waits'
  BY <1>1, <1>2, <1>3 DEF Typed, Owned, Idle, Waits
<1>5. Reported'
  BY <1>1, <1>2 DEF Reported, Readable, Polled
<1>6. ASSUME NEW x \in DOMAIN prog, Runs(x), ~prog[x].killed
      PROVE  pid'[prog[x].job] = x
  <2>1. prog[x] \in Programs
    BY ElementOfSeq, LenProperties DEF Typed
  <2>2. prog[x].job \in Job /\ pid[prog[x].job] = x
    BY <1>6, <2>1 DEF OneProgramEach, Programs
  <2> QED
    BY <1>1, <1>3, <1>6, <2>2
<1>7. OneProgramEach'
  BY <1>2, <1>6 DEF OneProgramEach, Runs
<1> QED
  BY <1>4, <1>5, <1>7

(* The startup is given up: the jobs that never started have no program.   *)
LEMMA GiveUpS ==
  ASSUME SInv, GiveUp
  PROVE  SInv'
<1> USE DEF SInv
<1>1. UNCHANGED <<files, jobs, pid, pipe_fd, at, revents, prog>> /\ pc' = "poll"
  BY DEF GiveUp
<1>2. /\ state' \in [Job -> States]
      /\ \A i \in Job : state[i] \in Up => state'[i] = state[i]
  BY DEF GiveUp, Typed, States, Up
<1> QED
  BY <1>1, <1>2 DEF Typed, Owned, Idle, Waits, Reported, OneProgramEach, Runs

LEMMA NextS ==
  ASSUME SInv, [Next]_vars
  PROVE  SInv'
<1>1. ASSUME NEW j \in Job, ServeStart(j) \/ ServeStop(j) \/ ReadLine(j) \/ HangUp(j)
      PROVE  SInv'
  BY <1>1, ServeStartS, ServeStopS, ReadLineS, HangUpS
<1> QED
  BY <1>1, LoopS, StartPassS, WaitS, GiveUpS, ProgramS DEF Next, InitNext

(* A job has one program, the one that init knows of: what start_job(),    *)
(* the request STOP and waitpid() do to the table together.                *)
THEOREM OneProgramEachHolds == Spec => []OneProgramEach
<1>1. SInv => OneProgramEach
  BY DEF SInv
<1> QED
  BY <1>1, InitS, NextS, PTL DEF Spec

(* init never sleeps in the read() of process_pipe(), whatever request it  *)
(* has served since poll() reported the pipe.                              *)
THEOREM ReadsNeverSleepHolds == Spec => []ReadsNeverSleep
<1>1. SInv => ReadsNeverSleep
  BY DEF SInv, Reported, ReadsNeverSleep
<1> QED
  BY <1>1, InitS, NextS, PTL DEF Spec
=============================================================================
