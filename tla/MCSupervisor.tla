---------------------------- MODULE MCSupervisor ----------------------------
(* Init with two jobs: chains of dependencies of each kind, a circular     *)
(* one, a job that is only started on request, and no jobs at boot.        *)
EXTENDS Supervisor

Boot(mode1, mode2, after1, after2, loaded, socket) ==
  [mode |-> <<mode1, mode2>>, after |-> <<after1, after2>>, loaded |-> loaded, ctl |-> socket]

MCJobFiles ==
  { Boot("exit", "stdout", {}, {1}, {1, 2}, "idle"),
    Boot("exit", "exit", {2}, {1}, {1, 2}, "down"),
    Boot("stdout", "start", {2}, {1}, {1, 2}, "idle"),
    Boot("start", "exit", {2}, {}, {1}, "idle"),
    Boot("start", "stdout", {}, {1}, {}, "idle") }
=============================================================================
