----------------------------- MODULE ByteStream -----------------------------
(***************************************************************************)
(* What a pipe promises (abstract specification).  A pipe is a stream of   *)
(* bytes: what is written is appended, what is read is taken from the      *)
(* front, end-of-file is only reported on a drained pipe without writers   *)
(* and a broken pipe only without readers.  An end that is closed stays    *)
(* closed until the pipe is gone.                                          *)
(***************************************************************************)
EXTENDS Sequences, Naturals

CONSTANTS Pipe, Byte, Capacity

VARIABLES
  stream,   \* the bytes that are in each pipe, oldest first
  open,     \* the ends of each pipe that are open
  io        \* what the last step gave to a program: [op, pipe, bytes]

svars == <<stream, open, io>>

Done(op, p, s) == io' = [op |-> op, pipe |-> p, bytes |-> s]

Nothing == io' = [op |-> "none"]

StreamInit ==
  /\ stream = [p \in Pipe |-> <<>>]
  /\ open = [p \in Pipe |-> {}]
  /\ io = [op |-> "none"]

Create(p) ==
  /\ open[p] = {} /\ open' = [open EXCEPT ![p] = {"r", "w"}]
  /\ stream' = [stream EXCEPT ![p] = <<>>]
  /\ Nothing

Put(p, s) ==
  /\ open[p] = {"r", "w"} /\ s # <<>>
  /\ Len(stream[p] \o s) <= Capacity
  /\ stream' = [stream EXCEPT ![p] = @ \o s]
  /\ Nothing
  /\ UNCHANGED open

Take(p, n) ==
  /\ "r" \in open[p] /\ n \in 1 .. Len(stream[p])
  /\ stream' = [stream EXCEPT ![p] = SubSeq(@, n + 1, Len(@))]
  /\ Done("read", p, SubSeq(stream[p], 1, n))
  /\ UNCHANGED open

EndOfFile(p) ==
  /\ open[p] = {"r"} /\ stream[p] = <<>>
  /\ Done("eof", p, <<>>) /\ UNCHANGED <<stream, open>>

Broken(p) ==
  /\ open[p] = {"w"}
  /\ Done("epipe", p, <<>>) /\ UNCHANGED <<stream, open>>

(* Ends are closed by close(), by dup2() over a descriptor and at exit,    *)
(* several at once.  What is left in a pipe without ends is lost.          *)
Shut ==
  /\ open' \in [Pipe -> SUBSET {"r", "w"}]
  /\ \A p \in Pipe : open'[p] \subseteq open[p]
  /\ stream' = [p \in Pipe |-> IF open'[p] = {} THEN <<>> ELSE stream[p]]
  /\ Nothing

StreamNext ==
  \/ \E p \in Pipe :
       \/ Create(p) \/ EndOfFile(p) \/ Broken(p)
       \/ \E n \in 1 .. Capacity : Take(p, n) \/ \E s \in [1 .. n -> Byte] : Put(p, s)
  \/ Shut

StreamSpec == StreamInit /\ [][StreamNext]_svars
=============================================================================
