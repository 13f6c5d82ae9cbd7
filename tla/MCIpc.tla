------------------------------- MODULE MCIpc --------------------------------
(* Small instances of pipes, descriptors and poll.                         *)
EXTENDS Poll, TLC

MCPayload == {<<0, 1>>}
MCWaits == {<<"poll", -1>>, <<"select", 1>>}
=============================================================================
