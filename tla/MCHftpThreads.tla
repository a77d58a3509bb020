------------------------------ MODULE MCHftpThreads -----------------------------
(* TLC instances of HftpThreads.  Workers, slots and descriptors are numbers,   *)
(* because the program always takes the lowest one, so there is no symmetry.    *)
EXTENDS HftpThreads

OneGet == <<{"get"}>>
TwoGets == <<{"get"}, {"get"}>>
GetThenPut == <<{"get"}, {"put"}>>
ThreeDeletes == <<{"delete"}, {"delete"}, {"delete"}>>

NoFaults == {}
AllFaults == {"register", "interrupt", "file", "endless", "hangup"}
HangUps == {"hangup"}
=================================================================================
