-------------------------- MODULE MCProvideChannel --------------------------
(* Model checking instances of ProvideChannel.  Two files are enough for one *)
(* request to be mistaken for another or to wait behind it; the attach and   *)
(* the detach request only exist for the mounting workers.                   *)
EXTENDS ProvideChannel

CONSTANTS f1, f2, a1, d1

TwoFiles  == {f1, f2}
OneFile   == {f1}
OneAttach == {a1}
OneDetach == {d1}
Nothing   == {}

Http   == [type |-> "Downloading", pipeline |-> TRUE]
Device == [type |-> "Mounting", pipeline |-> TRUE]
Serial == [type |-> "Mounting", pipeline |-> FALSE]

AllWorkers  == {Http, Device, Serial}
HttpOnly    == {Http}
DeviceOnly  == {Device}

AllFaults  == {Faults}
=============================================================================
