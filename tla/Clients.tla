------------------------------- MODULE Clients -------------------------------
(* A client and the server: the client is either of the two programs.        *)
EXTENDS CameraClient, PythonClient

CONSTANT Typed         \* what the user of the script may type for a name

ASSUME TypedAssumption == Typed \subseteq Seq(STRING)

vars == <<linkvars, typed, servervars, main, camera, py_pc, sent>>

TypeOK == ServerTypeOK /\ CameraTypeOK /\ PyTypeOK

Init ==
    /\ ServerInit /\ CameraInit /\ PyInit
    /\ \/ /\ main = "login" /\ py_pc = "idle"
          /\ typed = [name |-> <<"hk">>, to |-> <<"william">>]
       \/ /\ main = "idle" /\ py_pc = "connect"
          /\ typed \in [name : Typed, to : Typed]

ServerSteps == Server /\ UNCHANGED <<main, camera, py_pc, sent>>
CameraSteps == Camera /\ UNCHANGED <<py_pc, sent>>
PythonSteps == Python /\ UNCHANGED <<main, camera>>

Next == ServerSteps \/ CameraSteps \/ PythonSteps

Spec == Init /\ [][Next]_vars

=============================================================================
