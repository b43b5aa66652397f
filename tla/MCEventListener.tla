-------------------------- MODULE MCEventListener ---------------------------
(* EventListener for TLC: what handlers report of one pod.                   *)
EXTENDS EventListener

MCReport(outcome, namespace, uid) ==
  [outcome |-> outcome, namespace |-> {namespace}, pod_name |-> {"pod"},
   pod_uid |-> {[id |-> uid, digits |-> "hex", sep |-> "-", len |-> 36]}]

Uploaded   == MCReport("uploaded", <<"a", "-", "a">>, "u")
Suppressed == MCReport("suppressed", <<"a", "-", "a">>, "u")
Failed     == [MCReport("failed", <<"a">>, "u") EXCEPT !.namespace = {}, !.pod_name = {}]
BadName    == MCReport("uploaded", <<"a", "-">>, "u")

\* Two keys, or one, and reports no Event is posted for.
MCReports2 == {Uploaded, Suppressed, Failed}
MCReports1 == {Uploaded, BadName}
=============================================================================
