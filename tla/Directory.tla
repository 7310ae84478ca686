------------------------------ MODULE Directory ------------------------------
(***************************************************************************)
(* What the Go server's topology promises to the devices that report to it *)
(* and to the viewers of it: a device and a link are there once, by id,    *)
(* from a report until they expire, whatever objects stand for them and in *)
(* whatever order they are kept.                                           *)
(***************************************************************************)
EXTENDS Integers

CONSTANTS
  Report,     \* the <<source, target>> ids devices may report
  Root,       \* the server session
  DeleteAge   \* an entry goes when it is older

VARIABLES
  devices,   \* records of the id and the age of each device
  links      \* records of the ids and the age of each link

Init == devices = {} /\ links = {}

Expired(entry) == entry.age > DeleteAge
Older(entry) == IF Expired(entry) THEN entry ELSE [entry EXCEPT !.age = @ + 1]

\* The devices, when some have just been heard of.
Seen(ids) == {d \in devices : d.id \notin ids} \cup [id : ids, age : {0}]

Reported(s, t) ==
  /\ devices' = Seen({s, t})
  /\ links' = {l \in links : ~(l.source = s /\ l.target = t)} \cup
              {[source |-> s, target |-> t, age |-> 0]}

RootSeen ==
  /\ devices' = Seen({Root})
  /\ UNCHANGED links

Tick ==
  /\ devices' = {Older(d) : d \in devices}
  /\ links' = {Older(l) : l \in links}

ForgetDevice ==
  /\ \E d \in devices : Expired(d) /\ devices' = devices \ {d}
  /\ UNCHANGED links

ForgetLink ==
  /\ \E l \in links : Expired(l) /\ links' = links \ {l}
  /\ UNCHANGED devices

Next ==
  \/ \E p \in Report : Reported(p[1], p[2])
  \/ RootSeen
  \/ Tick
  \/ ForgetDevice
  \/ ForgetLink

Spec == Init /\ [][Next]_<<devices, links>>
=============================================================================
