------------------------------- MODULE EspOld -------------------------------
(***************************************************************************)
(* The first ESP8266 client, one sketch: tasks that check the WiFi and     *)
(* report to the parent, an access point of its own that is started after  *)
(* enough rounds, and the children that connect to it.                     *)
(*                                                                         *)
(* The program is one thread; the callbacks of the SDK and of the TCP      *)
(* library run where it yields: between two passes of loop() and in        *)
(* delay(1).  A delay() in a callback does not yield.  When tasks are due  *)
(* is left open, so that their intervals are not variables.  The time sync *)
(* and test tasks are never enabled.  Of the access points the scan sorts  *)
(* by signal, as WiFiScanner does, only the best is kept: `air' says       *)
(* whether a valid one is in range.                                        *)
(***************************************************************************)
EXTENDS Integers, Sequences, SequencesExt, FiniteSets

CONSTANTS
  Child,       \* children that may connect
  MaxClients,  \* MAX_AP_CLIENTS
  ApRuns       \* rounds after which the access point is started

ASSUME EspOldAssumption == MaxClients \in Nat \ {0} /\ ApRuns \in Nat

VARIABLES
  pc,          \* where loop() is
  needToConnectToStation, needToCreateAccessPoint, accessPointCrated,
  scan,        \* whether the SDK is scanning
  results,     \* whether the SDK still has the results WiFi.SSID(i) reads
  best,        \* sortedValidAPs[0].netIndex is not 255
  air,         \* a valid access point is in range
  target, link, ip,  \* the station: it has something to join, is linked, has a lease
  pingpong,    \* whether remPingPongTask is enabled
  runs,        \* its run counter, capped at ApRuns + 1
  parClient,   \* "closed", "connecting" or "connected"
  pb_buffer,   \* whose header and whose message are in it
  ap,          \* the access point: "never", "on" or "off" again
  chClients, chClientsCnt,
  children,    \* history: the children that were taken and are connected
  rounds       \* history: rounds begun since the last lease or connection, capped

station == <<scan, results, best, air, target, link, ip>>
server == <<ap, chClients, chClientsCnt, children>>
flags == <<needToConnectToStation, needToCreateAccessPoint, accessPointCrated>>
task == <<pingpong, runs, parClient, pb_buffer, rounds>>
vars == <<pc, flags, station, server, task>>

Free == "free"
Own == [header |-> "own", message |-> "own"]

\* States in which callbacks run.
Yields == pc \in {"loop", "ensure", "sent", "asked", "sleep"}

Init ==
  /\ pc = "loop"
  /\ needToConnectToStation = FALSE
  /\ needToCreateAccessPoint = FALSE
  /\ accessPointCrated = FALSE
  /\ scan = FALSE /\ results = FALSE /\ best = FALSE
  /\ air \in BOOLEAN
  /\ target = FALSE /\ link = FALSE /\ ip = FALSE
  /\ pingpong = FALSE /\ runs = 0
  /\ parClient = "closed"
  /\ pb_buffer = Own
  /\ ap = "never"
  /\ chClients = [i \in 1..MaxClients |-> Free]
  /\ chClientsCnt = 0
  /\ children = <<>>
  /\ rounds = 0

---------------------------------------------------------------------------
(* runner.execute(): wifiCheckTask, then remPingPongTask.                  *)

\* Variant: only the flag is looked at, which onStationDisconnected means to set.
FlagOnly == needToConnectToStation

MayCheck == ~ip \/ needToConnectToStation

\* A scan that goes on is not started again; a new one deletes the results.
wifiCheckCallback ==
  /\ pc = "loop"
  /\ pc' = "checked"
  /\ IF MayCheck THEN scan' = TRUE /\ results' = (results /\ scan)
                 ELSE UNCHANGED <<scan, results>>
  /\ UNCHANGED <<flags, best, air, target, link, ip, server, task>>

Bumped(n) == IF n <= ApRuns THEN n + 1 ELSE n

\* remPingPongTask is due: ensureParentConnected, which delays if it connects.
EnsureParent ==
  /\ pc \in {"loop", "checked"}
  /\ pingpong
  /\ runs' = Bumped(runs)
  /\ rounds' = Bumped(rounds)
  /\ IF parClient = "closed"
     THEN pc' = "ensure" /\ parClient' = IF ip THEN "connecting" ELSE "closed"
     ELSE pc' = "round" /\ UNCHANGED parClient
  /\ UNCHANGED <<flags, station, server, pingpong, pb_buffer>>

\* The buffer is filled, with a ping or every other round with a topology, and
\* written, then delay(1).
Round ==
  /\ pc \in {"ensure", "round"}
  /\ pc' = "sent"
  /\ pb_buffer' = Own
  /\ UNCHANGED <<flags, station, server, pingpong, runs, parClient, rounds>>

\* After the delay: enough rounds ask for the access point; then delay(1).
RoundEnd ==
  /\ pc = "sent"
  /\ pc' = "asked"
  /\ needToCreateAccessPoint' =
       (needToCreateAccessPoint \/ (~accessPointCrated /\ runs > ApRuns))
  /\ UNCHANGED <<needToConnectToStation, accessPointCrated, station, server, task>>

\* Variant: the header is written before the parent is ensured.
HeaderFirst ==
  \/ /\ pc \in {"loop", "checked"} /\ pingpong
     /\ runs' = Bumped(runs)
     /\ rounds' = Bumped(rounds)
     /\ pc' = "ensure"
     /\ parClient' = IF parClient = "closed" /\ ip THEN "connecting" ELSE parClient
     /\ pb_buffer' = [pb_buffer EXCEPT !.header = "own"]
     /\ UNCHANGED <<flags, station, server, pingpong>>
  \/ /\ pc = "ensure" /\ pc' = "sent"
     /\ pb_buffer' = [pb_buffer EXCEPT !.message = "own"]
     /\ UNCHANGED <<flags, station, server, pingpong, runs, parClient, rounds>>
  \/ RoundEnd

remPingPongCallback == EnsureParent \/ Round \/ RoundEnd

---------------------------------------------------------------------------
(* The rest of loop().                                                     *)

\* A result is looked at before delay(1).
CheckIndex ==
  /\ pc \in {"loop", "checked", "asked"}
  /\ pc' = IF needToConnectToStation /\ best THEN "sleep" ELSE "ap"
  /\ UNCHANGED <<flags, station, server, task>>

\* WiFi.begin.  Without results the name is empty: there is nothing to join and
\* the station leaves what it was linked to.
Connect ==
  /\ pc = "sleep"
  /\ pc' = "ap"
  /\ target' = (results /\ best)
  /\ IF target' THEN UNCHANGED <<link, ip>> ELSE link' = FALSE /\ ip' = FALSE
  /\ needToConnectToStation' = FALSE
  /\ UNCHANGED <<needToCreateAccessPoint, accessPointCrated, scan, results, best, air,
                 server, task>>

StartAccessPoint ==
  /\ needToCreateAccessPoint' = FALSE
  /\ accessPointCrated' = TRUE
  /\ ap' = "on"

EndOfPass ==
  /\ pc = "ap"
  /\ pc' = "loop"
  /\ IF needToCreateAccessPoint THEN StartAccessPoint
     ELSE UNCHANGED <<needToCreateAccessPoint, accessPointCrated, ap>>
  /\ UNCHANGED <<needToConnectToStation, station, chClients, chClientsCnt, children, task>>

loop == wifiCheckCallback \/ remPingPongCallback \/ CheckIndex \/ Connect \/ EndOfPass

---------------------------------------------------------------------------
(* Callbacks of the SDK.                                                   *)

wifiScanCallback ==
  /\ Yields /\ scan
  /\ scan' = FALSE
  /\ results' = TRUE
  /\ best' = air
  /\ needToConnectToStation' = (needToConnectToStation \/ (air /\ ~ip))
  /\ UNCHANGED <<pc, needToCreateAccessPoint, accessPointCrated, air, target, link, ip,
                 server, task>>

onStationConnected ==
  /\ Yields
  /\ target /\ air /\ ~link
  /\ link' = TRUE
  /\ UNCHANGED <<pc, flags, scan, results, best, air, target, ip, server, task>>

\* A lease: enable() resets the run counter.
onStationGotIP ==
  /\ Yields
  /\ link /\ ~ip
  /\ ip' = TRUE
  /\ needToConnectToStation' = FALSE
  /\ pingpong' = TRUE
  /\ runs' = 0 /\ rounds' = 0
  /\ UNCHANGED <<pc, needToCreateAccessPoint, accessPointCrated, scan, results, best, air,
                 target, link, server, parClient, pb_buffer>>

\* The flag it sets is a local variable of its own; the scheduler is asked to
\* check again, which it may do at any time here.  remPingPongTask goes on.
onStationDisconnected ==
  /\ Yields
  /\ link
  /\ link' = FALSE /\ ip' = FALSE
  /\ UNCHANGED <<pc, flags, scan, results, best, air, target, server, task>>

Air ==
  /\ Yields
  /\ air' = ~air
  /\ UNCHANGED <<pc, flags, scan, results, best, target, link, ip, server, task>>

---------------------------------------------------------------------------
(* Callbacks of the TCP library.                                           *)

\* Variant: the counter goes on.
NotRestarted == runs

\* restart() resets the run counter.
Restarted == 0

\* clientConnected for parClient.
ParentConnected ==
  /\ Yields
  /\ parClient = "connecting" /\ ip
  /\ parClient' = "connected"
  /\ runs' = Restarted
  /\ rounds' = 0
  /\ UNCHANGED <<pc, flags, station, server, pingpong, pb_buffer>>

\* cliectDisconnected for parClient: its flag is local too.  The access point is
\* ended, accessPointCrated stays.
ParentDisconnected ==
  /\ Yields
  /\ parClient # "closed"
  /\ parClient' = "closed"
  /\ ap' = IF ap = "on" THEN "off" ELSE ap
  /\ UNCHANGED <<pc, flags, station, chClients, chClientsCnt, children, pingpong, runs,
                 pb_buffer, rounds>>

\* clientConnected for a child.  One that finds no element free is connected
\* without callbacks and never looked at again.
ChildConnected(c) ==
  /\ Yields
  /\ ap = "on" /\ ~Contains(children, c)
  /\ chClientsCnt < MaxClients
  /\ chClients' = [chClients EXCEPT ![chClientsCnt + 1] = c]
  /\ chClientsCnt' = chClientsCnt + 1
  /\ children' = Append(children, c)
  /\ UNCHANGED <<pc, flags, station, ap, task>>

\* Variant: the last element is not moved.
ShiftedButLast(i) ==
  [s \in 1..MaxClients |->
     IF s \in i..chClientsCnt - 2 THEN chClients[s + 1] ELSE chClients[s]]

\* What follows element i moves up.  Elements behind the count are not cleared.
Shifted(i) ==
  [s \in 1..MaxClients |->
     IF s \in i..chClientsCnt - 1 THEN chClients[s + 1] ELSE chClients[s]]

\* Variant: the loop is not left, and counts what it has moved up again.
NoBreak(c) == chClientsCnt - Cardinality({i \in 1..MaxClients : chClients[i] = c})

OneLess(c) == chClientsCnt - 1

\* Element i is the first that is c, whether or not the count covers it.
FoundAt(c, i) == chClients[i] = c /\ \A j \in 1..i - 1 : chClients[j] # c

\* cliectDisconnected for a child, which is looked for in all of the array.
ChildDisconnected(c) ==
  /\ Yields
  /\ \E k \in DOMAIN children : children[k] = c /\ children' = RemoveAt(children, k)
  /\ \/ \E i \in 1..MaxClients :
          /\ FoundAt(c, i)
          /\ chClients' = Shifted(i)
          /\ chClientsCnt' = OneLess(c)
     \/ ~Contains(chClients, c) /\ UNCHANGED <<chClients, chClientsCnt>>
  /\ UNCHANGED <<pc, flags, station, ap, task>>

\* handle_mesh_topo: the header is copied, then the message decoded, completed
\* with the own id and encoded behind it.
handle_mesh_topo(decoded) ==
  pb_buffer' = [header |-> "child", message |-> IF decoded THEN "child" ELSE pb_buffer.message]

\* dataRecv of a topology; what a child sends to the root is passed on as it is,
\* and no other packet changes anything.
ChildTopology(c) ==
  /\ Yields
  /\ Contains(children, c)
  /\ \E decoded \in BOOLEAN : handle_mesh_topo(decoded)
  /\ UNCHANGED <<pc, flags, station, server, pingpong, runs, parClient, rounds>>

Next ==
  \/ loop
  \/ wifiScanCallback
  \/ onStationConnected \/ onStationGotIP \/ onStationDisconnected \/ Air
  \/ ParentConnected \/ ParentDisconnected
  \/ \E c \in Child : ChildConnected(c) \/ ChildDisconnected(c) \/ ChildTopology(c)

\* loop() runs, both tasks are due again and again, a scan ends, and an access
\* point and a parent that can answer do so in the end.
Spec ==
  /\ Init /\ [][Next]_vars
  /\ WF_vars(loop) /\ SF_vars(wifiCheckCallback) /\ SF_vars(EnsureParent)
  /\ SF_vars(wifiScanCallback) /\ SF_vars(onStationConnected) /\ SF_vars(onStationGotIP)
  /\ SF_vars(ParentConnected)

---------------------------------------------------------------------------
(* Properties.                                                             *)

TypeOK ==
  /\ pc \in {"loop", "checked", "ensure", "round", "sent", "asked", "sleep", "ap"}
  /\ {needToConnectToStation, needToCreateAccessPoint, accessPointCrated, scan, results,
      best, air, target, link, ip, pingpong} \subseteq BOOLEAN
  /\ {runs, rounds} \subseteq 0..ApRuns + 1
  /\ parClient \in {"closed", "connecting", "connected"}
  /\ pb_buffer \in [{"header", "message"} -> {"own", "child"}]
  /\ ap \in {"never", "on", "off"}
  /\ chClientsCnt \in 0..MaxClients
  /\ chClients \in [1..MaxClients -> Child \cup {Free}]
  /\ children \in Seq(Child)

\* The elements of chClients the count covers are the children that are
\* connected, in the order they came, whoever leaves when and whatever is left
\* behind the count.
ChildrenListed == SubSeq(chClients, 1, chClientsCnt) = children

\* What a round writes is wholly its own: nothing of a child's report that came
\* while the parent was ensured is left in the shared buffer.
OwnPacketWhole == [][(pc # "sent" /\ pc' = "sent") => pb_buffer' = Own]_vars

\* The access point is asked for after more than ApRuns rounds since the last
\* lease and since the parent last connected, also when either comes in the
\* middle of a round.  It is started once: after a parent is lost it stays
\* ended, also when the request and the loss cross.
ApInTime ==
  [][/\ (~needToCreateAccessPoint /\ needToCreateAccessPoint') => rounds > ApRuns
     /\ ap' = "on" => ap # "off"]_vars

\* The parent is reached again and again, though the flag a disconnection sets
\* is not the one loop() reads: unless no access point stays in range, the
\* network breaks links for ever, or a check deletes the results of every scan
\* before they are used.
Reconnects ==
  \/ []<>~air
  \/ []<><<onStationDisconnected>>_vars
  \/ []<><<wifiCheckCallback /\ needToConnectToStation /\ best>>_vars
  \/ []<>(parClient = "connected")
=============================================================================
