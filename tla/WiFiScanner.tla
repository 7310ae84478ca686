----------------------------- MODULE WiFiScanner -----------------------------
(***************************************************************************)
(* The WiFi of an ESP8266 client: SimpleWiFiScanner scans for access       *)
(* points, joins the strongest one, starts an access point of its own and  *)
(* makes a channel for every lease it gets.                                *)
(*                                                                         *)
(* The program is one thread.  The callbacks of the SDK run where it       *)
(* yields: between two updates, while a log is sent and in delay().        *)
(* rescan_looper is armed for good by begin, so that it is not a variable; *)
(* when the loopers are due is left open.                                  *)
(***************************************************************************)
EXTENDS Integers, Sequences, SequencesExt, FiniteSets

CONSTANTS
  AP,         \* access points
  Valid,      \* those with a known name and enough signal
  Rssi, Channel,
  MaxIndexed, \* MAX_INDEXED_SCANNED_AP
  MaxClients  \* MAX_AP_CLIENTS: elements of chClients

NoAP == "none"

ASSUME ScannerAssumption ==
  /\ IsFiniteSet(AP)
  /\ Valid \subseteq AP /\ NoAP \notin AP
  /\ Rssi \in [AP -> Int] /\ Channel \in [AP -> Nat \ {0}]
  /\ {MaxIndexed, MaxClients} \subseteq Nat \ {0}

VARIABLES
  pc,            \* where update() is
  client_state,
  server_state,  \* "off" or "no_clients"
  is_client_connected,
  servap_looper, \* "stopped" or "armed"
  scan,          \* whether the SDK is scanning
  found,         \* its results, which WiFi.SSID(i) and WiFi.channel(i) read
  best,          \* sortedValidAPs[0].netIndex, 0 for 255
  chipWIFIChannel,
  ap_channel,    \* the channel softAP was called with, 0 before
  chClients,     \* the access point each client channel was made for
  air,           \* access points in range
  target, link, ip,  \* the station: what it joins, has joined, has a lease of
  leased         \* history: a lease came since update() looked at the state

wifi == <<target, link, ip>>
wifi_vars == <<pc, client_state, server_state, is_client_connected, servap_looper, scan, found,
          best, chipWIFIChannel, ap_channel, chClients, air, wifi, leased>>

\* States in which callbacks run.
Yields == pc \in {"loop", "status", "connect", "sleep"}

WiFiInit ==
  /\ pc = "loop"
  /\ client_state = "none_available"
  /\ server_state = "off"
  /\ is_client_connected = FALSE
  /\ servap_looper = "stopped"
  /\ scan = FALSE
  /\ found = <<>>
  /\ best = 0
  /\ chipWIFIChannel = 0
  /\ ap_channel = 0
  /\ chClients = <<>>
  /\ air \in SUBSET AP
  /\ target = NoAP /\ link = NoAP /\ ip = FALSE
  /\ leased = FALSE

---------------------------------------------------------------------------
(* update(): first rescan_looper, then servap_looper may be due, then the  *)
(* state is looked at.                                                     *)

\* Variant: as in the lines commented out, only while nothing was found.
OnlyAtFirst == client_state = "none_available"

Scanning == "scanning"
MayScan == TRUE

\* rescan_looper is due: wifi_scan_beggin.  A scan that goes on is not started
\* again; a new one deletes the results of the last.
Rescan ==
  /\ pc = "loop"
  /\ MayScan
  /\ pc' = "servap"
  /\ scan' = TRUE
  /\ found' = IF scan THEN found ELSE <<>>
  /\ client_state' = Scanning
  /\ UNCHANGED <<server_state, is_client_connected, servap_looper, best, chipWIFIChannel,
                 ap_channel, chClients, air, wifi, leased>>

MayStart == server_state = "off"

ap_server_start ==
  /\ server_state' = "no_clients"
  /\ ap_channel' = chipWIFIChannel
  /\ servap_looper' = "stopped"

\* servap_looper is due: the access point is started once, then client_status
\* delays.
Servap ==
  /\ pc \in {"loop", "servap"}
  /\ servap_looper = "armed"
  /\ pc' = "status"
  /\ IF MayStart THEN ap_server_start
     ELSE UNCHANGED <<server_state, ap_channel, servap_looper>>
  /\ UNCHANGED <<client_state, is_client_connected, scan, found, best, chipWIFIChannel,
                 chClients, air, wifi, leased>>

\* Variant: joins although there is a lease.
SelectAnyway == client_state = "selecting_ap"

ToConnect == client_state = "selecting_ap" /\ ~is_client_connected

\* The log in front of wifi_connect_beggin yields.
Select ==
  /\ pc \in {"loop", "servap", "status"}
  /\ pc' = IF ToConnect THEN "connect" ELSE "loop"
  /\ leased' = FALSE
  /\ UNCHANGED <<client_state, server_state, is_client_connected, servap_looper, scan,
                 found, best, chipWIFIChannel, ap_channel, chClients, air, wifi>>

\* netIndex is looked at before sleep_milis(1).
CheckIndex ==
  /\ pc = "connect"
  /\ pc' = IF best # 0 THEN "sleep" ELSE "loop"
  /\ UNCHANGED <<client_state, server_state, is_client_connected, servap_looper, scan,
                 found, best, chipWIFIChannel, ap_channel, chClients, air, wifi, leased>>

\* WiFi.begin, with what netIndex is after it.  No result at that index gives no
\* name to join.  The SDK leaves another access point the station is linked to.
wifi_connect_beggin ==
  /\ pc = "sleep"
  /\ pc' = "loop"
  /\ IF best \in 1..Len(found)
     THEN target' = found[best] /\ chipWIFIChannel' = Channel[found[best]]
     ELSE target' = NoAP /\ chipWIFIChannel' = 0
  /\ client_state' = "connecting_ap"
  /\ IF target' = link THEN UNCHANGED <<link, ip>> ELSE link' = NoAP /\ ip' = FALSE
  /\ UNCHANGED <<server_state, is_client_connected, servap_looper, scan, found, best,
                 ap_channel, chClients, air, leased>>

update == Rescan \/ Servap \/ Select \/ CheckIndex \/ wifi_connect_beggin

---------------------------------------------------------------------------
(* The end of a scan.                                                      *)

\* What the loop over the results has kept of the first k, as indexes.
Kept(f) ==
  LET kept[k \in 0..Len(f)] ==
        IF k = 0 THEN <<>>
        ELSE IF Len(kept[k - 1]) < MaxIndexed /\ f[k] \in Valid
             THEN Append(kept[k - 1], k)
             ELSE kept[k - 1]
  IN  kept

\* The first MaxIndexed valid results.
Indexed(f) == Kept(f)[Len(f)]

\* Variant: the weakest comes first.
Weaker(f, i, j) == Rssi[f[j]] < Rssi[f[i]]

Stronger(f, i, j) == Rssi[f[j]] > Rssi[f[i]]

Swap(s, i, j) == [s EXCEPT ![i] = s[j], ![j] = s[i]]

\* The inner loop: position i is compared with all behind it, up to j.
Compared(f, s, i) ==
  LET row[j \in 0..Len(s)] ==
        IF j <= i THEN s
        ELSE IF Stronger(f, row[j - 1][i], row[j - 1][j])
             THEN Swap(row[j - 1], i, j)
             ELSE row[j - 1]
  IN  row

\* The outer loop, up to i: every position but the last one.
Sorted(f, s) ==
  LET rows[i \in 0..Len(s) - 1] ==
        IF i = 0 THEN s ELSE Compared(f, rows[i - 1], i)[Len(s)]
  IN  rows

\* The indexes sorted by signal.
sortedValidAPs(f) ==
  LET s == Indexed(f)
  IN  IF s = <<>> THEN s ELSE Sorted(f, s)[Len(s) - 1]

\* Variant: the channel is taken with the results.
ChannelOfBest(s) == IF s = <<>> THEN chipWIFIChannel ELSE Channel[found'[s[1]]]

\* The channel is set when the station joins, not here.
ChannelAfterScan(s) == chipWIFIChannel

\* wifi_scan_done with what is in range, in any order, whatever the station does.
wifi_scan_done ==
  /\ scan /\ Yields
  /\ scan' = FALSE
  /\ found' \in SetToSeqs(air)
  /\ LET s == sortedValidAPs(found')
     IN /\ best' = IF s = <<>> THEN 0 ELSE s[1]
        /\ client_state' = IF s = <<>> THEN "filtering_aps" ELSE "selecting_ap"
        /\ chipWIFIChannel' = ChannelAfterScan(s)
  /\ UNCHANGED <<pc, server_state, is_client_connected, servap_looper, ap_channel,
                 chClients, air, wifi, leased>>

---------------------------------------------------------------------------
(* The station.                                                            *)

onStationConnected ==
  /\ Yields
  /\ link = NoAP /\ target \in air
  /\ link' = target
  /\ client_state' = "getting_ip_ap"
  /\ UNCHANGED <<pc, server_state, is_client_connected, servap_looper, scan, found, best,
                 chipWIFIChannel, ap_channel, chClients, air, target, ip, leased>>

\* Variant: one element too many.
SlotOrNext == Len(chClients) <= MaxClients

SlotFree == Len(chClients) < MaxClients

\* The next element of chClients is connected and added to the channels.
async_client_init(a) == Append(chClients, a)

\* A lease.  One more than there are elements in chClients is written behind its
\* end: what follows is undefined.
onStationGotIP ==
  /\ Yields
  /\ link # NoAP /\ ~ip
  /\ ip' = TRUE
  /\ IF SlotFree
     THEN /\ chClients' = async_client_init(link)
          /\ pc' = pc
     ELSE pc' = "overrun" /\ UNCHANGED chClients
  /\ client_state' = "full_available"
  /\ is_client_connected' = TRUE
  /\ servap_looper' = "armed"
  /\ leased' = TRUE
  /\ UNCHANGED <<server_state, scan, found, best, chipWIFIChannel, ap_channel, air,
                 target, link>>

\* The link is broken, for the station has left, the access point is gone or
\* for any other reason, or a join fails.  The SDK goes on to try the target.
onStationDisconnected ==
  /\ Yields
  /\ link # NoAP \/ is_client_connected \/ (target # NoAP /\ target \notin air)
  /\ link' = NoAP
  /\ ip' = FALSE
  /\ is_client_connected' = FALSE
  /\ UNCHANGED <<pc, client_state, server_state, servap_looper, scan, found, best,
                 chipWIFIChannel, ap_channel, chClients, air, target, leased>>

\* The loss of a link that is no longer there is reported.
LinkLoss == link \notin air /\ is_client_connected /\ onStationDisconnected

Air ==
  /\ Yields
  /\ air' \in SUBSET AP
  /\ UNCHANGED <<pc, client_state, server_state, is_client_connected, servap_looper, scan,
                 found, best, chipWIFIChannel, ap_channel, chClients, wifi, leased>>

WiFiNext ==
  \/ update
  \/ wifi_scan_done
  \/ onStationConnected \/ onStationGotIP \/ onStationDisconnected
  \/ Air

\* The loop runs, rescan_looper is due again and again, a scan ends, and an
\* access point in range answers before the next scan sooner or later: scans are
\* at least ten seconds apart.
WiFiSpec ==
  /\ WiFiInit /\ [][WiFiNext]_wifi_vars
  /\ WF_wifi_vars(update) /\ SF_wifi_vars(Rescan) /\ SF_wifi_vars(wifi_scan_done)
  /\ SF_wifi_vars(onStationConnected) /\ SF_wifi_vars(onStationGotIP) /\ SF_wifi_vars(LinkLoss)

---------------------------------------------------------------------------
(* Properties.                                                             *)

\* The channels there are, and 0 for none.
Channels == {0} \cup {Channel[a] : a \in AP}

WiFiTypeOK ==
  /\ pc \in {"loop", "servap", "status", "connect", "sleep", "overrun"}
  /\ client_state \in {"none_available", "scanning", "filtering_aps", "selecting_ap",
                       "connecting_ap", "getting_ip_ap", "full_available"}
  /\ server_state \in {"off", "no_clients"}
  /\ servap_looper \in {"stopped", "armed"}
  /\ is_client_connected \in BOOLEAN /\ scan \in BOOLEAN
  /\ ip \in BOOLEAN /\ leased \in BOOLEAN
  /\ found \in Seq(AP) /\ best \in Nat
  /\ chipWIFIChannel \in Channels /\ ap_channel \in Channels
  /\ chClients \in Seq(AP) /\ Len(chClients) <= MaxClients
  /\ air \subseteq AP
  /\ target \in AP \cup {NoAP} /\ link \in AP \cup {NoAP}
  /\ ip => link # NoAP

\* What is selected is the strongest of the valid access points the scan kept.
BestIsStrongest ==
  client_state = "selecting_ap" =>
    /\ \E k \in 1..Len(Indexed(found)) : Indexed(found)[k] = best
    /\ \A k \in 1..Len(Indexed(found)) : Rssi[found[Indexed(found)[k]]] <= Rssi[found[best]]

\* The index looked at before the sleep names a result after it: no scan goes on
\* while wifi_connect_beggin sleeps, so that none can end and replace the results.
IndexValid == pc = "sleep" => ~scan /\ best \in 1..Len(found)

Selection == BestIsStrongest /\ IndexValid

\* A station that has a lease is not made to join again, but for a lease that
\* comes while wifi_connect_beggin yields.
NoNeedlessJoin == [][wifi_connect_beggin => ~is_client_connected \/ leased]_wifi_vars

\* The access point of the device is started once, after the first lease; if
\* the station then has its lease, it uses the channel of the station, whatever
\* scans have found since.
ApOnLeasedChannel ==
  [][ap_channel # ap_channel' =>
       /\ ap_channel = 0 /\ chClients # <<>>
       /\ client_state = "full_available" => ap_channel' = Channel[Last(chClients)]]_wifi_vars

\* As long as the strongest of the valid access points stays in range, and scans
\* keep it, the device is connected again and again, whatever comes and goes and
\* however often links break, until chClients is full, or unless the next scan
\* overtakes the results of the last for ever.
Strongest == CHOOSE a \in Valid : \A b \in Valid : Rssi[b] <= Rssi[a]

Reconnects ==
  Cardinality(Valid) <= MaxIndexed =>
    \/ []<>(Strongest \notin air)
    \/ []<>((is_client_connected /\ link \in air) \/ pc = "overrun")
    \/ []<><<Rescan /\ client_state = "selecting_ap">>_wifi_vars
=============================================================================
