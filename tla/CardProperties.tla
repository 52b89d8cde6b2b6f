--------------------------- MODULE CardProperties ---------------------------
(***************************************************************************)
(* What the cards promise.  Each promise that some card breaks names those *)
(* acts: the sets are the list of what to mend, and every other card is    *)
(* held to the promise.                                                    *)
(***************************************************************************)
EXTENDS Cards

Used == {k \in Slots : acts[k].at # "unused"}
(* Some act started is in the list.                                        *)
Excused(list) == \E k \in Used : <<card.name, acts[k].name>> \in list

(* Nothing is under way.                                                   *)
Quiet ==
  /\ loaded /\ jobs = {}
  /\ \A k \in Slots : ~InProgress(k)
  /\ \A l \in Readings : loads[l].at = "idle"

(* What is in force of what this card shows.                               *)
Here == {id \in router : ActOf(id[1]).part # "elsewhere"}

(* Every fault was a change that the router refused or rolled back.        *)
OnlyRefusals ==
  faults = Cardinality({k \in Slots : acts[k].failed /\ ~acts[k].lost})

-----------------------------------------------------------------------------
(* A control that nothing disables while its request is under way: a       *)
(* button, the Enter key in a field, a slider let go on a touch screen.    *)
SentTwice ==
  {<<"Ddns", "toggle">>, <<"LanServices", "remove">>,
   <<"LanServices", "addSuggestion">>, <<"PoE", "saveWatchdog">>,
   <<"PhysConfig", "autoneg">>, <<"PhysConfig", "eee">>,
   <<"PhysConfig", "mtu">>, <<"PortIsolation", "add">>,
   <<"EthPorts", "saveDesc">>, <<"PortSecurity", "addPort">>,
   <<"PortSecurity", "addMac">>, <<"RateLimit", "slideAll">>,
   <<"RateLimit", "slidePort">>, <<"StormControl", "slideAll">>,
   <<"StormControl", "slidePort">>, <<"DetailClient", "removeLimit">>,
   <<"DetailClient", "switchOff">>, <<"Quota", "remove">>,
   <<"Quota", "switchOff">>, <<"BanipPage", "dismiss">>,
   <<"FleetPage", "add">>, <<"FleetPage", "adopt">>}

(* Acts whose flag is a variable that holds one item or one act at a time: *)
(* starting another one that is kept there takes the flag off the first,   *)
(* whose button can then be pressed again while its request is under way.  *)
Overwritten ==
  {<<"Ddns", "add">>, <<"Ddns", "remove">>, <<"Ddns", "force">>,
   <<"PoE", "setPower">>, <<"PoE", "saveSchedule">>,
   <<"EthPorts", "togglePoe">>,
   <<"StpPorts", "toggleStp">>, <<"StpPorts", "toggleEdge">>,
   <<"StpPorts", "reset">>, <<"StpPorts", "saveDraft">>,
   <<"PortIsolation", "remove">>, <<"PortSecurity", "learning">>,
   <<"PortSecurity", "removeMac">>,
   <<"RateLimit", "removeOverride">>, <<"PortTemplates", "create">>,
   <<"PortTemplates", "apply">>, <<"PortTemplates", "del">>,
   <<"SwitchModes", "apply">>, <<"StormControl", "removeOverride">>,
   <<"MacAcl", "apply">>, <<"MacAcl", "remove">>, <<"Loops", "setBlock">>,
   <<"RemoteAccess", "toggle">>, <<"Clients", "block">>,
   <<"Clients", "unblock">>, <<"Clients", "pin">>, <<"Clients", "saveEdit">>,
   <<"WifiPage", "unblock">>, <<"WifiSchedule", "save">>,
   <<"WifiSchedule", "toggleEnabled">>, <<"WifiSchedule", "togglePause">>}

(* The same change of the same item is never under way twice: the flag it  *)
(* raises stays up until its last call has been answered, whatever other   *)
(* act shares that flag (the disabled and loading props of the cards).  Of *)
(* the acts whose flag is overwritten that holds while no third is started.*)
SentOnce ==
  \A j, k \in Slots :
    /\ j < k /\ Committing(j) /\ Committing(k) /\ ~Excused(SentTwice)
    /\ <<card.name, acts[j].name>> \in Overwritten => Used = {j, k}
    => acts[j].name # acts[k].name \/ acts[j].item # acts[k].item

-----------------------------------------------------------------------------
(* A failure that is swallowed.                                            *)
Silent ==
  {<<"Tailscale", "install">>, <<"Wireguard", "install">>,
   <<"Openvpn", "install">>, <<"Adguard", "stop">>, <<"WifiPage", "unblock">>,
   <<"SelfUpdate", "save">>, <<"MultiWan", "install">>}

(* When a change failed, at any of its calls, the user has been told of it *)
(* by the time the act has ended (the catch blocks and the failed phase of *)
(* useActionCycle).                                                        *)
FailureTold ==
  \A k \in Slots :
    acts[k].at = "ended" /\ acts[k].failed /\ ~Excused(Silent) => acts[k].said

-----------------------------------------------------------------------------
(* Cards whose form is filled again by a reading nobody asked for.         *)
Refilling == {"LanConfig", "MQTT", "NetPulse", "Quota", "BanipPage"}
(* Acts whose answer, or the reading after them, fills the form again.     *)
DropsDraft ==
  {<<"Ddns", "remove">>, <<"Mirror", "disable">>,
   <<"GuestWifi", "flip">>, <<"GuestWifi", "toggleIsolate">>,
   <<"IotWifi", "flip">>, <<"CaptivePortal", "disable">>,
   <<"CaptivePortal", "image">>, <<"Snmp", "install">>,
   <<"RateLimit", "toggleAll">>, <<"RateLimit", "removeOverride">>,
   <<"StormControl", "toggleAll">>, <<"StormControl", "removeOverride">>,
   <<"WifiSchedule", "save">>, <<"WifiSchedule", "toggleEnabled">>,
   <<"WifiSchedule", "togglePause">>, <<"Access", "savePanelTtl">>,
   <<"Access", "savePanel">>, <<"Access", "saveLuci">>,
   <<"Access", "saveSsh">>, <<"DetailClient", "removeLimit">>,
   <<"DetailClient", "switchOff">>, <<"Parental", "save">>,
   <<"Parental", "togglePause">>, <<"Parental", "remove">>,
   <<"MultiWan", "makePrimary">>,
   <<"MultiWan", "install">>}

(* What the user has typed is emptied only by an act that sends fields: no *)
(* other answer, no reading that arrives late and no poll replaces it.     *)
DraftSurvives ==
  [][draft = "typed" /\ draft' = "clean"
       => \/ card.name \in Refilling \/ Excused(DropsDraft)
          \/ \E k \in Slots : /\ acts'[k] # acts[k]
                              /\ card.acts[acts'[k].name].form # "no"]_vars

-----------------------------------------------------------------------------
(* Cards where a reading asked for before a change may arrive after it.    *)
Overtaken ==
  {"LanConfig", "Reservations", "PhysConfig", "MQTT", "NetPulse", "Clients",
   "Quota", "DpiPage"}
(* Acts of several changes that show nothing of the first ones when a      *)
(* later one fails, and installations read back before they have happened. *)
HalfShown ==
  {<<"Tailscale", "install">>, <<"Wireguard", "install">>,
   <<"Openvpn", "install">>, <<"WifiPage", "savePerBand">>,
   <<"Packages", "upgradeAll">>}

(* After one act, accepted or refused at any of its calls, the card shows  *)
(* what is in force in the router once nothing is under way.               *)
ShowsWhatHolds ==
  Quiet /\ OnlyRefusals /\ Cardinality(Used) <= 1
    => \/ card.name \in Overtaken \/ Excused(HalfShown)
       \/ shown = Here

(* Cards where the answers of two changes, or the readings after them, may *)
(* arrive in the other order: no flag keeps one act from starting while    *)
(* the reading of another is under way.                                    *)
Racing ==
  Overtaken \union
  {"Tailscale", "Wireguard", "Openvpn", "Ddns", "Banip", "Adguard",
   "LanServices", "PoE", "VLANTable", "EthPorts", "StpPorts",
   "PortIsolation", "PortSecurity", "RateLimit", "PortTemplates", "WifiPage",
   "WifiSchedule", "WifiChan", "Access", "Packages", "Update",
   "RemoteAccess", "Snmp", "DetailClient", "Parental", "BanipPage",
   "BanipLists", "UpnpPage", "FleetPage", "StoragePage", "StormControl",
   "MacAcl", "MultiWan"}

(* After two acts, started in any order and at any time, a card shows what *)
(* is in force, though answers and readings overtake each other.           *)
Converges == Quiet /\ faults = 0 /\ card.name \notin Racing => shown = Here

(* A card about something the user chooses ends up showing the last choice,*)
(* though the answer for the one before may come later.                    *)
RightSubject == Quiet => about = subject

(* Whatever fails, no control stays disabled: every flag goes down again.  *)
BusyEnds == busy # {} ~> busy = {}
=============================================================================
