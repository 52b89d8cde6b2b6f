---------------------------- MODULE MCWritePaths ----------------------------
(***************************************************************************)
(* ConfigTx over the handlers of the code.  Each catalogue below is a set  *)
(* of handlers that the runs check for one promise.                        *)
(***************************************************************************)
EXTENDS WriteDiscipline, NetworkPaths, WirelessPaths, ServicePaths,
        AccessPaths, TLC

One == {"w1"}

(* The catalogue: a name for each handler, or for each way through it that *)
(* its arguments choose.                                                   *)
NetworkIds ==
  {"IPv6On", "IPv6Off", "Role", "RoleIsolated", "WAN", "SwitchMode", "VLAN",
   "VLANGone", "LAN", "LANIsolation", "LAG", "LAGFresh", "LAGGone", "WGOn",
   "WGFresh", "WGAP", "WGOff", "WGPeer", "WGPeerGone", "ModeRouter",
   "ModeAP", "Hardened", "HardenedSSH", "PortTemplate"}
WirelessIds ==
  {"Wifi", "Radio", "Guest", "GuestUpdate", "IoT", "IoTBoth", "IoTReady",
   "Block", "BlockCable", "WifiOff", "WifiOn", "Parental", "ParentalCable"}
ServiceIds ==
  {"MDNSOn", "MDNSOff", "SQMOn", "SQMOff", "NetifydOn", "NetifydOff", "TSOn",
   "TSOff", "DDNSOn", "DDNSOff", "DDNSGone", "SNMPOn", "SNMPOff", "NlbOn",
   "NlbOff", "UPnPOn", "UPnPOff", "UPnPRule", "UPnPRuleGone", "PortalOn",
   "PortalOff", "OVPNOn", "OVPNOff", "MwanOn", "MwanOff"}
AccessIds ==
  {"Offload", "Rule", "RuleGone", "Fwd", "FwdGone", "Remote", "DHCP",
   "Reservation", "ReservationsGone", "ClientReservation", "DNS", "Alias",
   "Defaults", "AGStart", "AGStop", "AGOn", "Luci", "SSHOn", "SSHOff",
   "Panel", "Template", "TemplateGone", "Watchdog", "PublicHost",
   "Remote_Ops"}

NetworkHandler(id) ==
  CASE id = "IPv6On" -> SetIPv6(TRUE)
    [] id = "IPv6Off" -> SetIPv6(FALSE)
    [] id = "Role" -> ApplyRole(FALSE)
    [] id = "RoleIsolated" -> ApplyRole(TRUE)
    [] id = "WAN" -> ApplyWANConfig
    [] id = "SwitchMode" -> ApplySwitchMode
    [] id = "VLAN" -> SetVLAN
    [] id = "VLANGone" -> DeleteVLAN
    [] id = "LAN" -> SetLAN(FALSE)
    [] id = "LANIsolation" -> SetLAN(TRUE)
    [] id = "LAG" -> SetLAG(FALSE)
    [] id = "LAGFresh" -> SetLAG(TRUE)
    [] id = "LAGGone" -> DeleteLAG
    [] id = "WGOn" -> EnableWG(FALSE, TRUE)
    [] id = "WGFresh" -> EnableWG(TRUE, TRUE)
    [] id = "WGAP" -> EnableWG(FALSE, FALSE)
    [] id = "WGOff" -> DisableWG
    [] id = "WGPeer" -> AddWGPeer
    [] id = "WGPeerGone" -> RemoveWGPeer
    [] id = "ModeRouter" -> SetMode("router")
    [] id = "ModeAP" -> SetMode("ap")
    [] id = "Hardened" -> ApplyHardened(TRUE, FALSE)
    [] id = "HardenedSSH" -> ApplyHardened(TRUE, TRUE)
    [] id = "PortTemplate" -> ApplyPortTemplate

WirelessHandler(id) ==
  CASE id = "Wifi" -> SetWifi
    [] id = "Radio" -> SetWifiRadio
    [] id = "Guest" -> SetGuest(TRUE)
    [] id = "GuestUpdate" -> SetGuest(FALSE)
    [] id = "IoT" -> SetIoT("2g")
    [] id = "IoTBoth" -> SetIoT("both")
    [] id = "IoTReady" -> ApplyIoTReady
    [] id = "Block" -> SetClientBlocked
    [] id = "BlockCable" -> SetCableBlocked
    [] id = "WifiOff" -> ReconcileWifiSchedule(TRUE)
    [] id = "WifiOn" -> ReconcileWifiSchedule(FALSE)
    [] id = "Parental" -> ApplyParentalWifi
    [] id = "ParentalCable" -> ApplyParentalCable

ServiceHandler(id) ==
  CASE id = "MDNSOn" -> SetMDNS(TRUE)
    [] id = "MDNSOff" -> SetMDNS(FALSE)
    [] id = "SQMOn" -> SetSQM(TRUE)
    [] id = "SQMOff" -> SetSQM(FALSE)
    [] id = "NetifydOn" -> SetNetifyd(TRUE)
    [] id = "NetifydOff" -> SetNetifyd(FALSE)
    [] id = "TSOn" -> SetTailscale(TRUE)
    [] id = "TSOff" -> SetTailscale(FALSE)
    [] id = "DDNSOn" -> SetDDNS(TRUE)
    [] id = "DDNSOff" -> SetDDNS(FALSE)
    [] id = "DDNSGone" -> DeleteDDNS
    [] id = "SNMPOn" -> SetSNMP(TRUE)
    [] id = "SNMPOff" -> SetSNMP(FALSE)
    [] id = "NlbOn" -> SetNlbwmon(TRUE)
    [] id = "NlbOff" -> SetNlbwmon(FALSE)
    [] id = "UPnPOn" -> UpnpAction(TRUE)
    [] id = "UPnPOff" -> UpnpAction(FALSE)
    [] id = "UPnPRule" -> SetUpnpRule(TRUE)
    [] id = "UPnPRuleGone" -> SetUpnpRule(FALSE)
    [] id = "PortalOn" -> SetCaptivePortal(TRUE)
    [] id = "PortalOff" -> SetCaptivePortal(FALSE)
    [] id = "OVPNOn" -> EnableOVPN
    [] id = "OVPNOff" -> DisableOVPN
    [] id = "MwanOn" -> ApplyMultiWAN(TRUE)
    [] id = "MwanOff" -> ApplyMultiWAN(FALSE)

AccessHandler(id) ==
  CASE id = "Offload" -> SetOffload
    [] id = "Rule" -> AddFirewallRule
    [] id = "RuleGone" -> DeleteFirewallRule
    [] id = "Fwd" -> AddFwdRule
    [] id = "FwdGone" -> RemoveFwdRule
    [] id = "Remote" -> SetRemoteAccess
    [] id = "DHCP" -> SetDHCP
    [] id = "Reservation" -> SetReservation
    [] id = "ReservationsGone" -> ClearReservations
    [] id = "ClientReservation" -> SetClientReservation
    [] id = "DNS" -> SetDNS
    [] id = "Alias" -> ReconcileLanServiceAlias
    [] id = "Defaults" -> ApplyResetDefaults
    [] id = "AGStart" -> AdGuardAction(TRUE)
    [] id = "AGStop" -> AdGuardAction(FALSE)
    [] id = "AGOn" -> AdGuardEnable
    [] id = "Luci" -> SetLuciAccess
    [] id = "SSHOn" -> SetSSHAccess(TRUE)
    [] id = "SSHOff" -> SetSSHAccess(FALSE)
    [] id = "Panel" -> ApplyNetgripConfig
    [] id = "Template" -> SavePortTemplate
    [] id = "TemplateGone" -> DeletePortTemplate
    [] id = "Watchdog" -> SetPoEWatchdog
    [] id = "PublicHost" -> SetVPNPublicHost
    [] id = "Remote_Ops" -> ExecuteOps("network", "network")

(* A function and not a record: TLC builds the handler it is asked for.    *)
Everything ==
  [id \in NetworkIds \cup WirelessIds \cup ServiceIds \cup AccessIds |->
     CASE id \in NetworkIds -> NetworkHandler(id)
       [] id \in WirelessIds -> WirelessHandler(id)
       [] id \in ServiceIds -> ServiceHandler(id)
       [] id \in AccessIds -> AccessHandler(id)]
-----------------------------------------------------------------------------
Only(ids) == [id \in ids |-> Everything[id]]

-----------------------------------------------------------------------------
(* The plans of the run keep to the discipline, but for the handlers named *)
(* in WriteDiscipline.                                                     *)
ASSUME GuardedAssumption ==
  \A id \in PlanIds : WellGuarded(id) <=> id \notin NotGuarded
ASSUME DisciplineAssumption == Disciplined
ASSUME CommitAssumption == Committing
ASSUME WriteAssumption == \A id \in PlanIds : OnlyWrites(id)
ASSUME SwitchAssumption == Switched
ASSUME TellAssumption == Telling
ASSUME WhoKeepsWhat ==
  /\ \A id \in PlanIds \cap Unguarded : ~Exports(id, Written(id)) \/ ~PutsBack(id)
  /\ \A id \in PlanIds \cap Lenient : ~CommitsEdits(id)
  /\ \A id \in PlanIds \cap Forgetful : ~Exports(id, Written(id))
  /\ \A id \in PlanIds \cap (Switching \ Unguarded) : ~SwitchesBack(id)
  /\ \A id \in PlanIds \cap (NotLive \ Careless) :
       ~TellsAll(id) \/ ~TakesBack(id)
-----------------------------------------------------------------------------
(* Handlers at once, on a router with networking and the firewall: three,  *)
(* on the same package or on different ones, or two of which one changes   *)
(* both packages.                                                          *)
Alike == Permutations(Workers)
Two == {"w1", "w2"}
TrioPlans == Only({"WAN", "Rule"})
PairPlans == Only({"WAN", "Rule", "WGOff", "RuleGone"})
PairPkgs == {"network", "firewall"}
PairSvcs == {"network", "firewall"}
PairReads == [s \in PairSvcs |-> s]
PairDrives == [s \in PairSvcs |-> {s}]
PairBoots == [en : {PairSvcs}, up : {PairSvcs}]

(* Two handlers at once, for runs that show where they fall short.          *)
PlanNetgrip == Only({"Watchdog", "Panel"})
PlanPair == Only({"WAN", "WGPeer"})
=============================================================================
