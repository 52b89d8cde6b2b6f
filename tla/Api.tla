-------------------------------- MODULE Api --------------------------------
(***************************************************************************)
(* The calls of app/src/api.ts by name, in the order of that file: get for *)
(* those that read (no method), send for those with POST, PUT or DELETE.   *)
(***************************************************************************)

(* Session, overview, clients, access, VPN.                                *)
GeneralCalls ==
  [get |-> {"me", "announcement", "board", "system", "wan", "wanConfig",
            "wireless", "leases", "clients", "blockedClients", "clientMeta",
            "ipv6", "updateCheck", "wireguard", "ddns", "netdev", "mode",
            "access", "remoteAccess", "offload", "mdns", "wifi", "wifiKey"},
   send |-> {"login", "logout", "checkPublicIp", "setWanConfig",
             "reserveClient", "blockClient", "setClientMeta", "setIpv6",
             "setPassword", "startUpdate", "setWireguard", "addWgPeer",
             "addWgPeerQr", "deleteWgPeer", "forceDdns", "setMode",
             "setLuciAccess", "setSshAccess", "setPanelSessionTtl",
             "setRemoteAccess", "setOffload", "setMdns", "setWifi"}]

(* Wi-Fi, LAN, DNS, guests, uplinks.                                       *)
NetworkCalls ==
  [get |-> {"wifiSchedule", "wifiChan", "lan", "dns", "adguardCredentials",
            "ethports", "l2clients", "usteer", "guestwifi", "captiveportal",
            "tailscale", "multiwan", "portforward"},
   send |-> {"setWifiRadio", "setWifiSchedule", "setWifiChan", "setLan",
             "setDhcp", "setReservation", "clearReservations",
             "adguardAction", "adguardRegeneratePassword",
             "adguardProtection", "adguardDoh", "setDns", "setDnsHost",
             "setGuestwifi", "setCaptiveportal", "uploadCaptivePortalImage",
             "setTailscale", "setMultiwan", "setMultiwanPrimary",
             "addFwdRule", "deleteFwdRule"}]

(* Packages, SQM, OpenVPN, DDNS, snapshots, self-update, wizard.           *)
ServiceCalls ==
  [get |-> {"iotwifi", "packages", "optionalPackages", "sqm", "openvpn",
            "bufferbloatHistory", "snapshots", "snapshotDiff", "igmp",
            "loops", "selfUpdateCheck", "selfUpdateStatus",
            "selfUpdateSchedule", "wizardState", "wizardSetup"},
   send |-> {"setIotwifi", "wizardPackages", "removePackages",
             "upgradePackage", "setOpenvpn", "addOvpnClient",
             "deleteOvpnClient", "setOvpnPublicHost", "setSqm",
             "runBufferbloatTest", "setDdns", "deleteDdns", "createSnapshot",
             "deleteSnapshot", "rollbackSnapshot", "bouncePort", "blockPort",
             "setIgmp", "selfUpdateApply", "selfUpdateScheduleSave",
             "installWizardSetup"}]

(* VLANs, LAG, notifications, firewall, switch ports.                      *)
SwitchCalls ==
  [get |-> {"installJob", "snmp", "drift", "vlans", "lag", "history",
            "httpsState", "telegramGet", "ntfyGet", "cpu", "nlbwmon",
            "nlbwmonTop", "firewall", "templates", "switchPorts", "stp",
            "physPorts"},
   send |-> {"wizardComplete", "wizardReset", "setSnmp", "setVlan",
             "deleteVlan", "setLag", "deleteLag", "setPanelHttps",
             "wakeOnLan", "telegramSet", "telegramTest", "ntfySet",
             "ntfyTest", "setNlbwmon", "addFirewallRule",
             "deleteFirewallRule", "applyTemplate", "setSwitchPort",
             "setSTPBridge", "setSTPPort", "setPhysPort"}]

(* PoE, templates, DPI, fleet, diagnostics.                                *)
PortCalls ==
  [get |-> {"portStats", "switchModes", "poe", "poeWatchdogs",
            "portTemplates", "roleProfiles", "dpi", "netifyd", "dpiApps",
            "dpiTimeline", "fleet", "discoveredFleet", "fleetDiscoveryConfig",
            "cableTest", "selftest", "stormControl", "mirror",
            "managementPort"},
   send |-> {"applySwitchMode", "setPoESchedule", "setPoEWatchdog",
             "savePortTemplate", "deletePortTemplate", "applyPortTemplate",
             "applyRoleProfile", "setNetifyd", "addFleetNode",
             "deleteFleetNode", "checkFleetNode", "checkAllFleet",
             "adoptFleetPeer", "updateFleetNode", "setFleetDiscoveryConfig",
             "runDiagnostics", "setStormControl", "setStormControlAll",
             "setMirror"}]

(* Limits, isolation, NetPulse, MQTT, quotas, LAN services, banIP.         *)
PolicyCalls ==
  [get |-> {"rateLimit", "portIsolation", "portSecurity", "storage", "macAcl",
            "netpulse", "mqtt", "nftqos", "parental", "quotas",
            "pushConfigGet", "lanServices", "banip"},
   send |-> {"setRateLimit", "setRateLimitAll", "setPortIsolation",
             "setPortLearning", "setPortStaticMac", "setStorageService",
             "setMacAcl", "setNetPulse", "restartAgent", "setMqtt",
             "testMqtt", "setNftqos", "removeNftqos", "setParental",
             "deleteParental", "setQuota", "deleteQuota", "pushConfigSet",
             "pushSnapshot", "discoverLanServices", "upsertLanService",
             "deleteLanService", "banipAction", "banipSetFeeds",
             "banipInstall"}]

(* BanIP lists and UPnP.                                                   *)
PackageCalls ==
  [get |-> {"banipStatus", "banipSearch", "banipList", "upnp", "upnpStatus"},
   send |-> {"banipUninstall", "banipDismissRamWarning", "banipListAdd",
             "banipListRemove", "upnpAction", "upnpInstall", "upnpUninstall",
             "upnpRuleAdd", "upnpRuleDelete"}]

Groups == {GeneralCalls, NetworkCalls, ServiceCalls, SwitchCalls, PortCalls,
           PolicyCalls, PackageCalls}
Gets == UNION {group.get : group \in Groups}
Sends == UNION {group.send : group \in Groups}

(* Those that are sent and change nothing a card shows: tests, probes, and *)
(* commands whose effect is not a state of the router.                     *)
Probing == {"login", "logout", "checkPublicIp", "telegramTest", "ntfyTest",
            "testMqtt", "runDiagnostics", "discoverLanServices", "wakeOnLan",
            "bouncePort", "pushSnapshot", "checkFleetNode", "checkAllFleet",
            "setPassword", "restartAgent"}
(* Those that answer when a job has begun, and whose effect comes later.   *)
ApiStarting == {"wizardPackages", "removePackages", "installWizardSetup",
                "updateFleetNode"}
ApiChanging == Sends \ Probing
ApiCalls == Gets \union Sends \union {"timer"}
=============================================================================
