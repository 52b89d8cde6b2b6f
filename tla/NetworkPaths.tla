---------------------------- MODULE NetworkPaths ----------------------------
(***************************************************************************)
(* The handlers of internal/modules that change the wired network: VLANs,  *)
(* port roles, WAN and LAN settings, link aggregation, WireGuard and the   *)
(* mode of the router.                                                     *)
(***************************************************************************)
EXTENDS WritePaths

ReloadNetwork == Initd("network", "reload")
ReloadFirewall == Initd("firewall", "reload")

(* rollback := restore network, network reload; the commonest of all.      *)
NetworkBack == <<PutBack("network"), ReloadNetwork>>

(* ipv6Ops and rollbackIPv6.                                               *)
IPv6Ops(enable) ==
  <<UciSet("network"), UciSet("dhcp"), UciCommit("network"), UciCommit("dhcp"),
    Initd("odhcpd", IF enable THEN "enable" ELSE "disable"),
    Initd("odhcpd", IF enable THEN "start" ELSE "stop"), ReloadNetwork,
    IfWasUp("dnsmasq", "restart")>>
IPv6Back ==
  <<PutBack("network"), PutBack("dhcp"), PutEnabled("odhcpd"),
    PutRunning("odhcpd"), ReloadNetwork, IfWasUp("dnsmasq", "restart")>>

SetIPv6(enable) ==
  Checked(<<Export("network"), Export("dhcp")>>, IPv6Ops(enable), IPv6Back)

(* ApplyRole: the port moves between VLANs one command at a time, errors   *)
(* dropped; the rest is one list.  The rollback puts the firewall package  *)
(* back and does not reload the firewall.                                  *)
ApplyRole(isolated) ==
  Needing(IF isolated THEN {"firewall"} ELSE {},
    Handler(
      <<Export("network"), ExportIfAny("firewall")>>,
      <<Try(UciSet("network")), UciCommit("network"), ReloadNetwork>>
        \o (IF isolated THEN Write("firewall") \o <<ReloadFirewall>>
                        ELSE <<>>),
      <<PutBack("network"), PutBack("firewall"), ReloadNetwork>>))

ApplyWANConfig == WriteAndReload("network", "network", "reload")

(* applyTrunkUplink, applyExtender and applySegmentedHome differ in which  *)
(* bridge-vlan sections they write.                                        *)
ApplySwitchMode == WriteAndReload("network", "network", "reload")

(* createVLAN, updateVLAN and DeleteVLAN: the reload is best effort.       *)
SetVLAN ==
  Handler(<<Export("network")>>, Write("network") \o <<Try(ReloadNetwork)>>,
          NetworkBack)
DeleteVLAN ==
  Handler(<<Export("network")>>, Write("network") \o <<Try(ReloadNetwork)>>,
          NetworkBack)

(* SetLAN with an address, and with AP isolation for the radios as well.   *)
SetLAN(isolation) ==
  Handler(
    <<Export("network"), ExportIfAny("wireless")>>,
    Write("network")
      \o (IF isolation THEN Write("wireless") \o <<Initd("wifi", "reload")>>
                       ELSE <<>>)
      \o <<Try(ReloadNetwork)>>,
    <<PutBack("network"), PutBack("wireless"), ReloadNetwork>>)

(* SetLAG: a freshly installed bonding handler needs a network restart.    *)
SetLAG(fresh) ==
  Checked(
    <<Export("network")>>,
    (IF fresh THEN <<PkgAdd("network")>> ELSE <<>>)
      \o <<Initd("network", "poke")>> \o Write("network")
      \o <<Try(Initd("network", IF fresh THEN "restart" ELSE "reload")),
           Try(Initd("network", "poke"))>>,
    <<PutBack("network"), Initd("network", "restart")>>)

DeleteLAG ==
  Checked(
    <<Export("network")>>,
    <<Initd("network", "poke")>> \o Write("network") \o <<Try(ReloadNetwork)>>,
    <<PutBack("network"), Initd("network", "restart")>>)
-----------------------------------------------------------------------------
(* rollbackWG, when a snapshot of the firewall was taken.                  *)
WGBack == <<PutBack("network"), PutBack("firewall"), ReloadFirewall,
            ReloadNetwork>>

(* enableWG.  The firewall is written and reloaded where it is enabled.    *)
EnableWG(fresh, firewalled) ==
  Needing(IF firewalled THEN {"firewall"} ELSE {},
    Checked(
      <<Export("network"), Export("firewall")>>,
      (IF fresh THEN <<PkgAdd("network")>> ELSE <<>>)
        \o Write("network")
        \o (IF firewalled THEN Write("firewall") ELSE <<>>)
        \o (IF fresh THEN <<Initd("network", "restart")>>
                     ELSE <<ReloadNetwork, Initd("network", "poke")>>)
        \o <<IfEnabled("firewall", "reload")>>,
      WGBack))

(* disableWG: the zone and the rule go whether the firewall is on or not.  *)
DisableWG ==
  Checked(
    <<Export("network"), Export("firewall")>>,
    <<Initd("network", "poke")>> \o Write("network") \o Write("firewall")
      \o <<ReloadNetwork, IfEnabled("firewall", "reload")>>,
    WGBack)

(* AddWGPeer and RemoveWGPeer pass no firewall snapshot to wgApply.        *)
AddWGPeer ==
  Checked(<<Export("network")>>, Write("network") \o <<ReloadNetwork>>,
          NetworkBack)
RemoveWGPeer ==
  Checked(<<Export("network")>>, Write("network") \o <<ReloadNetwork>>,
          NetworkBack)
-----------------------------------------------------------------------------
(* SetMode and modeOps.  To access point: dnsmasq is stopped and restarted *)
(* at once, the firewall is stopped.  The rollback puts the packages back, *)
(* and reloads the firewall where it is enabled by then.                   *)
SetMode(target) ==
  Checked(
    <<Export("network"), Export("dhcp"), Export("firewall")>>,
    <<UciSet("network")>>
      \o (IF target = "router"
            THEN <<Initd("dnsmasq", "enable"), Initd("dnsmasq", "start"),
                   Initd("firewall", "enable"), Initd("firewall", "restart")>>
            ELSE <<Initd("dnsmasq", "disable"), Initd("dnsmasq", "stop"),
                   Initd("dnsmasq", "restart"), Initd("firewall", "disable"),
                   Initd("firewall", "stop")>>)
      \o <<UciCommit("network"), UciCommit("dhcp"), UciCommit("firewall"),
           Initd("network", "restart")>>,
    <<PutBack("network"), PutBack("dhcp"), PutBack("firewall"),
      Initd("network", "restart"), IfEnabled("firewall", "reload")>>)

(* applyHardened.  The ssh settings are written without an export of       *)
(* dropbear; a restart of dnsmasq follows a success.                       *)
ApplyHardened(firewalled, ssh) ==
  Needing((IF firewalled THEN {"firewall"} ELSE {})
            \cup (IF ssh THEN {"dropbear"} ELSE {}),
    Handler(
      <<Export("network"), Export("firewall"), Export("dhcp")>>,
      <<UciSet("network"), UciSet("dhcp"), UciCommit("network"),
        UciCommit("dhcp"), ReloadNetwork>>
        \o (IF firewalled THEN Write("firewall") \o <<ReloadFirewall>>
                          ELSE <<>>)
        \o (IF ssh THEN Write("dropbear") ELSE <<>>)
        \o <<Try(IfWasUp("dnsmasq", "restart"))>>,
      <<PutBack("network"), PutBack("firewall"), PutBack("dhcp"),
        ReloadNetwork, IfEnabled("firewall", "reload")>>))

(* ApplyPortTemplate: every edit and the commit drop their errors, only    *)
(* the reload is looked at.                                                *)
ApplyPortTemplate ==
  Handler(
    <<Export("network")>>,
    <<Try(UciSet("network")), Try(Initd("network", "poke")),
      Try(UciCommit("network")), ReloadNetwork>>,
    NetworkBack)
=============================================================================
