---------------------------- MODULE ServicePaths ----------------------------
(***************************************************************************)
(* The handlers of internal/modules that turn an optional service on or    *)
(* off and write its settings.                                             *)
(***************************************************************************)
EXTENDS WritePaths

(* The two commands of a switch: its boot link and the daemon.             *)
Switch(s, on) ==
  <<Initd(s, IF on THEN "enable" ELSE "disable"),
    Initd(s, IF on THEN "start" ELSE "stop")>>

SetMDNS(on) ==
  Checked(<<ExportIfAny("umdns")>>,
          (IF on THEN <<PkgAdd("umdns")>> ELSE <<>>) \o Switch("umdns", on),
          <<PutBack("umdns"), Initd("umdns", "restart")>>)

(* SetSQM and sqmOps.  Turning it off leaves the boot link; the rollback   *)
(* stops the shaper whether it ran or not.                                 *)
SetSQM(on) ==
  Checked(<<ExportIfAny("sqm")>>,
          IF on THEN <<PkgAdd("sqm")>> \o Write("sqm") \o Switch("sqm", TRUE)
                ELSE Write("sqm") \o <<Initd("sqm", "stop")>>,
          <<PutBack("sqm"), Initd("sqm", "stop")>>)

(* SetNetifyd, rollbackNetifyd: off, whatever it was before.               *)
SetNetifyd(on) ==
  Checked(<<>>, Switch("netifyd", on),
          <<Initd("netifyd", "stop"), Initd("netifyd", "disable")>>)

(* enableTailscale and disableTailscale answer that they rolled back and   *)
(* have no rollback.                                                       *)
SetTailscale(on) ==
  Checked(<<>>,
          IF on THEN Switch("tailscale", TRUE)
                ELSE <<Initd("tailscale", "stop"),
                       Initd("tailscale", "disable")>>,
          <<>>)

(* SetDDNS, ddnsEntryOps and ddnsRollback.  Switching an entry off kills   *)
(* the updater that runs for it.                                           *)
DDNSBack == <<PutBack("ddns"), Initd("ddns", "reload")>>
SetDDNS(on) ==
  Checked(<<ExportIfAny("ddns")>>,
          IF on THEN <<PkgAdd("ddns")>> \o Write("ddns") \o Switch("ddns", TRUE)
                ELSE Write("ddns") \o <<Try(Initd("ddns", "reload"))>>,
          DDNSBack)

(* DeleteDDNSSection and DeleteDDNS.                                       *)
DeleteDDNS ==
  Handler(<<ExportIfAny("ddns")>>,
          Write("ddns") \o <<Initd("ddns", "reload")>>, DDNSBack)

(* SetSNMP: the rollback writes the package and leaves the daemon.         *)
SetSNMP(on) ==
  [Handler(<<Export("snmpd")>>,
           Write("snmpd")
             \o (IF on THEN <<Initd("snmpd", "restart"),
                              Try(Initd("snmpd", "enable"))>>
                       ELSE <<Initd("snmpd", "stop"),
                              Try(Initd("snmpd", "disable"))>>),
           <<PutBack("snmpd")>>) EXCEPT !.health = on]

(* SetNlbwmon with a boot setting and a database setting.                  *)
SetNlbwmon(on) ==
  Handler(<<Export("nlbwmon")>>,
          <<Initd("nlbwmon", IF on THEN "enable" ELSE "disable")>>
            \o Write("nlbwmon") \o <<Initd("nlbwmon", "restart")>>,
          <<PutBack("nlbwmon"), Initd("nlbwmon", "restart")>>)
-----------------------------------------------------------------------------
(* UpnpAction and upnpActionVerify.  A failed operation puts the package   *)
(* back and leaves the service; a failed probe reverses the boot link and  *)
(* the enabled option, not the daemon, and leaves secure_mode.             *)
UpnpAction(on) ==
  [Checked(<<ExportIfAny("upnpd")>>,
           Write("upnpd")
             \o (IF on THEN Switch("miniupnpd", TRUE)
                       ELSE <<Initd("miniupnpd", "stop"),
                              Initd("miniupnpd", "disable")>>),
           <<PutBack("upnpd")>>)
   EXCEPT !.unprobe =
     <<Initd("miniupnpd", IF on THEN "disable" ELSE "enable"),
       UciSet("upnpd"), UciCommit("upnpd")>>]

(* SetUpnpRule.  A failed operation puts the package back without a        *)
(* reload; so does a rule that a delete left behind.                       *)
SetUpnpRule(add) ==
  [Checked(<<ExportIfAny("upnpd")>>,
           Write("upnpd") \o <<Initd("miniupnpd", "reload")>>,
           <<PutBack("upnpd")>>)
   EXCEPT !.unprobe =
     IF add THEN <<PutBack("upnpd"), Initd("miniupnpd", "reload")>>
            ELSE <<PutBack("upnpd")>>]

(* SetCaptivePortal and captiveOps; nodogsplash is installed before its    *)
(* package is exported, and the rollback always stops it.                  *)
SetCaptivePortal(on) ==
  Checked(<<ExportIfAny("nodogsplash")>>,
          Write("nodogsplash")
            \o (IF on THEN Switch("nodogsplash", TRUE)
                      ELSE <<Initd("nodogsplash", "stop"),
                             Initd("nodogsplash", "disable")>>),
          <<PutBack("nodogsplash"), Initd("nodogsplash", "stop")>>)

(* SetOVPN, enableOVPN where the firewall is on, disableOVPN.  The         *)
(* rollback kills the server of ours and reloads the network, not the      *)
(* firewall.                                                               *)
OVPNBack == <<PutBack("openvpn"), PutBack("network"), PutBack("firewall"),
              Initd("openvpn", "stop"), Initd("network", "reload")>>
EnableOVPN ==
  Needing({"firewall"},
    Checked(
      <<ExportIfAny("openvpn"), Export("network"), Export("firewall")>>,
      <<PkgAdd("openvpn")>> \o Write("openvpn") \o Write("network")
        \o Write("firewall") \o Switch("openvpn", TRUE)
        \o <<Initd("firewall", "reload")>>,
      OVPNBack))
DisableOVPN ==
  Checked(
    <<ExportIfAny("openvpn"), Export("network"), Export("firewall")>>,
    Write("openvpn") \o <<Try(Initd("openvpn", "reload"))>>,
    OVPNBack)

(* ApplyMultiWAN and buildMwanOps.                                         *)
ApplyMultiWAN(on) ==
  Checked(<<ExportIfAny("mwan3")>>,
          Write("mwan3")
            \o (IF on THEN <<Initd("mwan3", "enable"),
                             Initd("mwan3", "restart")>>
                      ELSE <<Initd("mwan3", "stop"),
                             Initd("mwan3", "disable")>>),
          <<PutBack("mwan3"), Initd("mwan3", "restart")>>)
=============================================================================
