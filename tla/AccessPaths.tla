---------------------------- MODULE AccessPaths -----------------------------
(***************************************************************************)
(* The handlers of internal/modules that change the firewall, DNS and DHCP *)
(* settings, the ways into the router, and NetGrip's own package; and the  *)
(* operations that NetPulse sends.                                         *)
(***************************************************************************)
EXTENDS WritePaths

(* The handlers that write the firewall, reload it and look whether the    *)
(* rule is there: SetOffload, AddFirewallRule, DeleteFirewallRule,         *)
(* AddFwdRule, RemoveFwdRule.                                              *)
FirewallRule ==
  Checked(<<Export("firewall")>>,
          Write("firewall") \o <<Initd("firewall", "reload")>>,
          <<PutBack("firewall"), Initd("firewall", "reload")>>)
SetOffload == Needing({"firewall"}, FirewallRule)
AddFirewallRule == Needing({"firewall"}, FirewallRule)
DeleteFirewallRule == FirewallRule
AddFwdRule == Needing({"firewall"}, FirewallRule)
RemoveFwdRule == Needing({"firewall"}, FirewallRule)

(* SetRemoteAccess drops the error of the reload.                          *)
SetRemoteAccess ==
  Needing({"firewall"},
    Checked(<<Export("firewall")>>,
            Write("firewall") \o <<Try(Initd("firewall", "reload"))>>,
            <<PutBack("firewall"), Initd("firewall", "reload")>>))

(* SetDHCP, SetReservation and ClearReservations; SetClientReservation,    *)
(* SetDNS and reconcileLanServiceAlias write the same package the same way.*)
SetReservation == WriteAndReload("dhcp", "dnsmasq", "reload")
SetDHCP == WriteAndReload("dhcp", "dnsmasq", "reload")
ClearReservations == WriteAndReload("dhcp", "dnsmasq", "reload")
SetClientReservation == WriteAndReload("dhcp", "dnsmasq", "reload")
SetDNS == WriteAndReload("dhcp", "dnsmasq", "reload")
ReconcileLanServiceAlias == WriteAndReload("dhcp", "dnsmasq", "reload")

(* applyResetDefaults: the rules go one by one with their errors dropped;  *)
(* ClearReservations then rolls itself back first.                         *)
ApplyResetDefaults ==
  Handler(
    <<Export("firewall"), Export("dhcp"), Export("dhcp")>>,
    <<Try(UciSet("firewall")), Try(UciCommit("firewall")),
      Try(Initd("firewall", "restart"))>>
      \o Write("dhcp") \o <<Initd("dnsmasq", "reload")>>,
    <<PutBack("dhcp"), Initd("dnsmasq", "reload"), PutBack("firewall"),
      PutBack("dhcp")>>)
-----------------------------------------------------------------------------
(* AdGuardAction: a failed operation is answered with an error and no      *)
(* claim of a rollback; a failed probe reverses the daemon, not the link.  *)
AdGuardAction(on) ==
  [Checked(<<>>,
           <<Initd("adguardhome", IF on THEN "start" ELSE "stop"),
             Initd("adguardhome", IF on THEN "enable" ELSE "disable")>>,
           <<>>)
   EXCEPT !.unprobe = <<Initd("adguardhome", IF on THEN "stop" ELSE "start")>>]

(* adGuardEnable and adGuardEnableRollback.  The DNS settings are saved to *)
(* a backup file first, which stands here for an export of dhcp, and       *)
(* adGuardApplyDNS writes them back and restarts dnsmasq.                  *)
AdGuardEnable ==
  Checked(<<Export("dhcp")>>,
          <<Initd("adguardhome", "enable"), Initd("adguardhome", "start")>>
            \o Write("dhcp") \o <<Initd("dnsmasq", "restart")>>,
          <<PutBack("dhcp"), Initd("dnsmasq", "restart"),
            Initd("adguardhome", "stop")>>)

-----------------------------------------------------------------------------
(* SetLuciAccess, where uhttpd is enabled.                                 *)
SetLuciAccess ==
  Needing({"uhttpd"},
    Checked(<<Export("uhttpd")>>,
            Write("uhttpd") \o <<Try(Initd("uhttpd", "restart"))>>,
            <<PutBack("uhttpd"), Initd("uhttpd", "restart")>>))

(* SetSSHAccess and sshOps.                                                *)
SetSSHAccess(on) ==
  Checked(<<Export("dropbear")>>,
          <<UciSet("dropbear"),
            Initd("dropbear", IF on THEN "enable" ELSE "disable"),
            UciCommit("dropbear"), Initd("dropbear", "restart"),
            Try(Initd("dropbear", "restart"))>>,
          <<PutBack("dropbear"), Initd("dropbear", "restart")>>)

(* applyNetgripConfig, through which the settings of the panel are saved,  *)
(* and the same without its restore.                                       *)
NetgripUnguarded == Handler(<<Export("netgrip")>>, Write("netgrip"), <<>>)
ApplyNetgripConfig ==
  Handler(<<Export("netgrip")>>, Write("netgrip"), <<PutBack("netgrip")>>)

(* The handlers that write netgrip with executor.Apply and no snapshot:    *)
(* SavePortTemplate, DeletePortTemplate, SetPoEWatchdog, SetVPNPublicHost. *)
SavePortTemplate == Handler(<<>>, Write("netgrip"), <<>>)
DeletePortTemplate == Handler(<<>>, Write("netgrip"), <<>>)
SetPoEWatchdog == Handler(<<>>, Write("netgrip"), <<>>)
SetVPNPublicHost == Handler(<<>>, Write("netgrip"), <<>>)

(* ExecuteOps runs the list NetPulse sends, one runExecutorOp at a time,   *)
(* and answers with the first error.                                       *)
ExecuteOps(p, s) == Handler(<<>>, Write(p) \o <<Initd(s, "restart")>>, <<>>)
=============================================================================
