--------------------------- MODULE WirelessPaths ----------------------------
(***************************************************************************)
(* The handlers of internal/modules that change the radios and who may use *)
(* them: SSIDs, guest and IoT networks, client blocking, the Wi-Fi         *)
(* schedule and parental control.                                          *)
(***************************************************************************)
EXTENDS WritePaths

ReloadWifi == Initd("wifi", "reload")

(* SetWifi: reloadAll is best effort, in the change and in the rollback.   *)
SetWifi ==
  Checked(<<Export("wireless")>>, Write("wireless") \o <<Try(ReloadWifi)>>,
          <<PutBack("wireless"), ReloadWifi>>)

(* SetWifiRadio rolls back with wifi down and wifi up.                     *)
SetWifiRadio ==
  Checked(<<Export("wireless")>>, Write("wireless") \o <<Try(ReloadWifi)>>,
          <<PutBack("wireless"), Initd("wifi", "restart")>>)

(* SetGuest and guestOps.  Creating the network writes four packages; an   *)
(* update, and turning the SSIDs off, write wireless alone.  The rollback  *)
(* puts back all four and reloads everything but the DHCP server.          *)
SetGuest(creating) ==
  Checked(
    <<Export("network"), Export("dhcp"), Export("firewall"),
      Export("wireless")>>,
    IF creating
      THEN <<UciSet("network"), UciSet("dhcp"), UciSet("firewall"),
             UciSet("wireless"), UciCommit("network"), UciCommit("dhcp"),
             UciCommit("firewall"), UciCommit("wireless"),
             Initd("network", "reload"), Initd("dnsmasq", "restart"),
             Initd("firewall", "reload"), ReloadWifi>>
      ELSE Write("wireless") \o <<ReloadWifi>>,
    <<PutBack("network"), PutBack("dhcp"), PutBack("firewall"),
      PutBack("wireless"), Initd("network", "reload"),
      Initd("firewall", "reload"), ReloadWifi>>)

(* SetIoT and radiosToReload, which names the radio of a band "2g" or "5g" *)
(* and no radio for any other: that rollback loops over nothing.           *)
SetIoT(band) ==
  Checked(
    <<Export("wireless")>>,
    Write("wireless") \o <<ReloadWifi>>,
    <<PutBack("wireless")>> \o (IF band = "both" THEN <<>> ELSE <<ReloadWifi>>))

(* applyIoTReady restores its own export again after SetIoT rolled back.   *)
ApplyIoTReady ==
  Checked(
    <<Export("wireless"), Export("wireless")>>,
    Write("wireless") \o <<ReloadWifi>>,
    <<PutBack("wireless"), ReloadWifi, PutBack("wireless")>>)

(* SetClientBlocked, for a Wi-Fi client and for a wired one.               *)
SetClientBlocked == WriteAndReload("wireless", "wifi", "reload")
SetCableBlocked ==
  Needing({"firewall"}, WriteAndReload("firewall", "firewall", "reload"))

(* reconcileWifiSchedule: only turning an interface on is probed.          *)
ReconcileWifiSchedule(off) ==
  [WriteAndReload("wireless", "wifi", "reload") EXCEPT !.health = ~off]

(* applyParentalWifi and applyParentalCable.                               *)
ApplyParentalWifi == WriteAndReload("wireless", "wifi", "reload")
ApplyParentalCable ==
  Needing({"firewall"}, WriteAndReload("firewall", "firewall", "reload"))
=============================================================================
