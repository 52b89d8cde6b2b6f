---------------------------- MODULE ServiceCards ----------------------------
(***************************************************************************)
(* The cards of the Services page: app/src/components/services.            *)
(***************************************************************************)
EXTENDS CardScripts, TLC

(* A change whose answer is shown; after a failure the card reads again.   *)
CycleOrReadBack(change, read, ok) ==
  <<Cycle(change, {"show"} \union ok, {"last"}), ReadBack(read)>>

(* The button of a card whose package is missing.  A failure is swallowed. *)
InstallAndRead(read) ==
  Act("installing", <<Call("wizardPackages", {"next"}, {"idle"}),
                      Call(read, {"show", "idle"}, {"idle"})>>)

Ipv6Card ==
  Card("Ipv6", {"mount"}, "none", [toggle |-> {"cycle"}],
    [toggle |-> Act("none", CycleOrReadBack("setIpv6", "ipv6", {}))])

SqmControls ==
  [toggle |-> {"cycle"}, profile |-> {"cycle"}, test |-> {"testing"}]
SqmCard ==
  LET apply == CycleOrReadBack("setSqm", "sqm", {})
  IN  Card("Sqm", {"mount"}, "follows", SqmControls,
        [toggle |-> Sending(Act("none", apply)),
         profile |-> Sending(Act("none", apply)),
         test |-> Of("apart", Act("testing",
                    <<Call("runBufferbloatTest", {"show", "idle"}, Told)>>))])

TailscaleCard ==
  Card("Tailscale", {"mount"}, "none",
    [toggle |-> {"cycle"}, install |-> {"installing"}],
    [toggle |-> Act("none", CycleOrReadBack("setTailscale", "tailscale", {})),
     install |-> InstallAndRead("tailscale")])

(* Adding a device closes its modal and empties its fields.                *)
WireguardControls ==
  Each({"toggle", "addWithQr", "addWithKey", "deletePeer"}, {"cycle"})
    @@ [install |-> {"installing"}]
WireguardCard ==
  LET apply(call, ok) == CycleOrReadBack(call, "wireguard", ok)
  IN  Card("Wireguard", {"mount"}, "own", WireguardControls,
        [toggle |-> Act("none", apply("setWireguard", {})),
         addWithQr |-> Sending(Act("none", apply("addWgPeerQr", {"clean"}))),
         addWithKey |-> Submit(Act("none", apply("addWgPeer", {"clean"}))),
         deletePeer |-> Act("none", apply("deleteWgPeer", {})),
         install |-> InstallAndRead("wireguard")])

OpenvpnControls ==
  Each({"toggle", "addClient", "deleteClient"}, {"cycle"})
    @@ [install |-> {"installing"}, saveHost |-> {"savingHost"}]
OpenvpnCard ==
  LET apply(call, ok) == CycleOrReadBack(call, "openvpn", ok)
  IN  Card("Openvpn", {"mount"}, "own", OpenvpnControls,
        [toggle |-> Act("none", apply("setOpenvpn", {})),
         addClient |-> Submit(Act("none", apply("addOvpnClient", {"clean"}))),
         deleteClient |-> Act("none", apply("deleteOvpnClient", {})),
         saveHost |-> Submit(Act("savingHost",
           <<Call("setOvpnPublicHost", Finished \union {"clean"}, Told)>>)),
         install |-> InstallAndRead("openvpn")])

(* A row compares the busy value with its section: toggling stores the     *)
(* domain there and disables nothing.  The fields are emptied when the     *)
(* number of entries changes.  A failure is not followed by a reading;     *)
(* forcing an update always reads 6 s later.                               *)
DdnsRowControls ==
  [toggle |-> {"section"}, remove |-> {"section"}, force |-> {"section"}]
DdnsControls == DdnsRowControls @@ [add |-> {"cycle"}]
DdnsCard ==
  Card("Ddns", {"mount"}, "own", DdnsControls,
    [toggle |-> Sharing({"section"}, Keyed(Act("domain",
        <<Cycle("setDdns", {"show", "idle"}, {"idle"})>>))),
     add |-> Submit(Act("none", <<Cycle("setDdns", {"show", "clean"}, {})>>)),
     remove |-> Sharing({"domain"}, Keyed(Act("section",
        <<Cycle("deleteDdns", {"show", "clean", "idle"}, {"idle"})>>))),
     force |-> Sharing({"domain"}, Keyed(Act("section",
        <<Cycle("forceDdns", {"show", "idle", "next"}, {"idle", "next"}),
          Pause({"next"}), ReadBack("ddns")>>)))])

NlbwmonCard ==
  Card("Nlbwmon", {"mount"}, "own", Each({"toggle", "save"}, {"cycle"}),
    [toggle |-> Act("none", <<Cycle("setNlbwmon", {"show"}, {})>>),
     save |-> Submit(Act("none",
                <<Cycle("setNlbwmon", {"show", "clean"}, {})>>))])

(* The switch installs, enables or starts, whatever is missing, and        *)
(* uninstalls; every end is followed by a reading.                         *)
BanipCard ==
  LET step(call) == <<Call(call, {"good", "idle", "load"},
                           {"bad", "idle", "load"})>>
  IN  Card("Banip", {"mount"}, "none",
        Each({"install", "enable", "start", "uninstall"}, {"busy"}),
        [install |-> Act("busy", step("banipInstall")),
         enable |-> Act("busy", step("banipAction")),
         start |-> Act("busy", step("banipAction")),
         uninstall |-> Act("busy", step("banipUninstall"))])

(* The answer's own state is not used: the card reads after it, and once   *)
(* more when either call has thrown.                                       *)
MdnsCard ==
  Card("Mdns", {"mount"}, "none", [toggle |-> {"busy"}],
    [toggle |-> Act("busy",
       <<Call("setMdns", {"next"}, {"bad", "last"}),
         Call("mdns", {"show", "idle"}, {"bad", "last"}),
         Call("mdns", {"show", "idle"}, {"idle"})>>)])

(* Enabling installs the package first when it is missing, and follows     *)
(* that job.  Stopping has no catch: a failure goes untold, unread.        *)
AdguardControls ==
  [enable |-> {"busy", "doh", "installing"}, disable |-> {"busy", "doh"},
   installAndEnable |-> {"busy", "doh", "installing"}, stop |-> {"busy"},
   activateDoH |-> {"busy", "doh"}, deactivateDoH |-> {"busy", "doh"},
   regenerate |-> {"busy", "cred"}]
AdguardCard ==
  LET end(call) == Call(call, Finished \union {"load"}, Told \union {"load"})
      install == <<Call("wizardPackages", {"next"}, Told \union {"load"}),
                   Call("installJob", {"next"}, Told \union {"load"})>>
  IN  Card("Adguard", {"mount"}, "none", AdguardControls,
        [enable |-> Act("busy", <<end("adguardProtection")>>),
         installAndEnable |->
           Act("busy", Append(install, end("adguardProtection"))),
         disable |-> Act("busy", <<end("adguardProtection")>>),
         stop |-> Act("busy",
           <<Call("adguardAction", {"show", "load", "idle"}, {"idle"})>>),
         activateDoH |-> Act("doh", <<end("adguardDoh")>>),
         deactivateDoH |-> Act("doh", <<end("adguardDoh")>>),
         regenerate |-> Of("apart",
           Act("cred", <<end("adguardRegeneratePassword")>>))])

(* Removing raises no flag and its dialog closes only when it worked;      *)
(* a suggestion is added without one too.                                  *)
LanServicesControls ==
  [remove |-> {}, discover |-> {"discovering"}, addSuggestion |-> {},
   submit |-> {"saving"}]
LanServiceModal ==
  Submit(Act("saving", <<Call("upsertLanService",
                           {"good", "clean", "load", "idle"}, Told)>>))
LanServicesCard ==
  Card("LanServices", {"mount"}, "own", LanServicesControls,
    [remove |-> Act("none", <<Call("deleteLanService", {"patch", "good"},
                                   {"bad"})>>),
     discover |-> Of("apart", Act("discovering",
       <<Call("discoverLanServices", {"idle"}, Told)>>)),
     addSuggestion |-> Act("none",
       <<Call("upsertLanService", {"good", "load"}, {"bad"})>>),
     submit |-> LanServiceModal])

(* The code that holds a device's configuration.                           *)
QrData ==
  Card("QrData", {"mount", "subject", "guarded"}, "none", Each({}, {}),
    Each({}, {}))
=============================================================================
