------------------------------- MODULE PageCards -------------------------------
(***************************************************************************)
(* Pages that are one card each: banIP, UPnP, Fleet, DPI, WAN and Storage  *)
(* of app/src/pages.                                                       *)
(***************************************************************************)
EXTENDS CardScripts, TLC

(* run of banIP and of UPnP: the answer is shown, and whatever happened    *)
(* the page then reads again, without waiting for it.                      *)
RunAndLoad(call) ==
  Act("busy", <<Call(call, Finished \union {"load"}, Told \union {"load"})>>)
ShownOnly(call) == Act("busy", <<SaveAndShow(call)>>)

(* The draft of the feeds is replaced by every probe, also by the one that *)
(* the page asks for by itself and that takes some 9 s to arrive.          *)
FeedsTab ==
  Submit(Act("saving", <<Call("banipSetFeeds", Finished \union {"load"}, Told)>>))
SearchTab ==
  Of("apart", Act("searching", <<Call("banipSearch", {"show", "idle"}, Told)>>))
BanipControls ==
  Each({"enable", "stop", "reload", "uninstall", "install"}, {"busy"})
    @@ [dismiss |-> {}, saveFeeds |-> {"saving", "busy"},
        search |-> {"searching"}]
BanipPageCard ==
  Card("BanipPage", {"mount"}, "follows", BanipControls,
    [enable |-> RunAndLoad("banipAction"), stop |-> RunAndLoad("banipAction"),
     reload |-> RunAndLoad("banipAction"),
     install |-> ShownOnly("banipInstall"),
     uninstall |-> ShownOnly("banipUninstall"),
     dismiss |-> Act("none",
       <<Call("banipDismissRamWarning", {"show", "good"}, {"bad"})>>),
     saveFeeds |-> FeedsTab, search |-> SearchTab])

(* The field is emptied before the request; each list has its own flag.    *)
ListControls ==
  Each({"allow", "disallow"}, {"savingAllowed", "busy"})
    @@ Each({"block", "unblock"}, {"savingBlocked", "busy"})
ListCard ==
  LET change(flag, call) ==
        Act(flag, <<Call(call, {"show", "load", "idle"}, Told)>>)
      add(flag) == At({"clean"}, Submit(change(flag, "banipListAdd")))
  IN  Card("BanipLists", {"mount"}, "own", ListControls,
        [allow |-> add("savingAllowed"), block |-> add("savingBlocked"),
         disallow |-> change("savingAllowed", "banipListRemove"),
         unblock |-> change("savingBlocked", "banipListRemove")])

RulesCard ==
  LET change(call, effects) ==
        Act("saving", <<Call(call, {"show", "load", "idle"} \union effects, Told)>>)
  IN  [addRule |-> Submit(change("upnpRuleAdd", {"clean"})),
       removeRule |-> change("upnpRuleDelete", {})]
UpnpControls ==
  Each({"enable", "disable", "install", "uninstall"}, {"busy"})
    @@ Each({"addRule", "removeRule"}, {"saving", "busy"})
UpnpPageCard ==
  Card("UpnpPage", {"mount"}, "own", UpnpControls,
    [enable |-> RunAndLoad("upnpAction"), disable |-> RunAndLoad("upnpAction"),
     install |-> ShownOnly("upnpInstall"),
     uninstall |-> ShownOnly("upnpUninstall")] @@ RulesCard)

(* Three readings together.  Removing, updating and the switch patch what  *)
(* is shown: the new version is shown though the node has only begun to    *)
(* update.  A check shows its failure in the node; checking all does not.  *)
FleetControls ==
  [checkAll |-> {"checkingAll"}, remove |-> {"dialog"}, update |-> {"dialog"},
   toggleDiscovery |-> {"discovery"}, check |-> {"checking", "checkingAll"},
   add |-> {}, adopt |-> {}]
NodeCard ==
  Of("apart", Keyed(Act("checking",
    <<Call("checkFleetNode", {"show", "idle"}, Told)>>)))
(* Both modals can be closed during the request, which lowers their flag   *)
(* and empties the fields, and opened again.                               *)
AddNodeModal ==
  Submit(Act("adding", <<Call("addFleetNode",
                          {"clean", "good", "load", "idle"}, Told)>>))
AdoptNodeModal ==
  Submit(Act("adopting", <<Call("adoptFleetPeer",
                            {"clean", "good", "load", "idle"}, Told)>>))
FleetPageCard ==
  LET patched(flag, call) ==
        Act(flag, <<Call(call, {"patch", "good", "idle"}, Told)>>)
  IN  Card("FleetPage", {"mount"}, "own", FleetControls,
        [checkAll |-> Of("apart", Act("checkingAll",
           <<Call("checkAllFleet", {"show", "idle"}, {"idle"})>>)),
         remove |-> patched("dialog", "deleteFleetNode"),
         update |-> patched("dialog", "updateFleetNode"),
         toggleDiscovery |-> patched("discovery", "setFleetDiscoveryConfig"),
         check |-> NodeCard, add |-> AddNodeModal, adopt |-> AdoptNodeModal])

(* Every 3 s while netifyd runs; a change rolled back is shown too.        *)
DpiPageCard ==
  Card("DpiPage", {"mount", "poll"}, "none", [toggle |-> {"busy"}],
    [toggle |-> RunAndLoad("setNetifyd")])

WanControls == [save |-> {"saving"}, checkPublic |-> {"checking"}]
WanPageCard ==
  Card("WanPage", {"mount"}, "follows", WanControls,
    [save |-> Sending(Act("saving", <<SaveAndShow("setWanConfig")>>)),
     checkPublic |-> Of("apart", Act("checking",
       <<Call("checkPublicIp", {"show", "idle"}, Told)>>))])

(* One row of the services; the page is read again only when it worked.    *)
ServiceRow == [toggle |-> {"cycle"}]
StoragePageCard ==
  Card("StoragePage", {"mount"}, "none", ServiceRow,
    [toggle |-> Act("none", <<Cycle("setStorageService", {"load"}, {})>>)])
=============================================================================
