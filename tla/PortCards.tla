------------------------------ MODULE PortCards ------------------------------
(***************************************************************************)
(* The cards of the Ports page that act on single ports, on all of them or *)
(* on the switch: app/src/components/ports.                                *)
(***************************************************************************)
EXTENDS CardScripts, TLC

(* Power is one request, then the card reads again and does not wait; the  *)
(* toggle looks at the port and at the cycle together.  The schedule has   *)
(* the same flag, its button only without the cycle; the watchdog's        *)
(* buttons look at nothing.                                                *)
PoEControls ==
  [setPower |-> {}, saveSchedule |-> {}, saveWatchdog |-> {}]
PoECard ==
  LET card == Card("PoE", {"mount"}, "own", PoEControls,
        [setPower |-> Of("power", Keyed(Act("port",
           <<Cycle("setSwitchPort", {"idle", "next"}, {"idle"}),
             ReadBack("poe")>>))),
         saveSchedule |-> Of("schedule", Sending(Keyed(Act("port",
           <<Call("setPoESchedule", Finished \union {"clean"}, Told)>>)))),
         saveWatchdog |-> Of("watchdog", Sending(Keyed(Act("port",
           <<Call("setPoEWatchdog", Finished, Told)>>))))])
  IN  Jointly(Jointly(card, "setPower", {"port", "cycle"}),
              "saveSchedule", {"port", "no cycle"})

(* Applying sends the changed VLANs one after the other (two here) and     *)
(* goes on after a failure; module VlanMatrix has the matrix itself.       *)
VLANTableControls == [apply |-> {"applying"},
                      deleteVLAN |-> {"deleting", "applying"}]
VLANTableCard ==
  Card("VLANTable", {"mount"}, "own", VLANTableControls,
    [apply |-> Submit(Act("applying",
       <<Call("setVlan", {"show", "next"}, {"bad", "next"}),
         Call("setVlan", {"show", "idle"}, Told)>>)),
     deleteVLAN |-> Act("deleting",
       <<Call("deleteVlan", {"show", "idle"}, Told)>>)])

(* One variable holds the port whose state, or whose power, is being set.  *)
(* The note is saved by Enter too, which looks at no flag.                 *)
EthPortsControls == [setAdmin |-> {"port", "cycle"}, togglePoe |-> {"poe"},
                     saveDesc |-> {}]
EthPortsCard ==
  LET own(flag, act) ==
        Sharing({"port", "poe"}, Keyed([act EXCEPT !.flag = flag]))
  IN  Card("EthPorts", {"mount"}, "own", EthPortsControls,
        [setAdmin |-> own("port", Act("port",
           <<Cycle("setSwitchPort", {"show", "idle"}, {"idle"})>>)),
         togglePoe |-> own("poe", Act("poe",
           <<Call("setSwitchPort", {"show", "idle"}, Told)>>)),
         saveDesc |-> own("port", Sending(Act("port",
           <<Call("setSwitchPort", Finished \union {"clean"}, Told)>>)))])

(* The section in the band of a port: its controls look at the parent's    *)
(* busy port, which this section never sets.                               *)
PhysConfigSection ==
  Card("PhysConfig", {"fed"}, "own", Each({"autoneg", "mtu", "eee"}, {"port"}),
    [autoneg |-> Act("none", <<Call("setPhysPort", {"load"}, {"bad"})>>),
     mtu |-> Submit(Act("none", <<Call("setPhysPort", {"load"}, {"bad"})>>)),
     eee |-> Act("none", <<Call("setPhysPort", {"load"}, {"bad"})>>)])

(* The switch sends the fields too, and every reading fills them again:    *)
(* load keeps the form of the first rendering, where there is none.        *)
StpBridgeCard ==
  LET set == Sending(Act("busy", SetThenRead("setSTPBridge", "stp")))
  IN  Card("StpBridge", {"mount"}, "follows",
        Each({"toggle", "save"}, {"busy"}), [toggle |-> set, save |-> set])

(* Saving the cost and the priority empties the draft as it starts.        *)
StpPortsControls ==
  Each({"toggleStp", "toggleEdge", "reset", "saveDraft"}, {"port"})
StpPortsCard ==
  LET apply == Keyed(Act("port", SetThenRead("setSTPPort", "stp")))
  IN  Card("StpPorts", {"mount"}, "own", StpPortsControls,
        [toggleStp |-> apply, toggleEdge |-> apply, reset |-> apply,
         saveDraft |-> At({"clean"}, Submit(apply))])

(* Adding a port goes through a picker that looks at no flag.              *)
PortIsolationCard ==
  LET set == Keyed(Act("port", SetThenRead("setPortIsolation",
                                           "portIsolation")))
  IN  Card("PortIsolation", {"mount"}, "none", [add |-> {}, remove |-> {"port"}],
        [add |-> set, remove |-> set])

(* Enter in the field of the address looks at the fields, at no flag.      *)
PortSecurityControls ==
  [addPort |-> {}, learning |-> {"port"}, addMac |-> {},
   removeMac |-> {"port"}]
PortSecurityCard ==
  LET set(call) == Keyed(Act("port", SetThenRead(call, "portSecurity")))
      addMac == <<Call("setPortStaticMac", {"clean", "next"}, Told),
                  Call("portSecurity", {"show", "idle"}, {"idle"})>>
  IN  Card("PortSecurity", {"mount"}, "own", PortSecurityControls,
        [addPort |-> set("setPortLearning"), learning |-> set("setPortLearning"),
         addMac |-> Submit(Keyed(Act("port", addMac))),
         removeMac |-> set("setPortStaticMac")])

MirrorCard ==
  LET set == SetThenRead("setMirror", "mirror")
  IN  Card("Mirror", {"mount"}, "follows", Each({"apply", "disable"}, {"busy"}),
        [apply |-> Sending(Act("busy", set)), disable |-> Act("busy", set)])

(* A slider is let go twice on a touch screen, by the pointer and by the   *)
(* touch, and each sends it.  The switch and the button that removes a     *)
(* port's own limit send no draft.  Every reading drops all the drafts.    *)
SliderControls ==
  [slideAll |-> {}, toggleAll |-> {"busyAll"}, slidePort |-> {},
   removeOverride |-> {"port"}]
RateLimitCard ==
  LET all == Act("busyAll", SetThenRead("setRateLimitAll", "rateLimit"))
      port == Keyed(Act("port", SetThenRead("setRateLimit", "rateLimit")))
  IN  Card("RateLimit", {"mount"}, "follows", SliderControls,
        [slideAll |-> Submit(all), toggleAll |-> all,
         slidePort |-> Submit(port), removeOverride |-> port])

(* One variable names what is being done.  Creating and applying look at   *)
(* it each for its own name, the dialog of a removal for any.              *)
PortTemplatesControls ==
  [create |-> {"create"}, apply |-> {"apply"},
   del |-> {"create", "apply", "del"}]
PortTemplatesCard ==
  LET flags == {"create", "apply", "del"}
      own(act) == Sharing(flags, act)
      read == Call("portTemplates", Finished, {"good", "idle"})
  IN  Card("PortTemplates", {"mount"}, "own", PortTemplatesControls,
        [create |-> own(Submit(Act("create",
           <<Call("savePortTemplate", {"clean", "next"}, Told), read>>))),
         del |-> own(Act("del",
           <<Call("deletePortTemplate", {"next"}, Told), read>>)),
         apply |-> Of("elsewhere", own(Keyed(Act("apply",
           <<Call("applyPortTemplate", {"good", "idle"}, Told)>>))))])

LagCard ==
  Card("Lag", {"mount"}, "own", Each({"create", "remove"}, {"cycle"}),
    [create |-> Submit(Act("none", ShownCycle("setLag", {"clean"}))),
     remove |-> Act("none", ShownCycle("deleteLag", {}))])

(* Roles and switch modes: a change and its banner, nothing is read back.  *)
RoleProfilesCard ==
  Card("RoleProfiles", {"mount"}, "own", [apply |-> {"busy"}],
    [apply |-> Of("elsewhere", Submit(Act("busy",
       <<Call("applyRoleProfile", {"good", "idle"}, Told)>>)))])
SwitchModesCard ==
  Card("SwitchModes", {"mount"}, "none", [apply |-> {"mode"}],
    [apply |-> Of("elsewhere", Keyed(Act("mode",
       <<Call("applySwitchMode", {"good", "idle"}, Told)>>)))])
=============================================================================
