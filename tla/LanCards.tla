------------------------------- MODULE LanCards -------------------------------
(***************************************************************************)
(* The cards of the LAN and firewall pages: app/src/components/lan and     *)
(* app/src/components/firewall, with the port forwards that page shares.   *)
(***************************************************************************)
EXTENDS CardScripts, TLC

(* The configuration belongs to the page, which hands it to this card and  *)
(* to the reservations; saving both is one run of two calls.               *)
LanConfigControls == Each({"saveLan", "saveDhcp", "saveBoth"}, {"cycle"})
LanConfigCard ==
  Card("LanConfig", {"mount", "fed"}, "follows", LanConfigControls,
    [saveLan |-> Submit(Act("none", ShownCycle("setLan", {}))),
     saveDhcp |-> Submit(Act("none", ShownCycle("setDhcp", {}))),
     saveBoth |-> Submit(Act("none",
       <<CyclePart("setLan"), Cycle("setDhcp", {"show"}, {})>>))])

(* The servers handed out by DHCP are saved with the page's copy of the    *)
(* LAN: module LanPage.                                                    *)
DnsControls == Each({"toggle", "addHost", "removeHost", "saveDns"}, {"cycle"})
DnsCard ==
  LET dns(call, effects) ==
        Of("dns", Act("none", ShownCycle(call, effects)))
  IN  Card("Dns", {"mount"}, "own", DnsControls,
        [toggle |-> dns("setDns", {}),
         addHost |-> Submit(dns("setDnsHost", {"clean"})),
         removeHost |-> dns("setDnsHost", {}),
         saveDns |-> Of("dhcp", Sending(Act("none",
                       ShownCycle("setDhcp", {}))))])

(* The fields are emptied as the call starts, whatever it answers.         *)
ReservationsControls == Each({"add", "remove", "clear"}, {"cycle"})
ReservationsCard ==
  Card("Reservations", {"mount", "fed"}, "own", ReservationsControls,
    [add |-> At({"clean"}, Submit(Act("none",
               ShownCycle("setReservation", {})))),
     remove |-> Act("none", ShownCycle("setReservation", {})),
     clear |-> Act("none", ShownCycle("clearReservations", {}))])

(* A removal that failed is read again.                                    *)
PortForwardControls == Each({"addRule", "deleteRule"}, {"cycle"})
NewRuleModal ==
  Submit(Act("none", ShownCycle("addFwdRule", {"clean"})))
PortForwardCard ==
  Card("PortForward", {"mount"}, "own", PortForwardControls,
    [addRule |-> NewRuleModal,
     deleteRule |-> Act("none",
       <<Cycle("deleteFwdRule", {"show"}, {"last"}),
         ReadBack("portforward")>>)])

TrafficRulesControls == Each({"add", "del"}, {"cycle"})
NewTrafficRuleModal ==
  Submit(Act("none", ShownCycle("addFirewallRule", {"clean"})))
TrafficRulesCard ==
  Card("TrafficRules", {"mount"}, "own", TrafficRulesControls,
    [add |-> NewTrafficRuleModal,
     del |-> Act("none", ShownCycle("deleteFirewallRule", {}))])
=============================================================================
