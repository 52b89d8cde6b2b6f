------------------------------ MODULE WifiCards ------------------------------
(***************************************************************************)
(* The Wi-Fi page and its cards: app/src/pages/Wifi.tsx, the modals and    *)
(* cards of app/src/components that it shows, and components/wifi.         *)
(***************************************************************************)
EXTENDS CardScripts, TLC

(* Saving with the bands apart renames the other bands first, one request  *)
(* each (one here), and then the band edited; the page patches that one    *)
(* network and reads all again, but only when everything was applied.      *)
WifiEditControls == Each({"saveUnified", "savePerBand"}, {"cycle"})
WifiEditModal ==
  LET save == Cycle("setWifi", {"patch", "load"}, {})
  IN  [saveUnified |-> Sending(Act("none", <<save>>)),
       savePerBand |-> Sending(Act("none", <<CyclePart("setWifi"), save>>))]
WifiRadioModal ==
  [saveRadio |-> Sending(Act("none", <<Cycle("setWifiRadio", {"load"}, {})>>))]

(* The page reads networks, radios and names together and the blocked      *)
(* clients after them; unblocking reads those again.                       *)
WifiBlockedModal ==
  [unblock |-> Of("blocked", Keyed(Act("mac",
     <<Call("blockClient", {"next"}, {"idle"}),
       Call("blockedClients", {"show", "idle"}, {"idle"})>>)))]
WifiPageCard ==
  Card("WifiPage", {"mount"}, "own",
    WifiEditControls @@ [saveRadio |-> {"cycle"}, unblock |-> {"mac"}],
    WifiEditModal @@ WifiRadioModal @@ WifiBlockedModal)

(* Whatever is applied closes the set-up form and empties both keys.  The  *)
(* state is the shell's, read once.                                        *)
GuestWifiControls ==
  Each({"flip", "toggleIsolate", "changeKey", "setup"}, {"cycle"})
GuestWifiCard ==
  LET apply == Act("none", ShownCycle("setGuestwifi", {"clean"}))
  IN  Card("GuestWifi", {"mount"}, "own", GuestWifiControls,
        [flip |-> apply, toggleIsolate |-> apply,
         changeKey |-> Submit(apply), setup |-> Submit(apply)])

IotWifiControls == Each({"flip", "setup"}, {"cycle"})
IotWifiCard ==
  LET apply == Act("none", ShownCycle("setIotwifi", {"clean"}))
  IN  Card("IotWifi", {"mount"}, "own", IotWifiControls,
        [flip |-> apply, setup |-> Submit(apply)])

(* Switching it on and saving send the fields as they are, switching it    *)
(* off sends none, and the picture is a request of its own.  Each answer   *)
(* fills the fields again, and so does the reading after a failure of the  *)
(* first three.                                                            *)
CaptivePortalControls ==
  Each({"enable", "disable", "save", "image"}, {"cycle"})
CaptivePortalPanel ==
  LET apply == Act("none", <<Cycle("setCaptiveportal", {"show"}, {"last"}),
                             ReadBack("captiveportal")>>)
  IN  Card("CaptivePortal", {"mount"}, "follows", CaptivePortalControls,
        [enable |-> Sending(apply), disable |-> apply, save |-> Sending(apply),
         image |-> Act("none", ShownCycle("uploadCaptivePortalImage", {}))])

(* A row for each network; every reading fills the fields of all of them.  *)
ScheduleRow == Each({"toggleEnabled", "save", "togglePause"}, {"section"})
WifiScheduleCard ==
  LET persist == Keyed(Act("section",
        <<Call("setWifiSchedule", {"load", "good", "idle"}, Told)>>))
  IN  Card("WifiSchedule", {"mount"}, "follows", ScheduleRow,
        [toggleEnabled |-> persist, save |-> Sending(persist),
         togglePause |-> persist])

WifiChanCard ==
  Card("WifiChan", {"mount"}, "none", [apply |-> {"busy"}],
    [apply |-> Act("busy",
       <<Call("setWifiChan", {"good", "load", "idle"}, Told)>>)])

(* The code to join the network is drawn again with every change of what   *)
(* it stands for, and a drawing that comes late is dropped.                *)
WifiQr ==
  Card("WifiQr", {"mount", "subject", "guarded"}, "none", Each({}, {}),
    Each({}, {}))
=============================================================================
