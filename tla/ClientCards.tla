------------------------------ MODULE ClientCards ------------------------------
(***************************************************************************)
(* The Clients page and the sections of its modals: app/src/pages/         *)
(* Clients.tsx.                                                            *)
(***************************************************************************)
EXTENDS CardScripts, TLC

(* A change of one client, whose address is the flag; then the page waits  *)
(* for its own reading of the clients, which tells nobody when it fails.   *)
OfClient(act) == Keyed([act EXCEPT !.flag = "mac"])
ThenClients(effects) == Call("clients", {"show"} \union effects, effects)

(* The list is read every 5 s.  Blocking reads the blocked ones as well.   *)
ClientsControls ==
  Each({"pin", "block", "unblock", "saveEdit"}, {"mac"})
BlockScript ==
  <<Call("blockClient", {"next"}, Told), ThenClients({"next"}),
    Call("blockedClients", {"show", "idle"}, {"idle"})>>
(* A name and a reservation are two requests, and the modal closes after   *)
(* the second.                                                             *)
EditClientModal ==
  OfClient(Sending(Act("mac",
    <<Call("setClientMeta", {"next"}, Told),
      Call("reserveClient", {"clean", "next"}, Told), ThenClients({"idle"})>>)))
ClientsCard ==
  Card("Clients", {"mount", "poll"}, "own", ClientsControls,
    [pin |-> OfClient(Act("mac",
       <<Call("reserveClient", {"next"}, Told), ThenClients({"idle"})>>)),
     block |-> OfClient(Act("mac", BlockScript)),
     unblock |-> OfClient(Act("mac", BlockScript)),
     saveEdit |-> EditClientModal])

(* The bandwidth limit: its switch removes it at once, whatever goes on.   *)
DetailClientControls ==
  [saveLimit |-> {"busy"}, removeLimit |-> {}, switchOff |-> {}]
DetailClientModal ==
  LET remove == Act("busy",
        <<Call("removeNftqos", {"show", "clean", "idle"}, Told)>>)
  IN  Card("DetailClient", {"mount"}, "follows", DetailClientControls,
        [saveLimit |-> Sending(Act("busy",
           <<Call("setNftqos", {"show", "idle"}, Told)>>)),
         removeLimit |-> remove, switchOff |-> remove])

(* The week of parental control; pausing sends the fields as they are.     *)
ParentalControls == Each({"save", "togglePause", "remove"}, {"busy"})
ParentalSection ==
  LET persist(call) == Act("busy", <<Call(call, {"load", "idle"}, Told)>>)
  IN  Card("Parental", {"mount"}, "follows", ParentalControls,
        [save |-> Sending(persist("setParental")),
         togglePause |-> Sending(persist("setParental")),
         remove |-> persist("deleteParental")])

(* The quota is read every 30 s, and each reading fills the fields.        *)
QuotaControls == [save |-> {"busy"}, remove |-> {}, switchOff |-> {}]
QuotaSection ==
  LET change(call) == Act("busy", <<Call(call, {"load", "idle"}, Told)>>)
  IN  Card("Quota", {"mount", "poll"}, "follows", QuotaControls,
        [save |-> Sending(change("setQuota")), remove |-> change("deleteQuota"),
         switchOff |-> change("deleteQuota")])
=============================================================================
