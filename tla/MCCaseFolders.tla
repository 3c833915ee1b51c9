--------------------------- MODULE MCCaseFolders ---------------------------
(* Two cases and one or two sessions.                                      *)
EXTENDS CaseFolders
Only(sessions, cases, on) ==
  [sessions |-> sessions, cases |-> cases, labels |-> Labels, seconds |-> 2,
   saves |-> "saves" \in on, upload |-> "upload" \in on,
   cancel |-> "cancel" \in on, batch |-> "batch" \in on, stop |-> "stop" \in on,
   usb |-> "usb" \in on, root |-> "root" \in on]
FolderTrips ==
  { Only({1}, {1, 2}, {"saves", "upload", "cancel"}),
    Only({1}, {1, 2}, {"saves", "upload", "batch"}),
    Only({1}, {1, 2}, {"saves", "stop"}), Only({1}, {1, 2}, {"batch", "stop"}),
    Only({1}, {1, 2}, {"upload", "stop"}), Only({1}, {1, 2}, {"upload", "root"}),
    Only({1}, {1}, {"saves", "upload", "usb"}),
    Only({1}, {1}, {"saves", "stop", "usb"}),
    Only({1, 2}, {1}, {"saves", "upload", "stop"}),
    Only({1, 2}, {1, 2}, {"upload"}), Only({1, 2}, {1, 2}, {"batch"}),
    [Only({1, 2}, {1, 2}, {"cancel", "upload"})
       EXCEPT !.labels = {"x"}, !.seconds = 1] }
=============================================================================
