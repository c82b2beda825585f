----------------------------- MODULE MCBridge -----------------------------
(* Bridge with short messages: an echoed text, a DEBUG line, a hello, and
   application data, both with a 0x16 among their bytes. *)
EXTENDS Bridge

Debug   == <<"DEB", "UG:", "text">>
Echo    == <<"text">>
Hello   == <<"type", "rec", "0x16">>
AppData == <<"rec", "0x16">>

AllMessages == {Debug, Echo, Hello, AppData}
===========================================================================
