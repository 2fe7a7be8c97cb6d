------------------------------- MODULE MCGui --------------------------------
(* Port 80 is taken, as it mostly is where the dialog offers "80,8080".    *)
EXTENDS Gui

MCPortText == {<<"0">>, <<"8", "0", ",", "8", "0", "8", "0">>}
MCBusy == {80}
=============================================================================
