------------------------------ MODULE MCStation ------------------------------
\* A small station: an amplifier behind a radio and an antenna selector.
EXTENDS Station

CONSTANTS radio, amp, ant, operate, w1, w2

StationDependsOn == (radio :> {}) @@ (amp :> {radio})
StationOnOrder == <<radio, amp>>
StationBoards == {{}, {radio}, {radio, amp, w1}}
StationProfile == <<Item("step", radio, "On"), Item("select", ant, w2)>>
=============================================================================
