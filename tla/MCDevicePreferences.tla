------------------------ MODULE MCDevicePreferences ------------------------
(* Instances of DevicePreferences for TLC.                                 *)
EXTENDS DevicePreferences

CONSTANTS k1, k2, k3, d1, d2

ThreeKeys == {k1, k2, k3}
TwoDevices == {d1, d2}
===========================================================================
