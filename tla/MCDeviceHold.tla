---------------------------- MODULE MCDeviceHold ----------------------------
(* DeviceHold for TLC: benches of two or three devices and interchangeable  *)
(* sessions.                                                                *)
EXTENDS DeviceHold, TLC

SessionSymmetry == Permutations(Sessions)

\* Every plugin has one device, which a plan names in one way.
Apart == [r \in Refs |-> {r}]

\* "mp135" and "mp135.evb" (references 1 and 2) both mean device 1.
Aliased == [r \in Refs |-> IF r = 1 THEN {1} ELSE {r - 1}]

\* "usb" (reference 1) means usb.any or the real device, keys 1 and 2.
WithAny == [r \in Refs |-> IF r = 1 THEN {1, 2} ELSE {r + 1}]
=============================================================================
