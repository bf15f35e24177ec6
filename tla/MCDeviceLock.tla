---------------------------- MODULE MCDeviceLock ----------------------------
(***************************************************************************)
(* Small instances of DeviceLock for TLC.                                  *)
(***************************************************************************)
EXTENDS DeviceLockProperties, TLC

CONSTANTS d1, d2, s1, s2, c1

\* A thread of the service uses both devices, and shares d2 with a client.
TwoDevices == (s1 :> {d1, d2}) @@ (c1 :> {d2})
HeldAWhile == {(d1 :> 2) @@ (d2 :> time) : time \in {0, 1}}

\* A thread of the service and a client share one device.
OneDevice == (s1 :> {d1}) @@ (c1 :> {d1})
HeldBriefly == {d1 :> 1}

\* Two threads of the service share one device.
OneServed == (s1 :> {d1}) @@ (s2 :> {d1})

=============================================================================
