-------------------------- MODULE MCDeviceScheduler --------------------------
(* One polled device and one that reports by itself.  A unit is a tick.    *)
EXTENDS DeviceScheduler

CONSTANTS gas, smoke
MCDevice == {gas, smoke}
MCTask == {gas}
MCWindow == [d \in MCDevice |-> 2]
MCPeriod == [d \in MCTask |-> 2]
=============================================================================
