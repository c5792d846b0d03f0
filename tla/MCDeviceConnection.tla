-------------------------- MODULE MCDeviceConnection --------------------------
EXTENDS DeviceConnection
=============================================================================
