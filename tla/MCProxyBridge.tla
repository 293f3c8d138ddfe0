---------------------------- MODULE MCProxyBridge ----------------------------
\* Four calls, one of them a notification, compete for two slots.
EXTENDS ProxyBridge

CONSTANTS r1, r2, r3, n1

MCCalls == {r1, r2, r3, n1}
MCNotifications == {n1}
==============================================================================
