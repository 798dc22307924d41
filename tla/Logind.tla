------------------------------- MODULE Logind -------------------------------
(***************************************************************************)
(* LogindManager (src/src/daemon/logind.cpp): a connection to the system   *)
(* bus that is opened when it is first wanted and the bus is there, and    *)
(* never opened again.  The bus and logind are external.                   *)
(***************************************************************************)
VARIABLES
    bus,        \* "up" or "down"
    m_bus,      \* "null", "live", or "dead" when the bus has gone since
    logind      \* history: what the call of this request came to

busVars == <<bus, m_bus, logind>>

Actions == {"poweroff", "reboot", "suspend", "hibernate"}

\* Seeded fault: the pointer left as a failed connection leaves it.
Connection_KeepsError ==
    IF m_bus = "null" THEN IF bus = "up" THEN "live" ELSE "error" ELSE m_bus

\* init(): what m_bus is after it.
Connection == IF m_bus = "null" /\ bus = "up" THEN "live" ELSE m_bus

InitLogind == m_bus' = Connection /\ UNCHANGED <<bus, logind>>

\* Seeded fault: a call that relies on the connection of the start.
CallManager_NoInit(ok) ==
    /\ ok => m_bus = "live"
    /\ logind' = IF ok THEN "done"
                 ELSE IF m_bus = "live" THEN "refused" ELSE "unreached"
    /\ UNCHANGED <<bus, m_bus>>

\* power_off() and the like: whether call_manager_method() succeeds.
CallManager(ok) ==
    /\ m_bus' = Connection
    /\ ok => Connection = "live"
    /\ logind' = IF ok THEN "done"
                 ELSE IF Connection = "live" THEN "refused" ELSE "unreached"
    /\ UNCHANGED bus

BusStarts ==
    /\ bus = "down"
    /\ bus' = "up"
    /\ UNCHANGED <<m_bus, logind>>

BusStops ==
    /\ bus = "up"
    /\ bus' = "down"
    /\ m_bus' = IF m_bus = "live" THEN "dead" ELSE m_bus
    /\ UNCHANGED logind
=============================================================================
