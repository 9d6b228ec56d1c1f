---------------------------- MODULE AlertTrailMC ----------------------------
(* Values for TLC. *)
EXTENDS AlertTrail

Event(type, about) == [type |-> type, about |-> about]
MCFeed ==
    [cycle |-> <<Event("MARKET_DATA_INCIDENT_OPENED", "BTC"), Event("MARKET_DATA_INCIDENT_RECOVERED", "BTC"),
                 Event("MARKET_DATA_INCIDENT_OPENED", "BTC"), Event("MARKET_DATA_INCIDENT_RECOVERED", "BTC")>>,
     loop  |-> <<Event("TELEGRAM_COMMAND", "status")>>]
=============================================================================
