------------------------------ MODULE PartsMC ------------------------------
(* Values for TLC. *)
EXTENDS Parts

MCUpper == [btc |-> "BTC", BTC |-> "BTC", ETH |-> "ETH", SOL |-> "SOL", AAPL |-> "AAPL",
            MSFT |-> "MSFT", NVDA |-> "NVDA"]

\* Two strategies on one instrument; the second may be loaded as a demo strategy only.
Strategies(limit) ==
    {[id |-> "A", enabled |-> TRUE, source |-> "HERMES_APPROVED", instrument |-> "BTC",
      maxPositionValue |-> 60, period |-> 2,
      exits |-> {[type |-> "TAKE_PROFIT", value |-> 20], [type |-> "STOP_LOSS", value |-> 20]}],
     [id |-> "B", enabled |-> TRUE, source |-> "DEMO_ONLY", instrument |-> "BTC",
      maxPositionValue |-> limit, period |-> 2, exits |-> {[type |-> "CROSSES_BELOW_MA", value |-> 2]}]}
MCStrategy == Strategies(50)
MCRisk == [sizing |-> "UNITS", demoMode |-> TRUE, maxOpenPositions |-> 2]
MCFixtures ==
    {[i \in 1 .. 5 |-> [at |-> IF i = 5 THEN t ELSE i, close |-> c[i]]] :
        t \in {4, 5}, c \in [1 .. 5 -> {8, 13}] \cup {<<10, 10, 13, 8, 10>>, <<10, 8, 10, 13, 8>>, <<13, 10, 8, 10, 13>>}}

Event(type, about) == [type |-> type, about |-> about]
MCFeed ==
    [cycle |-> <<Event("MARKET_DATA_INCIDENT_OPENED", "BTC"), Event("TRADE_OPENED", 1), Event("TRADE_CLOSED", 1)>>,
     loop  |-> <<Event("TELEGRAM_COMMAND", "status")>>]

MCUniverse == <<"AAPL", "BTC", "ETH">>
Proposal(i, a, c) ==
    [instrument |-> i, action |-> a, confidence |-> c, reasoning |-> <<9>>, stopLoss |-> {}, takeProfit |-> {}]
MCAnswers ==
    {[outcome |-> "timeout", proposals |-> <<>>], [outcome |-> "malformed", proposals |-> <<>>]}
    \cup {[outcome |-> "proposals", proposals |-> p] : p \in {<<>>,
     <<Proposal("BTC", "BUY", 80), Proposal("ETH", "BUY", 80), Proposal("AAPL", "SELL", 90)>>,
     <<Proposal("AAPL", "BUY", 60), Proposal("BTC", "SELL", 70), Proposal("ETH", "HOLD", 99)>>,
     <<Proposal("BTC", "BUY", 80), Proposal("ETH", "BUY", 70)>>,
     <<Proposal("ETH", "SELL", 70), Proposal("AAPL", "BUY", 70), Proposal("ETH", "BUY", 60)>>,
     <<Proposal("BTC", "BUY", 80), [Proposal("AAPL", "BUY", 70) EXCEPT !.stopLoss = {30}]>>}}

MCRequired == <<1, 2>>
MCRoles == <<"in", "out">>
MCMonthsOf == [in |-> {1}, out |-> {2}]
MCSound == {<<1, 1>>, <<1, 2>>, <<2, 2>>}

Raw(exchange, name, etf, test) == [exchange |-> exchange, name |-> name, etf |-> etf, test |-> test]
MCListings ==
    LET nasdaq == Raw("NASDAQ", "plain", FALSE, FALSE)
        nyse   == Raw("NYSE", "plain", FALSE, FALSE)
    IN  {[nasdaq |-> [a |-> nasdaq], other |-> [b |-> nyse]],
         [nasdaq |-> [a |-> [nasdaq EXCEPT !.name = "warrant"]], other |-> [a |-> nyse]],
         [nasdaq |-> [b |-> [nasdaq EXCEPT !.etf = TRUE]], other |-> [a |-> Raw("BATS", "plain", FALSE, FALSE)]],
         [nasdaq |-> [a |-> [nasdaq EXCEPT !.test = TRUE]], other |-> [b |-> nyse]]}
=============================================================================
