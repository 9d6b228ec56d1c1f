----------------------------- MODULE PaperBotMC -----------------------------
(* Values for TLC.  Two workers, or one and a browser with a person, and one *)
(* fault: the hazards between actors, over one instrument.  One worker, or  *)
(* the browser, alone: the limits of the account, over five instruments of  *)
(* two sectors so priced that each limit is in some scan the only obstacle. *)
EXTENDS PaperBot

Votes(a, b, c, confidence) ==
    [s \in Strategies |-> [signal |-> CASE s = "momentum" -> a [] s = "rsi-reversal" -> b
                                         [] OTHER -> c,
                           confidence |-> confidence]]
MCPrice == [s \in {"NVDA", "AAPL", "MSFT", "META", "SHEL"} |->
    CASE s = "NVDA" -> 110 [] s = "AAPL" -> 90 [] s = "MSFT" -> 61 [] s = "META" -> 120
      [] s = "SHEL" -> 62]
MCSector == [s \in DOMAIN MCPrice |-> IF s = "SHEL" THEN "Energy" ELSE "Technology"]
Buy(confidence)  == Votes("BUY", "BUY", "HOLD", confidence)
Sell(confidence) == Votes("SELL", "SELL", "HOLD", confidence)
Hold == Votes("HOLD", "HOLD", "HOLD", 60)
Only(symbol, votes) == [s \in DOMAIN MCPrice |-> IF s = symbol THEN votes ELSE Hold]

CONSTANTS w1, w2
Shared == {{w1, w2}, {w1, Browser}}
MCDeployment == Shared \union {{w1}, {Browser}}

BetweenActors ==
    {Only("MSFT", Buy(80)), Only("MSFT", Votes("BUY", "BUY", "BUY", 90)),
     Only("MSFT", Votes("SELL", "HOLD", "SELL", 85)), Only("MSFT", Votes("BUY", "SELL", "HOLD", 90))}
OfOneAccount ==
    {Only("NVDA", Buy(90)), Only("META", Buy(80)), Only("AAPL", Buy(80)), Only("AAPL", Buy(90)),
     Only("AAPL", Sell(95)), Only("MSFT", Sell(85)), Only("MSFT", Sell(95)),
     Only("SHEL", Buy(80)), Only("SHEL", Buy(90))}
AfterLosses == {Only("META", Buy(80)), Only("AAPL", Buy(90))}
MCEvidence == [d \in MCDeployment |->
    CASE d \in Shared -> BetweenActors [] d = {w1} -> OfOneAccount [] OTHER -> AfterLosses]

MCMaxTradesIn == [d \in MCDeployment |->
    CASE d = {w1, w2} -> 2 [] d = {w1, Browser} -> 1 [] d = {w1} -> 4 [] OTHER -> 3]
MCMaxFaultsIn == [d \in MCDeployment |-> IF d \in Shared THEN 1 ELSE 0]
MCSignal == {[symbol |-> "MSFT", side |-> "SELL"]}
MCPnl == {200, -6000}
=============================================================================
