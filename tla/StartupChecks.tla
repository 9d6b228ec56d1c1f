--------------------------- MODULE StartupChecks ---------------------------
(* What the startup rules guarantee, over environments and registry documents. *)
EXTENDS CheckState

CONSTANT Upper
ST == INSTANCE Startup

-----------------------------------------------------------------------------
(* Startup: environments around one that starts the Hermes Agent on eToro.  *)

Unset == [s \in DOMAIN ST!Minimum |-> {}]
Blank == [s \in DOMAIN ST!Admissible |-> ""]
Secrets == [c \in {"privateKey", "accountAddress", "apiKey212", "apiSecret212", "etoroApiKey",
                   "etoroUserKey", "botToken", "chatId"} |-> ""]
BaseEnv ==
    [text |-> [Blank EXCEPT !.scheduler = "true", !.broker = "etoro-demo", !.etoroEnv = "demo",
                            !.runtimeMode = "demo"],
     number |-> [Unset EXCEPT !.testAmount = {50}],
     secret |-> [Secrets EXCEPT !.etoroApiKey = "key", !.etoroUserKey = "key"],
     sessionStart |-> {}, sessionEnd |-> {}, symbol |-> "", strategyId |-> "",
     registryPath |-> "path", universe |-> <<>>]

ModeEnvs ==
    {[BaseEnv EXCEPT !.text.broker = b, !.text.runtimeMode = m, !.text.marketData = d,
                     !.text.approval = a, !.text.hyperliquidOn = o,
                     !.secret.privateKey = "key", !.secret.accountAddress = "key"] :
        b \in ST!BrokerProviders \cup {""}, m \in ST!RuntimeModes \cup {"live"}, d \in {"mock", "live"},
        a \in {"AUTO_DEMO", "AUTO_LIVE", ""}, o \in {"true", ""}}
SessionEnvs ==
    {[BaseEnv EXCEPT !.text.hoursPolicy = "weekday-session", !.sessionStart = {s}, !.sessionEnd = {e}] :
        s \in {<<9, 0>>, <<9, 30>>, <<20, 0>>}, e \in {<<9, 0>>, <<9, 30>>, <<10, 15>>, <<24, 0>>}}
NumberEnvs ==
    {[BaseEnv EXCEPT !.number.opposingHold = h, !.number.opposingConfirmations = c] :
        h \in {{}, {0}, {60000}}, c \in {{}, {1}, {2}}}
UniverseEnvs ==
    {[BaseEnv EXCEPT !.universe = u, !.strategyId = i, !.text.demoMode = "true"] :
        u \in {<<"btc", "BTC">>, <<"BTC", "">>, <<"ETH">>}, i \in {"", "DEMO-0001", "STRAT-0001"}}

Document(id, status) ==
    [readable |-> TRUE, valid |-> TRUE, schema |-> "1.0.0", id |-> id, status |-> status,
     decision |-> "ELIGIBLE", markets |-> <<"BTC">>, maxPosition |-> 100,
     entry |-> [type |-> "CROSSES_ABOVE_MA", value |-> 5],
     exits |-> <<[type |-> "STOP_LOSS", value |-> 2]>>]
Documents ==
    LET ids == {"STRAT-0001", "STRAT-0002"}
        one == {Document(i, s) : i \in ids, s \in {"active", "retired"}}
                 \cup {[Document("STRAT-0001", "active") EXCEPT !.decision = "NOT_ELIGIBLE"],
                       [Document("STRAT-0001", "active") EXCEPT !.valid = FALSE],
                       [Document("STRAT-0002", "active") EXCEPT !.exits = <<>>]}
    IN  {<<>>} \cup {<<a>> : a \in one} \cup {<<a, b>> : a \in one, b \in one}

Durable == [serviceRole |-> TRUE, user |-> "uuid"]
StartupInputs ==
    {[env |-> e, documents |-> d, supabase |-> Durable, connects |-> TRUE, resolvable |-> {"BTC"}] :
        e \in ModeEnvs \cup SessionEnvs \cup NumberEnvs, d \in {<<>>}}
      \cup {[env |-> e, documents |-> d, supabase |-> Durable, connects |-> TRUE, resolvable |-> {"BTC"}] :
               e \in UniverseEnvs, d \in Documents}
      \cup {[env |-> BaseEnv, documents |-> <<>>, supabase |-> [serviceRole |-> r, user |-> u],
             connects |-> c, resolvable |-> x] :
               r \in BOOLEAN, u \in {"", "uuid", "malformed"}, c \in BOOLEAN, x \in {{}, {"BTC"}}}

StartupOutput(i) == ST!Main(i.env, i.documents, i.supabase, i.connects, i.resolvable)
Configured(i) == ST!Config(i.env)

AskStartup == Ask("startup", StartupInputs, StartupOutput)

-----------------------------------------------------------------------------
\* Whatever the environment says, a runtime that gets built trades in a mode its own broker
\* declares, no mode is live, AUTO_LIVE never takes effect, and live rates come only from a broker
\* that has them (config.ts, compatibility.ts, startup-validation.ts).
StartsOnlyDemoTrading ==
    topic = "startup" /\ output = "built" =>
        LET c == Configured(input) IN
        /\ c.runtimeMode \in ST!Capabilities[c.broker].modes \cap {"demo", "paper", "testnet"}
        /\ c.approval \in {"MANUAL", "AUTO_DEMO"}
        /\ c.broker # "trading212-demo"
        /\ c.marketData = "live" => ST!Capabilities[c.broker].liveRates

\* What the static checks let through no later factory refuses: "never discovered on the first
\* trading cycle" (compatibility.ts 4-7).  The session order is checked on texts by config.ts and
\* on minutes by the policy.
NoLateStartupFailure ==
    topic = "startup" => output \notin {"marketDataProvider", "marketHours", "universe"}

\* No environment brings back the immediate exit on one opposing signal (config.ts 488-493).
OpposingExitNeverImmediate ==
    topic = "startup" /\ output = "built" =>
        Configured(input).opposingHold >= 60000 /\ Configured(input).opposingConfirmations >= 2

\* A registry strategy that is loaded is the first valid document of its id, active and one this
\* engine can execute, and no id is loaded twice, whatever retired or rejected documents lie around it.
LoadedAreFirstOfTheirId ==
    topic = "startup" =>
        LET docs   == input.documents
            loaded == ST!LoadEnabledStrategies(docs, FALSE)
            Valid(i) == docs[i].readable /\ docs[i].valid /\ docs[i].schema = "1.0.0"
            First(i) == \A j \in 1 .. (i - 1) : ~(Valid(j) /\ docs[j].id = docs[i].id)
        IN  /\ \A i, j \in DOMAIN loaded : loaded[i].id = loaded[j].id => i = j
            /\ {s.id : s \in ToSet(loaded)} =
                   {ST!HermesAgent} \cup {docs[i].id : i \in {k \in DOMAIN docs :
                        Valid(k) /\ First(k) /\ docs[k].status = "active" /\ ST!IsExecutable(docs[k])}}

\* Whatever the environment and the directory of definitions say, what starts is safe:
\* the conjunction of the four above.
StartupIsSafe ==
    /\ StartsOnlyDemoTrading
    /\ NoLateStartupFailure
    /\ OpposingExitNeverImmediate
    /\ LoadedAreFirstOfTheirId
=============================================================================
