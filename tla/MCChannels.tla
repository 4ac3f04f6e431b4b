----------------------------- MODULE MCChannels -----------------------------
(* The channels by which the server reaches people: the chart gateway        *)
(* (IndicatorGateway), the chats of Telegram (TelegramChats) and the         *)
(* backtest wizard of such a chat (BacktestWizard).  A behaviour moves one   *)
(* part, which Init chooses; the others stay at their beginning, and the     *)
(* bounds of each are its own.  Of the gateway, the runs and the topics are  *)
(* two parts: they read the connections, and nothing of each other.          *)
EXTENDS IndicatorGateway, TelegramChats, BacktestWizard, TLC

CONSTANTS c1, c2, i1, i2, gold, btc, dm, crowd, ann, bob

VARIABLE part

MCClients == {c1, c2}
MCIds == {i1, i2}
MCTopics == {gold, btc}
MCCategoryOf == gold :> "spot" @@ btc :> "linear"
MCChats == {dm, crowd}
MCUsers == {ann, bob}
MCKindOf == dm :> "private" @@ crowd :> "group"
MCTypes == {"trading", "error"}
MCSteps == <<"strat", "symbol", "run">>
MCOffers == [strat |-> {1}, symbol |-> {1, 2}]
MCSymmetry == Permutations(MCClients)

MCInit ==
    /\ part \in {"runs", "topics", "telegram", "wizard"}
    /\ Init /\ WizardInit
    /\ ChatsInit /\ (part # "telegram" => ~Known(dm))

MCNext ==
    \/ part = "runs" /\ Next /\ UNCHANGED <<part, follows, upVars, chatsVars, wizardVars>>
    \/ part = "topics" /\ Next /\ UNCHANGED <<part, runVars, chatsVars, wizardVars>>
    \/ part = "telegram" /\ ChatsNext /\ UNCHANGED <<part, vars, wizardVars>>
    \/ part = "wizard" /\ WizardNext /\ UNCHANGED <<part, vars, chatsVars>>

MCSpec == MCInit /\ [][MCNext]_<<part, vars, chatsVars, wizardVars>>
=============================================================================
