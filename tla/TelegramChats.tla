---------------------------- MODULE TelegramChats ----------------------------
(* Who is told what, and who may stop the bot, by Telegram: the chats, their *)
(* subscriptions and the operators (store/TelegramConfigStore.ts), changed   *)
(* by the buttons (telegram/TelegramBotFeature.ts) and by the control panel  *)
(* (routes/settings.ts); and the transport that is restarted under them      *)
(* (telegram/TelegramService.ts).  Every change reads the file and writes it *)
(* without a pause, so a handler is one action; languages are left out.      *)
EXTENDS Naturals, Sequences

CONSTANTS
    Chats, Users,
    KindOf,         \* ctx.chat.type: "private", "group" or "supergroup"
    Types,          \* NOTIFICATION_TYPES
    Admin,          \* the user the owner of the server named
    MaxBots         \* bound of the transports that are ever made

VARIABLES
    chats,          \* what the file says of a chat: [type, linked, subs]; "subs"
                    \* is a function on the members who ever chose
    controllers, requests,      \* those of the file
    wants,          \* history: what a member was last shown to receive
    granted,        \* history: who was approved, and not revoked since
    bots,           \* the phase of every Telegraf instance that was made
    bot, isRunning, \* the fields of TelegramService, 0 for no bot
    outlived        \* history: a bot was stopped before it was launched

fileVars == <<chats, controllers, requests, wants, granted>>
botVars == <<bots, bot, isRunning, outlived>>
chatsVars == <<fileVars, botVars>>

\* Only "group" counts as a group; any other chat has one member, itself.
IsGroup(chat) == KindOf[chat] = "group"
MemberOf(user, chat) == IF IsGroup(chat) THEN user ELSE chat
Members == Users \union Chats

Nobody == [m \in {} |-> {}]
NewChat(type) == [type |-> type, linked |-> type = "private", subs |-> Nobody]
NoChat == [type |-> "none", linked |-> FALSE, subs |-> Nobody]

\* memberSubscriptions, once the member's are "types".
Chosen(subs, member, types) ==
    [m \in DOMAIN subs \union {member} |-> IF m = member THEN types ELSE subs[m]]

Put(file, chat, member, types) ==
    [file EXCEPT ![chat].subs = Chosen(@, member, types)]

Known(chat) == chats[chat].type # "none"

\* migrateLegacyFile() has made the chats of the subscribers there were.
ChatsInit ==
    /\ \E legacy \in SUBSET {c \in Chats : KindOf[c] = "private"} :
          /\ chats = [c \in Chats |->
                IF c \in legacy
                THEN [type |-> "private", linked |-> TRUE, subs |-> Chosen(Nobody, c, Types)]
                ELSE NoChat]
          /\ wants = [c \in Chats |-> [m \in Members |-> IF c \in legacy THEN Types ELSE {}]]
    /\ controllers = {} /\ requests = {} /\ granted = {}
    /\ bots = <<>> /\ bot = 0 /\ isRunning = FALSE /\ outlived = FALSE

-----------------------------------------------------------------------------

AddChat(file, chat) ==
    IF file[chat].type # "none" THEN file
    ELSE [file EXCEPT ![chat] = NewChat(IF IsGroup(chat) THEN "group" ELSE "private")]

\* getMemberSubscription(): who never chose gets all in a private chat, and
\* nothing in a group.  Having chosen nothing is a choice.
Subscription(file, chat, member) ==
    IF file[chat].type = "none" THEN {}
    ELSE IF member \in DOMAIN file[chat].subs THEN file[chat].subs[member]
    ELSE IF file[chat].type = "private" THEN Types ELSE {}

\* Mutant of MemberSubscribe: it starts from what is stored, not from what is on.
MutantMemberSubscribe(file, chat, member, types) ==
    LET stored == IF member \in DOMAIN file[chat].subs THEN file[chat].subs[member] ELSE {}
    IN  Put(file, chat, member, stored \union types)

MemberSubscribe(file, chat, member, types) ==
    Put(file, chat, member, Subscription(file, chat, member) \union types)

\* Mutant of MemberUnsubscribe: an entry without any type is deleted.
MutantMemberUnsubscribe(file, chat, member, types) ==
    LET remaining == Subscription(file, chat, member) \ types
    IN  IF remaining = {}
        THEN [file EXCEPT ![chat].subs = [m \in DOMAIN @ \ {member} |-> @[m]]]
        ELSE Put(file, chat, member, remaining)

MemberUnsubscribe(file, chat, member, types) ==
    Put(file, chat, member, Subscription(file, chat, member) \ types)

\* The buttons of a type in the three menus.
Toggled(file, chat, member, type) ==
    IF type \in Subscription(file, chat, member)
    THEN MemberUnsubscribe(file, chat, member, {type})
    ELSE MemberSubscribe(file, chat, member, {type})

\* setMemberSubscriptions() of the panel: what is new, then what is gone.
SetTo(file, chat, member, types) ==
    LET before == Subscription(file, chat, member)
        added == IF types \subseteq before THEN file
                 ELSE MemberSubscribe(file, chat, member, types \ before)
    IN  IF before \subseteq types THEN added
        ELSE MemberUnsubscribe(added, chat, member, before \ types)

\* What the members of a chat are shown once the chat is known.
Greeted(chat) ==
    IF Known(chat) \/ IsGroup(chat) THEN wants
    ELSE [wants EXCEPT ![chat] = [m \in Members |-> Types]]

-----------------------------------------------------------------------------

\* /start: the chat is known, and a group is linked by whoever starts it.
StartCommand(user, chat) ==
    /\ chats' = [AddChat(chats, chat) EXCEPT ![chat].linked = IsGroup(chat) \/ @]
    /\ wants' = Greeted(chat)
    /\ UNCHANGED <<controllers, requests, granted, botVars>>

\* sub:, unsub: and notif: with a type.
Toggle(user, chat, type) ==
    LET member == MemberOf(user, chat)
    IN  /\ chats' = Toggled(AddChat(chats, chat), chat, member, type)
        /\ wants' = [Greeted(chat) EXCEPT
              ![chat][member] = IF type \in @ THEN @ \ {type} ELSE @ \union {type}]
        /\ UNCHANGED <<controllers, requests, granted, botVars>>

\* notif:all and notif:none.
ToggleAll(user, chat, on) ==
    LET member == MemberOf(user, chat)
        file == AddChat(chats, chat)
    IN  /\ chats' = IF on THEN MemberSubscribe(file, chat, member, Types)
                          ELSE MemberUnsubscribe(file, chat, member, Types)
        /\ wants' = [Greeted(chat) EXCEPT ![chat][member] = IF on THEN Types ELSE {}]
        /\ UNCHANGED <<controllers, requests, granted, botVars>>

\* The panel lists the chats and the members it sets.
SetMemberSubscriptions(user, chat, types) ==
    LET member == MemberOf(user, chat)
    IN  /\ Known(chat)
        /\ chats' = SetTo(chats, chat, member, types)
        /\ wants' = [wants EXCEPT ![chat][member] = types]
        /\ UNCHANGED <<controllers, requests, granted, botVars>>

LinkChat(chat, linked) ==
    /\ Known(chat) /\ (linked => chats[chat].type = "group")
    /\ chats' = [chats EXCEPT ![chat].linked = linked]
    /\ UNCHANGED <<controllers, requests, wants, granted, botVars>>

\* request:go, for who is no operator and has not asked.
Request(user) ==
    /\ user # Admin /\ user \notin controllers \union requests
    /\ requests' = requests \union {user}
    /\ UNCHANGED <<chats, controllers, wants, granted, botVars>>

\* The request goes first, then the controller comes.
Approve(user) ==
    /\ user \in requests
    /\ requests' = requests \ {user}
    /\ controllers' = controllers \union {user}
    /\ granted' = granted \union {user}
    /\ UNCHANGED <<chats, wants, botVars>>

\* Between the two writes the file is locked, or the process ends.  To deny a
\* request does the same.
Deny(user) ==
    /\ user \in requests
    /\ requests' = requests \ {user}
    /\ UNCHANGED <<chats, controllers, wants, granted, botVars>>

RemoveController(user) ==
    /\ user \in controllers
    /\ controllers' = controllers \ {user}
    /\ granted' = granted \ {user}
    /\ UNCHANGED <<chats, requests, wants, botVars>>

-----------------------------------------------------------------------------

\* Whom deliver() sends a notification to.
Recipients(type) ==
    {c \in Chats :
        \/ chats[c].type = "private" /\ type \in Subscription(chats, c, c)
        \/ /\ chats[c].type = "group" /\ chats[c].linked
           /\ \E m \in DOMAIN chats[c].subs : type \in Subscription(chats, c, m)}

-----------------------------------------------------------------------------

\* To stop a bot that is still being launched does not keep it from polling later.
Stopped ==
    IF bot = 0 THEN bots
    ELSE [bots EXCEPT ![bot] = IF @ = "launching" THEN "outlives" ELSE "ended"]

\* Mutant of RestartService: the bot there is is not stopped before the next.
MutantRestartService(hasToken) ==
    /\ hasToken /\ Len(bots) < MaxBots
    /\ bots' = Append(bots, "launching")
    /\ bot' = Len(bots) + 1 /\ isRunning' = TRUE
    /\ UNCHANGED <<fileVars, outlived>>

\* A new proxy, and the start of the server: stop(), then start() with the
\* handlers attached, which does nothing if the file has no token by now.
RestartService(hasToken) ==
    LET stops == isRunning /\ bot # 0
        left == IF stops THEN Stopped ELSE bots
    IN  /\ outlived' = (outlived \/ (stops /\ bots[bot] = "launching"))
        /\ IF hasToken
           THEN /\ Len(bots) < MaxBots
                /\ bots' = Append(left, "launching")
                /\ bot' = Len(bots) + 1 /\ isRunning' = TRUE
           ELSE /\ bots' = left
                /\ bot' = 0 /\ isRunning' = FALSE
        /\ UNCHANGED fileVars

\* launch() polls from here on, and returns when it ends.
Launched(b) ==
    /\ bots[b] \in {"launching", "outlives"}
    /\ bots' = [bots EXCEPT ![b] = "polling"]
    /\ UNCHANGED <<fileVars, bot, isRunning, outlived>>

\* launch() rejects: the service has no bot, whichever it had.
LaunchFails(b) ==
    /\ bots[b] \in {"launching", "outlives", "polling"}
    /\ bots' = [bots EXCEPT ![b] = "ended"]
    /\ bot' = 0 /\ isRunning' = FALSE
    /\ UNCHANGED <<fileVars, outlived>>

ChatsNext ==
    \/ \E user \in Users, chat \in Chats :
          \/ StartCommand(user, chat)
          \/ \E type \in Types : Toggle(user, chat, type)
          \/ \E on \in BOOLEAN : ToggleAll(user, chat, on)
          \/ \E types \in SUBSET Types : SetMemberSubscriptions(user, chat, types)
    \/ \E chat \in Chats, linked \in BOOLEAN : LinkChat(chat, linked)
    \/ \E user \in Users : Request(user) \/ Approve(user) \/ Deny(user) \/ RemoveController(user)
    \/ \E hasToken \in BOOLEAN : RestartService(hasToken)
    \/ \E b \in DOMAIN bots : Launched(b) \/ LaunchFails(b)

ChatsSpec == ChatsInit /\ [][ChatsNext]_chatsVars

-----------------------------------------------------------------------------

Subscriptions == UNION {[known -> SUBSET Types] : known \in SUBSET Members}
Files == [Chats -> [type : {"none", "private", "group"}, linked : BOOLEAN, subs : Subscriptions]]
Phases == {"launching", "outlives", "polling", "ended"}

ChatsTypeOK ==
    /\ chats \in Files
    /\ wants \in [Chats -> [Members -> SUBSET Types]]
    /\ controllers \subseteq Users /\ requests \subseteq Users
    /\ bots \in Seq(Phases) /\ bot \in 0..Len(bots)
    /\ isRunning \in BOOLEAN /\ outlived \in BOOLEAN

\* A notification goes to exactly the chats of which somebody was last shown to
\* receive it, groups only if they are linked: a default that is on stays on
\* when another type is switched off, and what was switched off does not come
\* back as a default (memberSubscribe(), memberUnsubscribe() and the fallback of
\* getMemberSubscription()).
AudienceIsRight ==
    \A type \in Types : Recipients(type) =
        {c \in Chats : /\ Known(c) /\ (IsGroup(c) => chats[c].linked)
                       /\ \E m \in Members : type \in wants[c][m]
                                              /\ (IsGroup(c) \/ m = c)}

\* The bot obeys whom the owner approved and did not revoke, and none of them
\* has a request open (the order of the writes in the approval).
OperatorsAreGranted == controllers = granted /\ controllers \intersect requests = {}

\* One bot polls, and it is the one the service sends with, unless a bot was
\* stopped before it was launched (stop() and launch() in TelegramService).
OneBotPolls ==
    ~outlived => /\ \A b \in DOMAIN bots : bots[b] \in {"launching", "polling"} => b = bot
                 /\ isRunning = (bot # 0)

TelegramIsSound == ChatsTypeOK /\ AudienceIsRight /\ OperatorsAreGranted /\ OneBotPolls
=============================================================================
