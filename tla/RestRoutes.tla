------------------------------ MODULE RestRoutes ------------------------------
(***************************************************************************)
(* What the REST functions of a Session ask for, and which rate-limit      *)
(* bucket each request waits for. restRateLimitKeys makes a route key from *)
(* the bucket ID that the function names and a major key from the URL; the *)
(* limiter (RateLimiter) keeps a bucket for each pair and finds it again   *)
(* under Discord's hash once an answer has named one.                      *)
(*                                                                         *)
(* A path is the sequence of its segments, without host, API version and   *)
(* query (rateLimitPath drops the query). Only the requests a function     *)
(* makes are here: a function that validates its arguments, tries the      *)
(* state first or calls others makes these or none, and those that only    *)
(* return an error have no row. Bodies and answers are left out.           *)
(***************************************************************************)
EXTENDS Naturals, Sequences, FiniteSets, SequencesExt

CONSTANTS
    Guilds, Channels, Webhooks, Tokens,
    Ids,                \* other snowflakes: users, messages, roles, ...
    Names,              \* codes, emoji names and other ids that are no numbers
    Arguments,          \* the arguments functions are called with
    MaxCalls            \* bound on the calls

ASSUME RoutesAssumption ==
    /\ \A S, T \in {Guilds, Channels, Webhooks, Tokens, Ids, Names} : S # T => S \cap T = {}
    /\ Arguments \subseteq [guild : Guilds, channel : Channels, webhook : Webhooks,
                            token : Tokens, id : Ids, name : Names]
    /\ MaxCalls \in Nat \ {0}

Snowflakes == Guilds \cup Channels \cup Webhooks \cup Ids

VARIABLES
    made,               \* the requests made
    known               \* bucketHashes: of each pair of keys, Discord's bucket

vars == <<made, known>>

-----------------------------------------------------------------------------
(* The keys.                                                               *)

(* strings.Trim(path, "/")                                                 *)
Trimmed(path) ==
    SubSeq(path, 1, Cardinality({i \in 1 .. Len(path) : \E j \in i .. Len(path) : path[j] # ""}))

(* A segment i after one of the named ones.                                *)
After(path, i, distance, names) ==
    i > distance /\ path[i] # "" /\ path[i - distance] \in names

(* Mutant: only the ids that follow an owner are replaced.                 *)
normalizeRateLimitPathMutant(path) ==
    LET p == Trimmed(path) IN
    [i \in 1 .. Len(p) |->
        IF After(p, i, 2, {"webhooks", "interactions"}) THEN ":token"
        ELSE IF After(p, i, 1, {"webhooks", "interactions"}) THEN ":id" ELSE p[i]]
normalizeRateLimitPath(path) ==
    LET p == Trimmed(path)
        owners == {"webhooks", "interactions"}
    IN  [i \in 1 .. Len(p) |->
            IF After(p, i, 2, owners) THEN ":token"
            ELSE IF After(p, i, 1, owners) \/ p[i] \in Snowflakes THEN ":id"
            ELSE p[i]]

(* Mutant: the token of a webhook is left out.                             *)
hashRateLimitMajorParametersMutant(path) ==
    {<<path[i - 1], path[i]>> :
        i \in {j \in 2 .. Len(path) : After(path, j, 1, {"channels", "guilds", "webhooks"})}}
(* The hash of the parameters is the set of them.                          *)
hashRateLimitMajorParameters(path) ==
    LET p == Trimmed(path)
        owners == {"webhooks", "interactions"}
    IN  {<<p[i - 1], p[i]>> :
            i \in {j \in 2 .. Len(p) : After(p, j, 1, {"channels", "guilds"} \cup owners)}}
        \cup {<<p[i - 2], "token", p[i]>> :
                 i \in {j \in 3 .. Len(p) : After(p, j, 2, owners)}}

restRateLimitKeys(r) ==
    <<r.method, normalizeRateLimitPath(r.bucket), hashRateLimitMajorParameters(r.path)>>

-----------------------------------------------------------------------------
(* The requests, by method, path and bucket ID.                            *)
Named(methods, path, bucket) ==
    {[method |-> m, path |-> path, bucket |-> bucket] : m \in methods}
Own(methods, path) == Named(methods, path, path)

Guild(a) == <<"guilds", a.guild>>
Channel(a) == <<"channels", a.channel>>
Message(a) == Channel(a) \o <<"messages", a.id>>
Application(a) == <<"applications", a.id>>
WebhookToken(a) == <<"webhooks", a.webhook, a.token>>
NoToken == <<"webhooks", "", "">>
Lobby(a) == <<"lobbies", a.id>>

(* Users.                                                                  *)
UserRoutes(a) ==
    UNION {Named({"GET"}, <<"users", u>>, <<"users", "">>) : u \in {"@me", a.id}}
    \cup Named({"PATCH"}, <<"users", "@me">>, <<"users", "">>)
    \cup Named({"GET"}, <<"avatars", a.id, a.name>>, <<"avatars", "", ".png">>)
    \cup Own({"GET"}, <<"users", "@me", "connections">>)
    \cup Named({"POST"}, <<"users", "@me", "channels">>, <<"users", "", "channels">>)
    \cup Own({"POST"}, <<"users", "@me", "channels">>)

UserGuildRoutes(a) ==
    Own({"GET"}, <<"users", "@me", "guilds", a.guild, "member">>)
    \cup Named({"GET"}, <<"users", "@me", "guilds">>, <<"users", "", "guilds">>)

(* Guilds.                                                                 *)
SearchRoutes(a) == Own({"GET"}, Guild(a) \o <<"messages", "search">>)

GuildRoutes(a) ==
    Own({"GET", "PATCH", "DELETE"}, Guild(a))
    \cup Own({"GET"}, Guild(a) \o <<"preview">>)
    \cup Named({"DELETE"}, <<"users", "@me", "guilds", a.guild>>,
               <<"users", "", "guilds", a.guild>>)

BanRoutes(a) ==
    LET bans == Guild(a) \o <<"bans">> IN
    Own({"GET"}, bans) \cup Own({"GET"}, bans \o <<a.id>>)
    \cup Named({"PUT", "DELETE"}, bans \o <<a.id>>, bans \o <<"">>)
    \cup Own({"POST"}, Guild(a) \o <<"bulk-ban">>)

MemberRoutes(a) ==
    LET members == Guild(a) \o <<"members">> IN
    Own({"GET"}, members) \cup Own({"GET"}, members \o <<"search">>)
    \cup Named({"GET", "PUT", "DELETE", "PATCH"}, members \o <<a.id>>, members \o <<"">>)

MemberRoleRoutes(a) ==
    Named({"PATCH"}, Guild(a) \o <<"members", a.id>>, Guild(a) \o <<"members", "">>)
    \cup Named({"PUT", "DELETE"}, Guild(a) \o <<"members", a.id, "roles", a.id>>,
               Guild(a) \o <<"members", "", "roles", "">>)

GuildChannelRoutes(a) ==
    Own({"GET", "POST", "PATCH"}, Guild(a) \o <<"channels">>)
    \cup Own({"GET"}, Guild(a) \o <<"invites">>)

RoleRoutes(a) ==
    LET roles == Guild(a) \o <<"roles">> IN
    Own({"GET", "POST", "PATCH"}, roles) \cup Own({"GET"}, roles \o <<"member-counts">>)
    \cup Named({"GET", "PATCH", "DELETE"}, roles \o <<a.id>>, roles \o <<"">>)

PruneRoutes(a) ==
    LET integrations == Guild(a) \o <<"integrations">> IN
    Own({"GET", "POST"}, Guild(a) \o <<"prune">>) \cup Own({"GET"}, integrations)
    \cup Named({"DELETE"}, integrations \o <<a.id>>, integrations \o <<"">>)

(* An image follows a request for its guild.                               *)
GuildImageRoutes(a) ==
    Own({"GET"}, Guild(a))
    \cup UNION {Named({"GET"}, <<kind, a.guild, a.name>>, <<kind, a.guild, ".png">>)
                    : kind \in {"icons", "splashes"}}

GuildPageRoutes(a) ==
    Own({"GET", "PATCH"}, Guild(a) \o <<"widget">>)
    \cup UNION {Own({"GET"}, Guild(a) \o <<page>>) : page \in {"widget.json", "vanity-url"}}
    \cup Own({"GET", "PATCH"}, Guild(a) \o <<"welcome-screen">>)
    \cup Own({"PUT"}, Guild(a) \o <<"incident-actions">>)

AuditLogRoutes(a) == Own({"GET"}, Guild(a) \o <<"audit-logs">>)

EmojiRoutes(a) ==
    LET emojis == Guild(a) \o <<"emojis">> IN
    Own({"GET", "POST"}, emojis) \cup Own({"GET"}, emojis \o <<a.id>>)
    \cup Named({"PATCH", "DELETE"}, emojis \o <<a.id>>, emojis)

StickerRoutes(a) ==
    LET stickers == Guild(a) \o <<"stickers">> IN
    Own({"GET"}, <<"stickers", a.id>>) \cup Own({"GET"}, <<"sticker-packs">>)
    \cup Named({"GET"}, <<"sticker-packs", a.id>>, <<"sticker-packs", "">>)
    \cup Own({"GET", "POST"}, stickers) \cup Own({"GET"}, stickers \o <<a.id>>)
    \cup Named({"PATCH", "DELETE"}, stickers \o <<a.id>>, stickers)

ApplicationEmojiRoutes(a) ==
    LET emojis == Application(a) \o <<"emojis">>
        instances == Application(a) \o <<"activity-instances">>
    IN  Own({"GET", "POST"}, emojis) \cup Own({"GET"}, emojis \o <<a.id>>)
        \cup Named({"PATCH", "DELETE"}, emojis \o <<a.id>>, emojis)
        \cup Named({"GET"}, instances \o <<a.name>>, instances \o <<"">>)

TemplateRoutes(a) ==
    LET templates == Guild(a) \o <<"templates">> IN
    Own({"GET"}, <<"guilds", "templates", a.name>>) \cup Own({"GET", "POST"}, templates)
    \cup Named({"PUT", "PATCH", "DELETE"}, templates \o <<a.name>>, templates \o <<"">>)

(* Channels and messages.                                                  *)
ChannelRoutes(a) ==
    Own({"GET", "PATCH", "DELETE"}, Channel(a)) \cup Own({"POST"}, Channel(a) \o <<"typing">>)
    \cup Own({"PUT"}, Channel(a) \o <<"voice-status">>)

MessageReadRoutes(a) ==
    Own({"GET"}, Channel(a) \o <<"messages">>)
    \cup Named({"GET"}, Message(a), Channel(a) \o <<"messages", "">>)

MessageSendRoutes(a) == Own({"POST"}, Channel(a) \o <<"messages">>)

MessageEditRoutes(a) ==
    Named({"PATCH", "DELETE"}, Message(a), Channel(a) \o <<"messages", "">>)
    \cup Own({"POST"}, Channel(a) \o <<"messages", "bulk-delete">>)

PinRoutes(a) ==
    LET pins == Channel(a) \o <<"messages", "pins">> IN
    Named({"PUT", "DELETE"}, pins \o <<a.id>>, pins)
    \cup Own({"GET"}, pins) \cup Own({"GET"}, Channel(a) \o <<"pins">>)

ChannelInviteRoutes(a) ==
    Own({"GET", "POST"}, Channel(a) \o <<"invites">>)
    \cup Named({"PUT", "DELETE"}, Channel(a) \o <<"recipients", a.id>>,
               Channel(a) \o <<"recipients", "">>)

ChannelPermissionRoutes(a) ==
    Named({"PUT", "DELETE"}, Channel(a) \o <<"permissions", a.id>>,
          Channel(a) \o <<"permissions", "">>)
    \cup Own({"POST"}, Message(a) \o <<"crosspost">>)
    \cup Own({"POST"}, Channel(a) \o <<"followers">>)

InviteRoutes(a) ==
    Named({"GET", "DELETE"}, <<"invites", a.name>>, <<"invites", "">>)
    \cup Named({"GET", "PUT"}, <<"invites", a.name, "target-users">>,
               <<"invites", "", "target-users">>)
    \cup Named({"GET"}, <<"invites", a.name, "target-users", "job-status">>,
               <<"invites", "", "target-users", "job-status">>)

VoiceRoutes(a) ==
    LET states == Guild(a) \o <<"voice-states">> IN
    UNION {Named({"GET", "PATCH"}, states \o <<u>>, states \o <<"">>) : u \in {"@me", a.id}}
    \cup Own({"GET"}, Guild(a) \o <<"regions">>) \cup Own({"GET"}, <<"voice", "regions">>)

GatewayRoutes == Own({"GET"}, <<"gateway">>) \cup Own({"GET"}, <<"gateway", "bot">>)

(* Webhooks, reactions and threads.                                        *)
WebhookRoutes(a) ==
    Own({"GET", "POST"}, Channel(a) \o <<"webhooks">>)
    \cup Own({"GET"}, Guild(a) \o <<"webhooks">>)
    \cup Named({"GET", "PATCH", "DELETE"}, <<"webhooks", a.webhook>>, <<"webhooks", "">>)
    \cup Named({"GET", "PATCH", "DELETE"}, WebhookToken(a), NoToken)

(* An edit with files names its own path, one without does not.            *)
WebhookMessageRoutes(a) ==
    LET Of(m) == WebhookToken(a) \o <<"messages", m>> IN
    Own({"POST"}, WebhookToken(a))
    \cup UNION {Named({"GET", "PATCH", "DELETE"}, Of(m), NoToken) \cup Own({"PATCH"}, Of(m))
                    : m \in {a.id, "@original"}}

ReactionRoutes(a) ==
    LET reactions == Message(a) \o <<"reactions">>
        shared == Channel(a) \o <<"messages", "", "reactions", "", "">>
    IN  Named({"PUT", "DELETE"}, reactions \o <<a.name, "@me">>, shared)
        \cup Named({"DELETE"}, reactions \o <<a.name, a.id>>, shared)
        \cup Named({"GET"}, reactions \o <<a.name>>, shared)
        \cup Own({"DELETE"}, reactions) \cup Own({"DELETE"}, reactions \o <<a.name>>)

ThreadStartRoutes(a) ==
    Own({"POST"}, Message(a) \o <<"threads">>) \cup Own({"POST"}, Channel(a) \o <<"threads">>)

ThreadMemberRoutes(a) ==
    LET members == Channel(a) \o <<"thread-members">> IN
    UNION {Own({"PUT", "DELETE"}, members \o <<u>>) : u \in {"@me", a.id}}
    \cup Own({"GET"}, members \o <<a.id>>) \cup Own({"GET"}, members)

ThreadListRoutes(a) ==
    Own({"GET"}, Guild(a) \o <<"threads", "active">>)
    \cup UNION {Own({"GET"}, Channel(a) \o list \o <<"threads", "archived", "private">>)
                    : list \in {<< >>, <<"users", "@me">>}}
    \cup Own({"GET"}, Channel(a) \o <<"threads", "archived", "public">>)

(* Application commands and interactions.                                  *)
Commands(a) ==
    {Application(a) \o <<"commands">>, Application(a) \o <<"guilds", a.guild, "commands">>}

CommandRoutes(a) ==
    UNION {Own({"POST", "PUT"}, commands) \cup Named({"GET"}, commands, <<"GET ">> \o commands)
           \cup Own({"PATCH", "DELETE", "GET"}, commands \o <<a.id>>) : commands \in Commands(a)}

CommandPermissionRoutes(a) ==
    LET commands == Application(a) \o <<"guilds", a.guild, "commands">> IN
    Own({"GET"}, commands \o <<"permissions">>)
    \cup Own({"GET", "PUT"}, commands \o <<a.id, "permissions">>)

(* Answers after the first are messages of the application's webhook.      *)
InteractionRoutes(a) ==
    Own({"POST"}, <<"interactions", a.id, a.token, "callback">>)
    \cup Own({"DELETE"}, WebhookToken(a) \o <<"messages", "@original">>)

(* Stages, events, moderation, roles of applications, polls, shops.        *)
StageRoutes(a) ==
    Own({"POST"}, <<"stage-instances">>)
    \cup Own({"GET", "PATCH", "DELETE"}, <<"stage-instances", a.channel>>)

ScheduledEventRoutes(a) ==
    LET events == Guild(a) \o <<"scheduled-events">> IN
    Own({"GET", "POST"}, events) \cup Own({"GET", "PATCH", "DELETE"}, events \o <<a.id>>)
    \cup Own({"GET"}, events \o <<a.id, "users">>)

ModerationRoutes(a) ==
    LET rules == Guild(a) \o <<"auto-moderation", "rules">> IN
    Own({"GET", "PUT"}, Guild(a) \o <<"onboarding">>)
    \cup Own({"GET", "POST"}, rules) \cup Own({"GET", "PATCH", "DELETE"}, rules \o <<a.id>>)

RoleConnectionRoutes(a) ==
    Own({"GET", "PUT"}, Application(a) \o <<"role-connections", "metadata">>)
    \cup Own({"GET", "PUT"}, <<"users", "@me", "applications", a.id, "role-connection">>)

PollRoutes(a) ==
    LET poll == Channel(a) \o <<"polls", a.id>> IN
    Own({"GET"}, poll \o <<"answers", a.id>>) \cup Own({"POST"}, poll \o <<"expire">>)

EntitlementRoutes(a) ==
    LET entitlements == Application(a) \o <<"entitlements">> IN
    Own({"GET"}, Application(a) \o <<"skus">>) \cup Own({"GET", "POST"}, entitlements)
    \cup Named({"POST"}, entitlements \o <<a.id, "consume">>, entitlements \o <<"", "consume">>)
    \cup Named({"GET", "DELETE"}, entitlements \o <<a.id>>, entitlements \o <<"">>)

SubscriptionRoutes(a) ==
    LET subscriptions == <<"skus", a.id, "subscriptions">> IN
    Own({"GET"}, subscriptions) \cup Own({"GET"}, subscriptions \o <<a.id>>)

LobbyRoutes(a) ==
    LET members == Lobby(a) \o <<"members">> IN
    Own({"POST", "PUT"}, <<"lobbies">>) \cup Own({"GET", "PATCH", "DELETE"}, Lobby(a))
    \cup Named({"PUT", "DELETE"}, members \o <<a.id>>, members \o <<"">>)
    \cup Own({"POST"}, members \o <<"bulk">>) \cup Own({"DELETE"}, members \o <<"@me">>)

LobbyMessageRoutes(a) ==
    LET messages == Lobby(a) \o <<"messages">>
        members == Lobby(a) \o <<"members">>
    IN  Own({"PATCH"}, Lobby(a) \o <<"channel-linking">>) \cup Own({"GET", "POST"}, messages)
        \cup Named({"PUT"}, messages \o <<a.id, "moderation-metadata">>, messages)
        \cup Own({"POST"}, members \o <<"@me", "invites">>)
        \cup Named({"POST"}, members \o <<a.id, "invites">>, members \o <<"">>)

SoundboardRoutes(a) ==
    LET sounds == Guild(a) \o <<"soundboard-sounds">> IN
    Own({"GET"}, <<"soundboard-default-sounds">>)
    \cup Own({"GET", "POST"}, sounds) \cup Own({"GET"}, sounds \o <<a.id>>)
    \cup Named({"PATCH", "DELETE"}, sounds \o <<a.id>>, sounds)
    \cup Own({"POST"}, Channel(a) \o <<"send-soundboard-sound">>)

IdentityRoutes(a) ==
    LET shared == Application(a) \o <<"application-identities">>
        ofUser == <<"users", a.id, "application-identities", a.id>>
    IN  Named({"GET", "PATCH"}, Application(a) \o <<"users", a.id, "identities", a.name, "profile">>,
              shared)
        \cup Named({"GET"}, ofUser, shared)
        \cup Named({"GET"}, shared \o <<a.name, a.name>>, shared)
        \cup Named({"DELETE"}, ofUser \o <<a.name, a.name, "delete">>, shared)

OAuth2Routes(a) ==
    LET applications == <<"oauth2", "applications">> IN
    Own({"GET", "PATCH"}, <<"applications", "@me">>)
    \cup Named({"GET"}, applications \o <<a.id, "assets">>, applications \o <<"", "assets">>)
    \cup Named({"POST"}, applications \o <<a.id, "bot">>, applications \o <<"", "bot">>)

Requests(a) == UNION {
    UserRoutes(a), UserGuildRoutes(a), SearchRoutes(a), GuildRoutes(a), BanRoutes(a),
    MemberRoutes(a), MemberRoleRoutes(a), GuildChannelRoutes(a), RoleRoutes(a), PruneRoutes(a),
    GuildImageRoutes(a), GuildPageRoutes(a), AuditLogRoutes(a), EmojiRoutes(a),
    StickerRoutes(a), ApplicationEmojiRoutes(a), TemplateRoutes(a), ChannelRoutes(a),
    MessageReadRoutes(a), MessageSendRoutes(a), MessageEditRoutes(a), PinRoutes(a),
    ChannelInviteRoutes(a), ChannelPermissionRoutes(a), InviteRoutes(a), VoiceRoutes(a),
    GatewayRoutes, WebhookRoutes(a), WebhookMessageRoutes(a), ReactionRoutes(a),
    ThreadStartRoutes(a), ThreadMemberRoutes(a), ThreadListRoutes(a), CommandRoutes(a),
    CommandPermissionRoutes(a), InteractionRoutes(a), StageRoutes(a), ScheduledEventRoutes(a),
    ModerationRoutes(a), RoleConnectionRoutes(a), PollRoutes(a), EntitlementRoutes(a),
    SubscriptionRoutes(a), LobbyRoutes(a), LobbyMessageRoutes(a), SoundboardRoutes(a),
    IdentityRoutes(a), OAuth2Routes(a)}

-----------------------------------------------------------------------------
(* Discord's buckets: by method and route, and by the guild, channel or    *)
(* webhook that the path begins with.                                      *)
Template(path) ==
    [i \in DOMAIN path |-> IF path[i] \in Snowflakes \cup Tokens \cup Names THEN ":" ELSE path[i]]
TopLevel(path) ==
    IF path[1] \in {"guilds", "channels", "webhooks"} /\ Len(path) > 1
    THEN {path[i] : i \in 2 .. Len(path)} \cap (Guilds \cup Channels \cup Webhooks \cup Tokens)
    ELSE {}
DiscordBucket(r) == <<r.method, Template(r.path), TopLevel(r.path)>>

Init == made = {} /\ known = <<>>

(* A request, and the answer that names Discord's bucket.                  *)
Request(r) ==
    LET keys == restRateLimitKeys(r) IN
    /\ Cardinality(made) < MaxCalls
    /\ made' = made \cup {r}
    /\ known' = [k \in DOMAIN known \cup {keys} |->
                    IF k = keys THEN DiscordBucket(r) ELSE known[k]]

Next == \E a \in Arguments : \E r \in Requests(a) : Request(r)

Spec == Init /\ [][Next]_vars

-----------------------------------------------------------------------------
(* A bucket ID that stands for more than its route: the ids at its end are *)
(* left out, with the slash before them trimmed.                           *)
Absorbing(r) == Len(Trimmed(r.bucket)) < Len(r.path)

(* Every request waits for a bucket of its own guild, channel or webhook,  *)
(* and for the one that Discord counts it in, once an answer has named it, *)
(* unless a request with the same keys has an absorbing bucket ID: then    *)
(* each answer moves the two to its own bucket.                            *)
RightBucket ==
    \A r \in made :
        LET bucket == known[restRateLimitKeys(r)] IN
        /\ bucket[3] = TopLevel(r.path)
        /\ \/ bucket = DiscordBucket(r)
           \/ \E q \in made : Absorbing(q) /\ restRateLimitKeys(q) = restRateLimitKeys(r)

(* Routes whose requests have more keys than their major parameters: two   *)
(* functions name different bucket IDs, or a name stays in the bucket ID.  *)
SplitRoutes ==
    {<<"POST", <<"users", "@me", "channels">>>>, <<"GET", <<"guilds", "templates", ":">>>>,
     <<"DELETE", <<"channels", ":", "messages", ":", "reactions", ":">>>>}
    \cup {<<method, <<"webhooks", ":", ":", "messages", m>>>> :
             method \in {"PATCH", "DELETE"}, m \in {":", "@original"}}

(* Two requests of a route with the same major parameters wait for one     *)
(* bucket from the first on: no other id makes a bucket of its own, which  *)
(* would start with a full budget and fill the limiter's maps. The split   *)
(* routes are the exceptions.                                              *)
IdsShareBuckets ==
    \A r, q \in made :
        /\ r.method = q.method /\ Template(r.path) = Template(q.path)
        /\ hashRateLimitMajorParameters(r.path) = hashRateLimitMajorParameters(q.path)
        => \/ restRateLimitKeys(r) = restRateLimitKeys(q)
           \/ <<r.method, Template(r.path)>> \in SplitRoutes
=============================================================================
