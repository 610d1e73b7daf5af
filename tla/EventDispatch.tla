------------------------------ MODULE EventDispatch ------------------------------
(***************************************************************************)
(* Events on their way through a Session (event.go): the gateway's reach   *)
(* the cache (StateCache) and then the program's handlers, one at a time;  *)
(* those of REST requests (RATE_LIMIT) come from any goroutine. The        *)
(* program adds and removes handlers at any time.                          *)
(*                                                                         *)
(* Discord is external: its guilds change, and every change of a guild the *)
(* bot is in is told in order. When a gateway session is lost and not      *)
(* resumed, the events under way are lost with it; the next session starts *)
(* with READY and a GUILD_CREATE for each guild.                           *)
(***************************************************************************)
EXTENDS StateCache

CONSTANTS
    StreamBound,
    Bounds      \* scenarios: what may still happen, and how the session is set up

What == Kinds \cup {"add", "remove", "rateLimit", "tell", "threadMember", "message", "join",
                    "leave", "leaveAway", "lose", "SyncEvents"}
ASSUME BoundsAssumption == Bounds \subseteq [What -> Nat]

VARIABLES
    discord,        \* of each guild: is the bot in it, and what it contains
    stream,         \* the gateway's events that are not read yet
    connected,
    state,          \* Session.State
    registry,       \* Session.handlers and onceHandlers, and the handlers ever added
    dispatch,       \* of each goroutine that handles an event: how far it is
    calls,          \* history: how often each handler was called
    left

vars == <<discord, stream, connected, state, registry, dispatch, calls, left>>

Listener == "listener"
Dispatchers == {Listener, "request1", "request2"}
Types == {"interface", "typed", "rateLimit"}

(* Between two calls: the passes over handlers still to make, the handlers *)
(* of this pass, and those removed before the event (history).             *)
Idle == [running |-> FALSE, passes |-> << >>, snapshot |-> << >>, removed |-> {}]

Nothing == [k \in Kinds |-> [i \in Ids |-> 0]]

Init ==
    /\ left \in Bounds
    /\ discord = [g \in Guilds |->
                     [in |-> FALSE, has |-> Nothing, threadMembers |-> [t \in Ids |-> {}],
                      messages |-> [c \in Ids |-> {}]]]
    /\ stream = << >> /\ connected = TRUE /\ state = NewState
    /\ registry = [handlers |-> [t \in Types |-> << >>], onceHandlers |-> [t \in Types |-> << >>],
                   added |-> << >>, removed |-> {}]
    /\ dispatch = [d \in Dispatchers |-> Idle]
    /\ calls = << >>

Use(what) == left[what] > 0 /\ left' = [left EXCEPT ![what] = @ - 1]

-----------------------------------------------------------------------------
(* The registry. A handler is known by its place in added.                 *)
Register(t, once) ==
    LET h == Len(registry.added) + 1 IN
    /\ Use("add")
    /\ registry' = [registry EXCEPT
           !.added = Append(@, [type |-> t, once |-> once]),
           !.handlers[t] = IF once THEN @ ELSE Append(@, h),
           !.onceHandlers[t] = IF once THEN Append(@, h) ELSE @]
    /\ calls' = Append(calls, 0)
    /\ UNCHANGED <<discord, stream, connected, state, dispatch>>

AddHandler(t) == Register(t, FALSE)
AddHandlerOnce(t) == Register(t, TRUE)

(* The function that AddHandler and AddHandlerOnce return.                 *)
Without(handlers, h) == RemoveFirst(handlers, h)

(* Mutant: once handlers stay.                                             *)
UnregisteredMutant(r, h) == [r EXCEPT !.handlers[r.added[h].type] = Without(@, h)]
Unregistered(r, h) ==
    [r EXCEPT !.handlers[r.added[h].type] = Without(@, h),
              !.onceHandlers[r.added[h].type] = Without(@, h)]

removeEventHandlerInstance(h) ==
    /\ h \in 1..Len(registry.added) \ registry.removed /\ Use("remove")
    /\ registry' = [Unregistered(registry, h) EXCEPT !.removed = @ \cup {h}]
    /\ UNCHANGED <<discord, stream, connected, state, dispatch, calls>>

-----------------------------------------------------------------------------
(* handleEvent: the cache, the handlers of every event, those of the type. *)
(* The listener then passes the raw event on.                              *)
Begin(d, e, passes) ==
    /\ dispatch[d] = Idle
    /\ dispatch' = [dispatch EXCEPT ![d].passes = passes, ![d].removed = registry.removed]
    /\ state' = OnInterface(state, e)

onEvent ==
    /\ stream # << >> /\ stream' = Tail(stream)
    /\ Begin(Listener, Head(stream), <<"interface", "typed", "interface">>)
    /\ UNCHANGED <<discord, connected, registry, calls, left>>

RateLimitEvent(d) ==
    /\ d # Listener /\ Use("rateLimit")
    /\ Begin(d, [type |-> "RATE_LIMIT", guild |-> CHOOSE g \in Guilds : TRUE],
             <<"interface", "rateLimit">>)
    /\ UNCHANGED <<discord, stream, connected, registry, calls>>

(* Mutant: once handlers are not consumed.                                 *)
ConsumedMutant(r, t) == r
Consumed(r, t) == [r EXCEPT !.onceHandlers[t] = << >>]

Ended(now) == IF now.running \/ now.passes # << >> \/ now.snapshot # << >> THEN now ELSE Idle

snapshotEventHandlers(d) ==
    LET now == dispatch[d]
        t == Head(now.passes)
    IN  /\ ~now.running /\ now.snapshot = << >> /\ now.passes # << >>
        /\ registry' = Consumed(registry, t)
        /\ dispatch' = [dispatch EXCEPT ![d] =
               Ended([now EXCEPT !.passes = Tail(@),
                         !.snapshot = registry.handlers[t] \o registry.onceHandlers[t]])]
        /\ UNCHANGED <<discord, stream, connected, state, calls, left>>

(* With SyncEvents the next handler waits for the end of this one; a       *)
(* handler that panics has ended.                                          *)
callEventHandler(d) ==
    LET now == dispatch[d] IN
    /\ ~now.running /\ now.snapshot # << >>
    /\ calls' = [calls EXCEPT ![Head(now.snapshot)] = @ + 1]
    /\ dispatch' = [dispatch EXCEPT ![d] =
           Ended([now EXCEPT !.snapshot = Tail(@), !.running = left.SyncEvents = 1])]
    /\ UNCHANGED <<discord, stream, connected, state, registry, left>>

HandlerEnds(d) ==
    /\ dispatch[d].running
    /\ dispatch' = [dispatch EXCEPT ![d] = Ended([@ EXCEPT !.running = FALSE])]
    /\ UNCHANGED <<discord, stream, connected, state, registry, calls, left>>

-----------------------------------------------------------------------------
(* Discord. A thing that was deleted does not come back under its id, but  *)
(* members, voice states and presences do. Who leaves a guild leaves its   *)
(* voice channel before. At most StreamBound events are not read yet.      *)
Gone == -2
Returning == {"member", "voice", "presence"}
Version(v) == IF v > 0 THEN v ELSE 0
Things(g, k) == [i \in Ids |-> Version(discord[g].has[k][i])]
ActiveThreads(g, ids) ==
    [t \in Ids |-> IF t \in ids /\ ~Archived(Things(g, "thread")[t]) THEN Things(g, "thread")[t] ELSE 0]
Members(g) == {u \in Ids : discord[g].has["member"][u] > 0}

Room == Len(stream) < StreamBound
Told(g, event) ==
    /\ Room
    /\ stream' = IF connected /\ discord[g].in THEN Append(stream, event) ELSE stream

(* A large guild is told with some of its members only, and no guild with  *)
(* its archived threads.                                                   *)
Created(g, members) ==
    [type |-> "GUILD_CREATE", guild |-> g,
     payload |-> [count |-> Cardinality(Members(g)),
                  lists |-> [k \in Kinds |->
                      CASE k = "member" -> [u \in Ids |-> IF u \in members THEN Things(g, k)[u] ELSE 0]
                        [] k = "presence" -> [u \in Ids |->
                               IF u \in Members(g) /\ Online(Things(g, k)[u]) THEN Things(g, k)[u] ELSE 0]
                        [] k = "thread" -> ActiveThreads(g, Ids)
                        [] OTHER -> Things(g, k)]]]

(* A change of a thing, as the gateway tells it.                           *)
Change(g, k, i, v) ==
    CASE k = "emoji" -> [type |-> "GUILD_EMOJIS_UPDATE", guild |-> g,
                         emojis |-> [Things(g, k) EXCEPT ![i] = Version(v)]]
      [] k = "member" /\ v < 0 -> [type |-> "GUILD_MEMBER_REMOVE", guild |-> g, id |-> i]
      [] k = "member" /\ v = 1 -> [type |-> "GUILD_MEMBER_ADD", guild |-> g, id |-> i, v |-> v]
      [] k # "emoji" /\ v > (IF k = "member" THEN 1 ELSE 0) ->
             [type |-> "PUT", guild |-> g, kind |-> k, id |-> i, v |-> v]
      [] OTHER -> [type |-> "TAKE", guild |-> g, kind |-> k, id |-> i]

(* With a member goes the presence, with a channel what was said there.    *)
Altered(d, k, i, v) ==
    [d EXCEPT !.has[k][i] = v,
              !.has["presence"][i] = IF k = "member" /\ v < 0 THEN Gone ELSE @,
              !.messages[i] = IF k = "channel" /\ v < 0 THEN {} ELSE @,
              !.threadMembers[i] = IF k = "thread" /\ v < 0 THEN {} ELSE @]

Changes(g, k, i) ==
    LET now == discord[g].has[k][i] IN
    /\ Use(k)
    /\ k \in {"presence", "voice"} => i \in Members(g)
    /\ \E v \in IF now = Gone /\ k \notin Returning THEN {}
                ELSE {Version(now) + 1} \cup (IF now > 0 /\ k # "presence" THEN {Gone} ELSE {}) :
          /\ k = "member" /\ v < 0 => discord[g].has["voice"][i] <= 0
          /\ discord' = [discord EXCEPT ![g] = Altered(@, k, i, v)]
          /\ Told(g, Change(g, k, i, v))
    /\ UNCHANGED <<connected, state, registry, dispatch, calls>>

(* GUILD_UPDATE has the roles and emojis, GUILD_MEMBERS_CHUNK the members. *)
Tells(g) ==
    /\ Use("tell")
    /\ \/ Told(g, [type |-> "GUILD_UPDATE", guild |-> g,
                   payload |-> [count |-> 0, lists |->
                       [k \in {"role", "emoji"} |-> Things(g, k)]]])
       \/ Told(g, [type |-> "GUILD_MEMBERS_CHUNK", guild |-> g, members |-> Things(g, "member"),
                   presences |-> [u \in Ids |-> IF u \in Members(g) THEN Things(g, "presence")[u] ELSE 0]])
       \/ \E synced \in SUBSET Ids :
             Told(g, [type |-> "THREAD_LIST_SYNC", guild |-> g,
                      threads |-> ActiveThreads(g, synced), synced |-> synced])
    /\ UNCHANGED <<discord, connected, state, registry, dispatch, calls>>

(* Users join a thread, or leave it. Whether guild members are sent with   *)
(* those who join depends on the bot's intents.                            *)
ThreadMember(g, t, users) ==
    /\ Use("threadMember") /\ discord[g].has["thread"][t] > 0
    /\ LET now == discord[g].threadMembers[t]
           event(added, withMembers) ==
               [type |-> "THREAD_MEMBERS_UPDATE", guild |-> g, id |-> t,
                added |-> added, withMembers |-> withMembers]
       IN  \/ /\ users \cap now = {}
              /\ discord' = [discord EXCEPT ![g].threadMembers[t] = @ \cup users]
              /\ \E added \in SetToSeqs(users), withMembers \in BOOLEAN :
                    Told(g, event(added, withMembers))
           \/ /\ users \subseteq now
              /\ discord' = [discord EXCEPT ![g].threadMembers[t] = @ \ users]
              /\ Told(g, event(<< >>, FALSE))
    /\ UNCHANGED <<connected, state, registry, dispatch, calls>>

(* Posts and edits, and deletes.                                           *)
Message(g, c, m) ==
    /\ Use("message") /\ discord[g].has["channel"][c] > 0
    /\ \/ /\ discord' = [discord EXCEPT ![g].messages[c] = @ \cup {m}]
          /\ Told(g, [type |-> "MESSAGE", guild |-> g, id |-> c, message |-> m])
       \/ /\ m \in discord[g].messages[c]
          /\ discord' = [discord EXCEPT ![g].messages[c] = @ \ {m}]
          /\ Told(g, [type |-> "MESSAGE_DELETE", guild |-> g, id |-> c, message |-> m])
    /\ UNCHANGED <<connected, state, registry, dispatch, calls>>

(* The bot joins a guild, or a guild is available again.                   *)
Joins(g) ==
    /\ ~discord[g].in /\ Room /\ Use("join")
    /\ discord' = [discord EXCEPT ![g].in = TRUE]
    /\ \E members \in SUBSET Members(g) :
          stream' = IF connected THEN Append(stream, Created(g, members)) ELSE stream
    /\ UNCHANGED <<connected, state, registry, dispatch, calls>>

Leaves(g) ==
    /\ discord[g].in /\ Use(IF connected THEN "leave" ELSE "leaveAway")
    /\ discord' = [discord EXCEPT ![g].in = FALSE]
    /\ Told(g, [type |-> "GUILD_DELETE", guild |-> g])
    /\ UNCHANGED <<connected, state, registry, dispatch, calls>>

(* The session cannot be resumed, and the next one identifies.             *)
SessionLost ==
    /\ connected /\ Use("lose") /\ connected' = FALSE /\ stream' = << >>
    /\ UNCHANGED <<discord, state, registry, dispatch, calls>>

NewSession ==
    /\ ~connected /\ connected' = TRUE
    /\ LET in == {g \in Guilds : discord[g].in} IN
       stream' = <<[type |-> "READY", guild |-> CHOOSE g \in Guilds : TRUE, guilds |-> in]>>
                     \o SetToSeq({Created(g, Members(g)) : g \in in})
    /\ UNCHANGED <<discord, state, registry, dispatch, calls, left>>

Next ==
    \/ \E t \in Types : AddHandler(t) \/ AddHandlerOnce(t)
    \/ \E h \in 1..Len(registry.added) : removeEventHandlerInstance(h)
    \/ onEvent
    \/ \E d \in Dispatchers : \/ RateLimitEvent(d) \/ snapshotEventHandlers(d)
                              \/ callEventHandler(d) \/ HandlerEnds(d)
    \/ \E g \in Guilds :
          \/ Joins(g) \/ Leaves(g) \/ Tells(g)
          \/ \E k \in Kinds, i \in Ids : Changes(g, k, i)
          \/ \E t \in Ids, users \in (SUBSET Ids) \ {{}} : ThreadMember(g, t, users)
          \/ \E c, m \in Ids : Message(g, c, m)
    \/ SessionLost \/ NewSession

Spec == Init /\ [][Next]_vars

-----------------------------------------------------------------------------
(* If the cache was told of each guild that the bot left: one left while   *)
(* no session was there stays in guildMap, which GuildAdd takes for listed.*)
LeavesAreTold ==
    \A b \in Bounds : b["leaveAway"] = 0 /\ (b["leave"] = 0 \/ b["lose"] = 0)

(* What the gateway has told of a guild is what the cache shows, once all  *)
(* of it was handled. Members of large guilds may be missing or partial. So*)
(* may archived threads, and active ones that channelMap has from an       *)
(* earlier session: ChannelAdd updates these and does not list them again. *)
Caught(g) == discord[g].in /\ connected /\ stream = << >>
Mirrors ==
    \A g \in Guilds : Caught(g) =>
        LET cached == state[g] IN
        /\ cached.known /\ ~cached.unavailable
        /\ LeavesAreTold => cached.listed /\ cached.count = Cardinality(Members(g))
        /\ \A i \in Ids :
              /\ \A k \in {"channel", "role", "emoji", "voice", "sound"} :
                    cached.slots[k][i].list = Things(g, k)[i]
              /\ LET thread == cached.slots["thread"][i] IN
                 \/ thread.list = Things(g, "thread")[i]
                 \/ thread.list = 0 /\ (Archived(Things(g, "thread")[i]) \/ thread.map # 0)
              /\ IF i \in Members(g)
                 THEN /\ cached.slots["member"][i].list \in {0, Partial, Things(g, "member")[i]}
                      /\ Online(Things(g, "presence")[i]) =>
                            cached.slots["presence"][i].list = Things(g, "presence")[i]
                 ELSE cached.slots["member"][i].list = 0
              /\ Things(g, "channel")[i] # 0 =>
                    Range(cached.messages[i]) \subseteq discord[g].messages[i]

(* Member, Role and Channel find what the lists of an available guild      *)
(* show, the same object, so that an update through one reaches the other. *)
MapsAgree ==
    \A g \in Guilds : state[g].known /\ ~state[g].unavailable =>
        \A i \in Ids :
            /\ \A k \in {"member", "role"} :
                  LET slot == state[g].slots[k][i] IN
                  slot.map = slot.list /\ (slot.list # 0 => slot.same)
            /\ \A k \in ChannelKinds :
                  LET slot == state[g].slots[k][i] IN
                  slot.list # 0 => slot.map = slot.list /\ slot.same

(* A handler added with AddHandlerOnce is called once, whichever events    *)
(* are handled at the same time.                                           *)
OnceOnly == \A h \in 1..Len(calls) : registry.added[h].once => calls[h] <= 1

(* An event whose handling begins after the handler's remove function has  *)
(* returned does not call that handler.                                    *)
RemovedNotCalled ==
    \A d \in Dispatchers : Range(dispatch[d].snapshot) \cap dispatch[d].removed = {}

(* Emoji returns an emoji for a guild and emoji id (state.go:927).         *)
EmojiFound ==
    \A g \in Guilds : Caught(g) => \A i \in Ids :
        state[g].slots["emoji"][i].map = Things(g, "emoji")[i]

(* Guild is useful for querying if the bot is in a guild (state.go:218).   *)
GuildMeansMember ==
    connected /\ stream = << >> => \A g \in Guilds : state[g].known <=> discord[g].in

(* A guild lists all its active threads (structs.go:1039).                 *)
ThreadsListed ==
    \A g \in Guilds : Caught(g) => \A t \in Ids :
        ActiveThreads(g, Ids)[t] # 0 => state[g].slots["thread"][t].list # 0

(* Members of a thread are all thread members (structs.go:594).            *)
ThreadMembersAreMembers ==
    \A g \in Guilds : Caught(g) => \A t \in Ids :
        Range(state[g].threadMembers[t]) \subseteq discord[g].threadMembers[t]
=============================================================================
