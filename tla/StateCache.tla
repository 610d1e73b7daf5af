------------------------------- MODULE StateCache -------------------------------
(***************************************************************************)
(* State (state.go): the cache of what the gateway has told, and its       *)
(* OnInterface, an operator from the cache before an event to the cache    *)
(* after it.                                                               *)
(*                                                                         *)
(* A guild keeps its things in lists, and State finds members, roles,      *)
(* emojis, channels and threads through maps of pointers as well. A slot   *)
(* is the place of one thing: the version the list shows, the version the  *)
(* map shows, and whether both point to the same object, so that an update *)
(* through the map reaches the list. Everything is tracked (the defaults   *)
(* of NewState); the fields of a thing are its version, 0 when absent.     *)
(***************************************************************************)
EXTENDS Integers, FiniteSets, SequencesExt

CONSTANTS
    Guilds,
    Ids,                \* names for the things of one kind in one guild
    MaxMessageCount

ASSUME StateAssumption == MaxMessageCount \in Nat \ {0} /\ IsFiniteSet(Guilds) /\ IsFiniteSet(Ids)

ChannelKinds == {"channel", "thread"}
GuildMaps == {"member", "role", "emoji"}        \* one map for each guild
Kinds == ChannelKinds \cup GuildMaps \cup {"voice", "presence", "sound"}

Partial == -1           \* a member of whom only the user is known
Empty == [list |-> 0, map |-> 0, same |-> FALSE]

NewState ==
    [g \in Guilds |->
        [known |-> FALSE,               \* in guildMap
         listed |-> FALSE,              \* in Guilds
         unavailable |-> FALSE, count |-> 0,
         slots |-> [k \in Kinds |-> [i \in Ids |-> Empty]],
         messages |-> [c \in Ids |-> << >>],
         threadMembers |-> [t \in Ids |-> << >>]]]

Set(st, g, k, i, slot) == [st EXCEPT ![g].slots[k][i] = slot]

(* An object found in the map is overwritten, otherwise a new one is added *)
(* to the map and appended to the list.                                    *)
Put(slot, v) ==
    IF slot.map # 0
    THEN [slot EXCEPT !.map = v, !.list = IF slot.same THEN v ELSE @]
    ELSE [list |-> v, map |-> v, same |-> TRUE]
Take(slot) == IF slot.map = 0 THEN slot ELSE Empty

-----------------------------------------------------------------------------
(* GuildAdd: a list the payload has replaces the cached one, a list it has *)
(* not is kept. The channels and threads of a guild are never taken out of *)
(* channelMap here.                                                        *)
Fresh(v) == [list |-> v, map |-> v, same |-> v # 0]

(* Mutant: the map keeps the objects of the lists before.                  *)
ReplacedMutant(k, slot, v) ==
    IF k \in GuildMaps THEN [Put(slot, v) EXCEPT !.list = v] ELSE Fresh(v)
Replaced(k, slot, v) ==
    CASE k \in GuildMaps -> Fresh(v)
      [] k \in ChannelKinds -> IF v # 0 THEN Fresh(v)
                               ELSE [slot EXCEPT !.list = 0, !.same = FALSE]
      [] OTHER -> [Empty EXCEPT !.list = v]
Kept(known, slot) == IF known THEN slot ELSE [slot EXCEPT !.list = 0, !.same = FALSE]

GuildAdd(st, g, payload) ==
    LET old == st[g]
        Has(k) == k \in DOMAIN payload.lists
    IN  [st EXCEPT ![g] =
            [known |-> TRUE, listed |-> old.listed \/ ~old.known,
             unavailable |-> FALSE,
             count |-> IF payload.count = 0 /\ old.known THEN old.count ELSE payload.count,
             slots |-> [k \in Kinds |-> [i \in Ids |->
                 IF Has(k) THEN Replaced(k, old.slots[k][i], payload.lists[k][i])
                 ELSE Kept(old.known, old.slots[k][i])]],
             messages |-> [c \in Ids |->
                 IF Has("channel") /\ payload.lists["channel"][c] # 0
                 THEN << >> ELSE old.messages[c]],
             threadMembers |-> [t \in Ids |->
                 IF Has("thread") /\ payload.lists["thread"][t] # 0
                 THEN << >> ELSE old.threadMembers[t]]]]

(* The channels of the guild stay in channelMap.                           *)
GuildRemove(st, g) ==
    LET old == st[g] IN
    IF ~old.known THEN st
    ELSE [st EXCEPT ![g] =
            [old EXCEPT !.known = FALSE, !.listed = FALSE, !.unavailable = FALSE, !.count = 0,
                        !.slots = [k \in Kinds |-> [i \in Ids |->
                            IF k \in ChannelKinds
                            THEN [old.slots[k][i] EXCEPT !.list = 0, !.same = FALSE] ELSE Empty]]]]

(* onReady: the guilds are stubs, and those of an earlier session that are *)
(* not among them stay in guildMap. roleMap and emojiMap are not touched.  *)
Stub(old) ==
    [old EXCEPT !.known = TRUE, !.listed = TRUE, !.unavailable = TRUE, !.count = 0,
                !.slots = [k \in Kinds |-> [i \in Ids |->
                    IF k = "member" THEN Empty
                    ELSE [old.slots[k][i] EXCEPT !.list = 0, !.same = FALSE]]]]
onReady(st, guilds) ==
    [g \in Guilds |-> IF g \in guilds THEN Stub(st[g]) ELSE [st[g] EXCEPT !.listed = FALSE]]

-----------------------------------------------------------------------------
memberAdd(st, g, u, v) ==
    IF ~st[g].known THEN st ELSE Set(st, g, "member", u, Put(st[g].slots["member"][u], v))
MemberRemove(st, g, u) ==
    IF ~st[g].known THEN st ELSE Set(st, g, "member", u, Take(st[g].slots["member"][u]))

(* SoundboardSoundAdd, voiceStateUpdate, presenceAdd: only a list.         *)
ListPut(st, g, k, i, v) == IF ~st[g].known THEN st ELSE [st EXCEPT ![g].slots[k][i].list = v]

RoleAdd(st, g, r, v) ==
    IF ~st[g].known THEN st ELSE Set(st, g, "role", r, Put(st[g].slots["role"][r], v))
RoleRemove(st, g, r) ==
    IF ~st[g].known THEN st ELSE Set(st, g, "role", r, Take(st[g].slots["role"][r]))

ChannelAdd(st, g, k, c, v) ==
    LET slot == st[g].slots[k][c] IN
    IF slot.map = 0 /\ ~st[g].known THEN st ELSE Set(st, g, k, c, Put(slot, v))

(* With a channel go its messages, with a thread its members.              *)
Cleared(s, k, c) ==
    [s EXCEPT !.messages[c] = IF k = "channel" THEN << >> ELSE @,
              !.threadMembers[c] = IF k = "thread" THEN << >> ELSE @]

(* Mutant: the channel is only taken out of the map.                       *)
ChannelRemoveMutant(st, g, k, c) ==
    IF ~st[g].known THEN st ELSE [st EXCEPT ![g].slots[k][c].map = 0, ![g].slots[k][c].same = FALSE]
ChannelRemove(st, g, k, c) ==
    IF ~st[g].known \/ st[g].slots[k][c].map = 0 THEN st
    ELSE [Set(st, g, k, c, Empty) EXCEPT ![g] = Cleared(@, k, c)]

(* Threads listed make way for those sent if they are archived or belong to*)
(* a synced channel; a sync that names no channel is for all of them.      *)
Archived(v) == v # 0 /\ v % 2 = 0
MakesWay(slot, t, synced) == slot.list # 0 /\ (t \in synced \/ Archived(slot.list))

ThreadListSync(st, g, threads, synced) ==
    LET old == st[g]
        replaced(t) == threads[t] # 0 \/ MakesWay(old.slots["thread"][t], t, synced)
    IN
    IF ~old.known THEN st
    ELSE [st EXCEPT ![g] = [old EXCEPT
             !.slots["thread"] = [t \in Ids |->
                 IF replaced(t) THEN Fresh(threads[t]) ELSE old.slots["thread"][t]],
             !.threadMembers = [t \in Ids |->
                 IF replaced(t) THEN << >> ELSE old.threadMembers[t]]]]

(* The users who left are compared with ThreadMember.ID, the id of the     *)
(* thread, so that nobody is removed. A guild member sent with an added one*)
(* has no guild id: memberAdd fails, and the rest of the event is dropped. *)
ThreadMembersUpdate(st, g, t, added, withMembers) ==
    IF st[g].slots["thread"][t].map = 0 THEN st
    ELSE [st EXCEPT ![g].threadMembers[t] =
             @ \o IF withMembers THEN SubSeq(added, 1, 1) ELSE added]

(* A message that is cached keeps its place; the oldest make way.          *)
MessageAdd(st, g, c, m) ==
    LET all == Append(st[g].messages[c], m) IN
    IF st[g].slots["channel"][c].map = 0 \/ Contains(st[g].messages[c], m) THEN st
    ELSE [st EXCEPT ![g].messages[c] =
             IF Len(all) > MaxMessageCount
             THEN SubSeq(all, Len(all) - MaxMessageCount + 1, Len(all)) ELSE all]
MessageRemove(st, g, c, m) ==
    IF st[g].slots["channel"][c].map = 0 THEN st
    ELSE [st EXCEPT ![g].messages[c] = RemoveFirst(@, m)]

(* Offline users are not made members.                                     *)
Online(v) == v % 2 = 1
PresenceUpdate(st, g, u, v) ==
    LET after == ListPut(st, g, "presence", u, v) IN
    IF Online(v) /\ after[g].slots["member"][u].map = 0
    THEN memberAdd(after, g, u, Partial) ELSE after

(* GuildMembersChunk.                                                      *)
MembersChunk(st, g, members, presences) ==
    LET slots == st[g].slots IN
    IF ~st[g].known THEN st
    ELSE [st EXCEPT ![g].slots = [@ EXCEPT
             !["member"] = [u \in Ids |->
                 IF members[u] = 0 THEN slots["member"][u] ELSE Put(slots["member"][u], members[u])],
             !["presence"] = [u \in Ids |->
                 IF presences[u] = 0 THEN slots["presence"][u]
                 ELSE [slots["presence"][u] EXCEPT !.list = presences[u]]]]]

-----------------------------------------------------------------------------
(* An event has the fields its type needs.                                 *)
OnInterface(st, e) ==
    LET g == e.guild
        counted(n) == IF st[g].known THEN [st EXCEPT ![g].count = @ + n] ELSE st
    IN
    CASE e.type = "READY" -> onReady(st, e.guilds)
      [] e.type \in {"GUILD_CREATE", "GUILD_UPDATE"} -> GuildAdd(st, g, e.payload)
      [] e.type = "GUILD_DELETE" -> GuildRemove(st, g)
      [] e.type = "GUILD_MEMBER_ADD" -> memberAdd(counted(1), g, e.id, e.v)
      [] e.type = "GUILD_MEMBER_REMOVE" -> MemberRemove(counted(-1), g, e.id)
      [] e.type = "GUILD_MEMBERS_CHUNK" -> MembersChunk(st, g, e.members, e.presences)
      [] e.type = "GUILD_EMOJIS_UPDATE" ->
            IF ~st[g].known THEN st
            ELSE [st EXCEPT ![g].slots["emoji"] = [i \in Ids |->
                     [@[i] EXCEPT !.list = e.emojis[i], !.same = FALSE]]]
      [] e.type = "THREAD_LIST_SYNC" -> ThreadListSync(st, g, e.threads, e.synced)
      [] e.type = "THREAD_MEMBERS_UPDATE" ->
            ThreadMembersUpdate(st, g, e.id, e.added, e.withMembers)
      [] e.type = "MESSAGE" -> MessageAdd(st, g, e.id, e.message)
      [] e.type = "MESSAGE_DELETE" -> MessageRemove(st, g, e.id, e.message)
      [] e.type = "PUT" ->
            CASE e.kind \in ChannelKinds -> ChannelAdd(st, g, e.kind, e.id, e.v)
              [] e.kind = "member" -> memberAdd(st, g, e.id, e.v)
              [] e.kind = "role" -> RoleAdd(st, g, e.id, e.v)
              [] e.kind = "presence" -> PresenceUpdate(st, g, e.id, e.v)
              [] OTHER -> ListPut(st, g, e.kind, e.id, e.v)
      [] e.type = "TAKE" ->
            CASE e.kind \in ChannelKinds -> ChannelRemove(st, g, e.kind, e.id)
              [] e.kind = "role" -> RoleRemove(st, g, e.id)
              [] OTHER -> ListPut(st, g, e.kind, e.id, 0)
      [] OTHER -> st
=============================================================================
