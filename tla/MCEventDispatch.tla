---------------------------- MODULE MCEventDispatch ----------------------------
(* Instances of EventDispatch for TLC. Each scenario lets a few kinds of   *)
(* things change, with the sessions and guilds that are lost meanwhile.    *)
EXTENDS EventDispatch, TLC
CONSTANTS i1, i2
Names == Permutations(Ids)

Scenario(some) == [w \in What |-> IF w \in DOMAIN some THEN some[w] ELSE 0]

MCBounds == {Scenario(s) : s \in {
    [join |-> 2, leave |-> 1, tell |-> 1, channel |-> 3],
    [join |-> 1, lose |-> 1, tell |-> 1, channel |-> 3],
    [join |-> 2, leave |-> 1, tell |-> 1, thread |-> 3],
    [join |-> 1, lose |-> 1, tell |-> 1, thread |-> 3],
    [join |-> 2, leave |-> 1, tell |-> 1, role |-> 3],
    [join |-> 1, lose |-> 1, tell |-> 1, role |-> 3],
    [join |-> 1, lose |-> 1, tell |-> 1, member |-> 3, presence |-> 2],
    [join |-> 1, lose |-> 1, tell |-> 1, emoji |-> 2, sound |-> 2],
    [join |-> 1, lose |-> 1, member |-> 2, voice |-> 2],
    [join |-> 1, lose |-> 1, channel |-> 2, message |-> 4],
    [join |-> 1, lose |-> 1, thread |-> 2, threadMember |-> 2],
    [join |-> 1, rateLimit |-> 2, add |-> 2, remove |-> 1],
    [join |-> 1, rateLimit |-> 2, add |-> 2, remove |-> 1, SyncEvents |-> 1]}}

EmojiBounds == {Scenario([join |-> 1, emoji |-> 2])}
AwayBounds == {Scenario([join |-> 1, leaveAway |-> 1, lose |-> 1])}
ArchiveBounds == {Scenario([join |-> 1, lose |-> 1, thread |-> 3])}
ThreadBounds == {Scenario([join |-> 1, thread |-> 1, threadMember |-> 2])}
==============================================================================
