# A TLA+ model of dgo

dgo is a Go library for Discord bots: a `Session` keeps a websocket to
Discord's Gateway, hands events to the program's handlers, and calls Discord's
REST API under its rate limits. Voice has a connection of its own, with
end-to-end encryption. This directory models the parts in which goroutines
race, messages and failures arrive at bad moments, and limits are counted:
TLC checks small instances, and TLAPS proves what matters most for every
instance. Line numbers below are those of the Go files in the repository root.

    tlc -config GatewaySession.cfg MCGatewaySession     # one run
    tlapm GatewaySessionProofs.tla                      # one module of proofs

The runs are listed in `PROJECT.json` with the module each one loads, the
mutants (small changes of a definition that a property must notice), the map
from definitions to source lines, and the hazards the properties are for.

## The system

| part | state | operations | interacts with | what makes it correct |
|---|---|---|---|---|
| Gateway session lifecycle (`wsapi.go`) | `gatewayLifecycle`, `gatewayConnection`, `wsConn`, `DataReady`, `gatewayReconnectRunning`, the queue of Connect and Disconnect events, per generation `ctx`, `stop`, `ready`, `finish` | Open, OpenWithContext, Close, CloseWithCode, the reconnect goroutine | listener, heartbeat and watcher goroutines; the write queue; the identify coordinator; handlers | one generation lives at a time; Connect and Disconnect alternate; Close leaves nothing and returns; a loss that can be recovered is |
| Gateway resume data (`wsapi.go`, `event.go`) | `sessionID`, `resumeGatewayURL`, `sequence` | written by READY and every dispatch, cleared by invalidation and Close, read by the next authentication | listener, opener, reconnect goroutine, Close | a Resume asks for exactly what was not processed; ended sessions are not resumed, living ones not thrown away |
| Gateway write queue (`gateway_write.go`) | `requests`, `done`, the window `sentAt` | enqueue, run, the priority write around it | every public helper that sends; finish cancels it | no more than the limit in a window; nil means sent, once; cancelling releases everybody |
| Gateway heartbeat (`wsapi.go`) | `LastHeartbeatSent`, `LastHeartbeatAck`, shared by generations | heartbeat, op 1, op 11 | listener, write queue, finish | a dead connection is noticed, a live one is not given up |
| Member-request cooldown (`wsapi.go`) | time of the last request for all members per guild | reserve, release on failure | write queue | one request per cooldown, and a failed one does not count |
| Identify coordinator (`sharding.go`) | `remaining`, `resetAt`, `bucketReadyAt`, `maxConcurrency` | Acquire, Refresh, Status | one opener per shard; Discord's own count | Identifies of a bucket are spaced; what may still be granted is what Discord has left (never more starts than it allows is not so: QuotaRespected, below) |
| Shard manager (`sharding.go`) | `state`, `cancel`, `openDone`, `closeDone`, `cleanupCompleted` | Open, Close, one goroutine per shard in each | the Sessions of its shards | open or closed as a whole; Open and Close never work side by side; Close returns, and so does an Open that is cancelled |
| Event handler registry (`event.go`) | `handlers`, `onceHandlers` | AddHandler, AddHandlerOnce, removal, dispatch | listener, drainers of the event queue | a once handler runs once; a removed handler is not called by a later event |
| REST rate limiter (`ratelimit.go`) | buckets, their hashes, global deadline and window, invalid-request window | LockBucket..., Release, registerBucketHash, ApplyGlobalLimit, RecordResponse | every request | no request past a known limit or pause; a bucket locked by the request that works with it, and unlocked at last (it need not be: NoLockCycle, below); a cache that stays bounded and consistent |
| REST request path (`restapi.go`) | one request: its attempt and its bucket lock | requestWithLockedBucket and the endpoint wrappers | rate limiter | the bucket is released exactly once on every path; what is not idempotent is done once; each request waits for Discord's bucket |
| Voice connection (`voice.go`) | websocket generation, resume attempts, sequence, opus goroutines | open, resume, reconnect, Disconnect, Close | Gateway's voice events, DAVE | no websocket is left open without an owner; a resume is tried once; a lost connection is taken over |
| DAVE (`dave.go`, `dave_crypto.go`) | pending transition, epoch, sender key, receivers and their nonces | transition, epoch, commit and welcome messages; frames | voice connection, MLS | members that send and receive use one key; no key is derived twice; everybody ends in one epoch |
| MLS group session (`mls/`) | stored group state, pending base and candidate | proposals, commits, welcomes | DAVE | a step that fails leaves the group as it was |
| State cache (`state.go`) | guilds, channels, members and secondary maps | an update per event | listener, program | the lists say what Discord told; the maps agree with them |
| Data types, endpoints, helpers | none | pure functions | | |

What is hard about it: the goroutines of one generation (opener, listener,
watcher, heartbeat, finish) overlap with those of the next; callbacks of the
program run inside them and may call Open and Close; contexts are cancelled at
any moment; websockets fail at any moment; Discord's limits are counted twice,
here and at Discord.

## What is modelled

### GatewaySession (with MCGatewaySession, GatewaySessionProofs)

The core. A *lifetime* (`gatewaySessionLifecycle`) is what one Open starts and
one Close ends; it owns a sequence of connection *generations*
(`gatewayConnectionLifecycle`). Both are numbered in creation order, 0 is nil.

| model | code |
|---|---|
| `pc`, `life`, `cur`, `res` of a caller | a goroutine in OpenWithContext, in Close, or in the goroutine that startGatewayReconnect starts; the reconnect goroutine for lost generation g is caller g |
| `beginGatewayGeneration` ... `activateGatewayGeneration`, `FinishAttempt`, `HandleResult` | openGatewayGeneration and its loop, one action per stretch between two locks or waits |
| `listener`, `loss`: `ReadReady`, `ReadLoss`, `PublishReady`, `ListenerFinishes` | listen: a message is read, `conn.ctx` is looked at, onEvent runs, `ready` is sent to |
| `finish`: `FinishCritical`, then `FinishCloses`, `FinishDrains`, `startGatewayReconnect` | the body of `conn.finish.Do`: the part under `gatewayLifecycleMu`, then what follows it; a second caller of the Once waits for it |
| `ready` | the one-slot channel, a send to a full one is dropped |
| `events`, `dispatching`: `DrainStarts`, `DrainSkips`, `DrainContinues` | gatewayEvents and drainGatewayEvents |
| `closeGateway`, `CloseFinishes`, `CloseLegacy`, `CloseDrains` | closeGateway, with the path for Sessions without a generation that also runs when an Open begins in between |
| `StopLifecycle` | stopGatewayLifecycle |
| `CancelContext` | the context given to OpenWithContext is cancelled |

`ShouldReconnectOnError` is an exported field that the program may set at any
time, so startGatewayReconnect may always decide not to reconnect. Times,
dial errors and close codes are reduced to what they decide: the recovery
Stop, Resume or Identify of a loss is any of the three. Not in this module:
the resume data and the write path, which never take the lifecycle lock, and
times.

### GatewayResume (with GatewayResumeProofs)

The data a Resume needs. `onEvent` stores the sequence and `onReady` later the
session; `invalidateGatewaySession` clears the two separately, in the listener
(op 9, close codes), in the reconnect goroutine or in Close;
`authenticateGatewayGeneration` reads them separately. None of these holds the
lifecycle lock, so a listener that is in a handler when its generation is
finished goes on into the next one. The properties ResumeExact,
EndedNotResumed and IdentifyOnlyWhenEnded are about openers whose
predecessors have come to rest (`Quiet`: no late write has happened or is to
come); SequenceOfSession says part of it without that condition, and fails.

The opener and the reconnect goroutine look at the lifetime's context before they
clear (198-200 before 204, 946-948 before 932). When a close code arrives in place
of HELLO while that context is done, nobody clears: the session that Discord has
ended stays stored (`unheeded`), and the next Open tries to resume it, is refused
and identifies. EndedNotResumed is about every other session, whichever goroutine
was told of its end.

### GatewayWriteQueue (with MCGatewayWriteQueue, GatewayWriteQueueProofs)

The writer goroutine and its callers: the two selects of enqueue, the buffered
channel, waitForSlot with its window, the websocket lock that the writer
shares with heartbeats Discord asks for, and failPending. Writing takes any
time. A call is named after its packet.

### IdentifyCoordinator (with IdentifyCoordinatorProofs)

Acquire with its loop around the gate of a bucket, Refresh, Status and
resetQuotaLocked, next to Discord's own count of session starts, which resets
with Discord's period whatever the coordinator believes. `Answer` is Discord's
answer to Get Gateway Bot; it is under way for any time before `Refresh` stores it
(or is never stored), and meanwhile Acquires are granted and Discord may reset.
QuotaAccounted says how far off the quota then is: `missed` counts the Acquires
granted while the answer was under way, and until Discord's next reset the quota
is too high by exactly these. Where a reset came in between, `resetAt` is late by the
answer's delay, too, and the coordinator may only grant too little. After
the coordinator's own reset there is no such bound: QuotaRespected fails.
A Refresh that changes max_concurrency drops the gates (212), and the
history of BucketsSpaced begins anew with the new buckets.

### ShardManager (with MCShardManager, ShardManagerProofs)

Open, with one goroutine per shard and the collection of their errors; Close,
with the channels it waits for; the cleanup by whichever of the two must do
it. A Session is opened or not, and may end by itself: GatewaySession shows
what is inside.

### RateLimiter, RestRequests, RateWindow (with MCRestRequests, RestRequestsProofs)

`RateLimiter` has the shared state of the REST limiter and its operations under
the limiter's lock: `getBucket` with cleanup and eviction, the mappings from a
route to Discord's hash, `GetWaitTime`, the fixed global window,
`registerBucketHash`. A Bucket is a number in `heap`; the limiter's maps refer to
it, and so do the requests that hold or wait for it, also after it was evicted
(`Live` forgets the others). `RestRequests` has the requests:
`requestWithLockedBucket` with LockBucketObject's loop, `Release` in its two
halves (the own Bucket, then the canonical one, whose lock is taken while the own
is held), the invalid-request window and the retries. Discord answers with any of
success, failure, 404-like (`invalid`), 429 for the bucket and 429 for the bot
(by header or by body); it may have carried a request out whose answer is lost;
and it may move a route to another bucket (`Rehash`). `learned` is a history of the
pause, as the responses have told its end: PausesKept says that a request reserves
only after it. The last header replaces what was told before (Release stores its
deadline unconditionally, 462), a body only moves it forward.

`RateWindow` is the abstract limiter: at most so many grants in any window. The
proactive limit uses fixed windows, which let a budget pass at the end of one and
the next at its beginning; GlobalBudgetKept shows that RestRequests implements
RateWindow with three budgets in two windows (`INSTANCE RateWindow WITH`).

### RestRoutes (with MCRestRoutes)

The REST functions of a Session, by the method, path and bucket ID of their
requests, and the keys restRateLimitKeys makes of these. A path is a sequence of
segments; an empty segment is an id the bucket ID leaves out. Each definition
`...Routes` has the functions of one stretch of restapi.go, lobby.go,
soundboard.go, application_identity.go or oauth2.go. What the functions validate
or ask the state for before, and parse afterwards, is left out: a function may
make any of its requests.

### VoiceConnection (with MCVoiceConnection, VoiceConnectionProofs)

`v` is the VoiceConnection, `gens` its websocket generations. Openers
(a goroutine per server update, or per resume), listeners, heartbeats, the opus
receiver, reconnect and the goroutines of Disconnect and Close are processes; a
listener reads a message, then handles it in a step of its own, and what follows
handleVoiceWebsocketClose's lock is one, too. closeTransport and
detachVoiceGeneration clear the fields under the lock, and cancel and close after
it: `closedBy` names the goroutine that took a websocket and has yet to do the two
(`CancelAndClose`); it does nothing else meanwhile, and everybody else goes on. So
an old websocket may be open beside the one that an opener has installed since;
NoWebsocketLost says that each open one is either held or about to be closed by
its taker. The opus receiver starts its reconnect with a bare `go` (1617): `strays`
are these, which Session.Close does not wait for. `lost` says that a generation
failed and nothing was opened or closed since, `missed` that a reconnect found
another one running.

### DaveSession over MlsGroup (with MCDaveSession)

Each user of a call has a DAVESession and a GroupSession (`MlsGroup`: stored
group, proposals, pending commit; what a failure rolls back); a group is its
initial key package and the log of commits, so that two groups are equal exactly
when their keys are. The voice gateway, which is not in the repository, proposes
changes, announces the first commit that makes one, waits for everybody to be
ready and executes the transition; messages to and from it are queues. Rejoining,
rekeying, a recovery, and a downgrade to no DAVE and back are in the scenarios.
What a user sends goes out message by message after the session's lock is released
(`unsent`, of the listener and of the program that calls RekeyDAVE), so that a
rekey and a recovery interleave and the older key package may be the last to arrive;
the group recovers from that. `receivers` are the keys a user has made for others'
frames, from the group as it was with the first frame heard. A commit or
Welcome forgets them (dave.go 175, 194) and puts the new group in place, while the
sender keys wait for the transition: between the two, a first frame of the old
epoch gets a receiver of the new one and is not decrypted. Agreement says that this
is the only time at which users after the same transition may not hear each other.

### EventDispatch over StateCache (with MCEventDispatch, EventDispatchProofs)

Discord has guilds with channels, threads, roles, members, emojis, sounds,
presences, voice states and messages, which change; the stream of events about
them reaches `onEvent`, which updates the cache (`StateCache`: for each thing its
version in the list of its guild and in the map, and whether the two are the same
object) and then dispatches to the handlers, while other goroutines dispatch
rate-limit events and the program adds and removes handlers. A session may be
lost with everything in its stream, and a READY with the guilds follows. Mirrors
compares the cache with Discord when the stream is handled; that a guild is in
the list of guilds and counts its members is claimed only if the bot is told of
each guild it leaves (`LeavesAreTold`): one left while no session was there stays
in guildMap, and GuildAdd takes a guild of guildMap for one that is listed.

## The runs

| run | instance | properties | result |
|---|---|---|---|
| gateway_session | 1 user, 2 lifetimes, 2 generations | TypeOK, OneLiveGeneration, DataReadyMeansConnected, EventQueueInOrder, ReconnectInOrder, CloseLeavesNothing | holds |
| gateway_fair | 2 users, 1 lifetime, 1 generation, fair | CloseReturns, CancelStops | holds |
| gateway_resume | 3 generations, 2 sessions, 2 dispatches each | ResumeExact, EndedNotResumed, IdentifyOnlyWhenEnded | holds |
| gateway_write_queue | 3 packets, limit 1, window 2, fair | WindowRespected, NilMeansSent, CancelReleases | holds |
| identify_coordinator | 2 shards, 1 or 2 buckets, quota 2, 1 answer under way | BucketsSpaced, QuotaAccounted | holds |
| shard_manager | 3 callers, 2 shards, 3 lifetimes, fair | ShardsMatchState, CallsInTurn, CallsReturn | holds |
| rest | 2 requests of 1 or 2 routes, 2 retries, 2 hashes, 2 buckets, 1 mapping | CacheConsistent, InvalidBudget, UnsafeOnce, LocksAreHeld, PausesKept, GlobalBudgetKept | holds |
| rest_routes | any 2 requests, arguments equal or different in one kind | RightBucket, IdsShareBuckets | holds |
| voice | 2 or 3 generations, 1 or 2 server updates | NoWebsocketLost, AwaitedAckIsOurs, ResumeOnce, LostIsTakenOver | holds |
| dave | 2 or 3 users, fair | Agreement, PendingIsStored, KeyIsCurrent, KeyOnce, Converges | holds |
| events | 1 guild, 2 ids of each kind | Mirrors, MapsAgree, OnceOnly, RemovedNotCalled | holds |
| gateway_lost_wakeup | 1 user, 1 lifetime, 2 generations | SkippedReconnectHasOwner | violated |

EventQueueInOrder joins EventsAlternate and NoStrandedEvent, ReconnectInOrder
joins AtMostOneReconnector and StopFindsNoConnection, ShardsMatchState joins
ClosedMeansNoShard, AwaitedCloseIsDone and OpenShardsAreCurrent, CallsInTurn
joins OneCallWorks and CloseKeepsClosing. TypeOK of the other modules is an
invariant to add to a run after a change; those of IdentifyCoordinator,
GatewayWriteQueue, ShardManager, GatewayResume and VoiceConnection are proved.

Why the bounds are enough. Every hazard of the Gateway session is between two
neighbours: one generation and the next, one lifetime and the next, an Open
and a Close. Two lifetimes and two generations contain each of these pairs,
also a lifetime with a reconnect (both generations in one lifetime) and a
Close between two Opens (one in each); the queue of events is not bounded. Two
users on one generation contain every overlap of Open and Close on one
connection. Three generations are needed for the resume data: two that leave
something behind and one that reads it; two sessions can be confused, and the
second dispatch makes "the last" different from "the first". The write queue
holds one packet more than the limit; three packets fill it with one more
waiting. The coordinator's two shards are in one bucket or in two, and its time covers one
reset of Discord's window with the coordinator's own after it, and an answer that
is given before the reset and stored after it. The manager's three callers are an Open, a Close
that interrupts it and one that waits for that Close; three lifetimes let an
old channel or flag meet a new lifetime twice.

Two requests contend for one Bucket, or one of them waits in Release for the
other's; one mapping and two buckets are the smallest maps that are full while
both are at work, and the time covers a bucket's expiry and the next cleanup.
Two retries of a request let the second one lock by other keys than the first.
Pairs of requests are all that the properties of RestRoutes speak of. A voice
scenario has a resume that is followed by a failure, two server updates at once,
or an end of the connection at any moment. Two users of a call are a committer
and one who is welcomed, with one to rejoin or rekey; three make commits compete
and have members who neither commit nor join. Things of a guild do not influence
each other except those with two ids of one kind (a list that is searched and
cut), channels and their messages or threads, members with presence and voice
state: each scenario of `MCBounds` has one such group.

Symmetry is used for the users of GatewaySession and the ids of EventDispatch, and
only in runs without liveness. Deadlock is checked for GatewaySession; elsewhere a
state in which the bounds are used up, or the generation has ended, has no
successor, and the liveness properties say that nobody is left waiting.

### Fairness

GatewaySession's `Fairness` and the other modules' `FairSpec` are weak fairness
of steps that goroutines take by themselves: a goroutine that can run does, a
handler of the program returns, a dial or a websocket write ends (finish closes
the websocket), timers fire. Nothing is assumed of the network or of the
program: no message must arrive, no HELLO and no READY, no loss must happen,
nobody must call Close or cancel a context. OpenWithContext has no timeout of its own
(HELLO and READY may stay out, 276 and 332, and connectGatewayUntilReady retries for
ever), so ShardManager's FairSpec lets a shard open or fail, but makes it return only
once its lifetime is cancelled (`openCancelled`), and CallsReturn claims the
return of every Close, and of an Open that is cancelled or whose shards have
returned. Go's scheduler gives a runnable
goroutine its turn, and `sync.Mutex` a starving one the lock, which is what weak
fairness asks for here. DaveSession's FairSpec has, besides the handlers, the voice
gateway's own steps: it delivers what it sent, asks for the changes it needs and
executes a transition that everybody is ready for. Joining, leaving, rekeying,
downgrading and upgrading are never required.

### What the violated properties show

Each of them is a behaviour of the code, step by step in TLC's trace. The first
is a run of `PROJECT.json`; for the others there is a .cfg to run by hand
(`tlc -config X.cfg M`).

* **SkippedReconnectHasOwner** (GatewayLostWakeup.cfg, MCGatewaySession): a
  generation is lost after the reconnect goroutine's success and before its
  deferred reset of gatewayReconnectRunning (916-926). startGatewayReconnect
  finds the flag set and returns; the goroutine ends; nobody reconnects.
* **StopOnlyWhenTerminal** (GatewayStopRace.cfg, MCGatewaySession): a reconnect
  receives READY and the connection is lost before activateGatewayGeneration
  runs. The activation fails, the attempt gets the action Stop (337-341), and the
  goroutine stops the lifetime: the bot stays offline although the loss asked for
  a Resume.
* **CancelledLifetimeReleased** (GatewayStuckLifetime.cfg, MCGatewaySession): the
  context is cancelled while the reconnect goroutine waits (935-937). It returns
  without stopping the lifetime; gatewayLifecycle stays set and every later Open
  returns ErrWSAlreadyOpen until somebody calls Close.
* **NoDoubleClose** with two users (GatewayCloseOpenRace.cfg, MCGatewaySession):
  closeGateway finds no generation, an Open begins one, closeGateway cleans up the
  fields of that Open by hand (1914-1927) and closes its stop channel; the
  generation's finish closes it again, which panics.
* **SequenceOfSession** (GatewayLateWriter.cfg, GatewayResume): a listener that is
  overtaken by the end of its generation stores its sequence, or READY's session,
  between the two reads of the next authentication; the Resume names one session
  and counts in another.
* **QuotaRespected** (IdentifyQuotaOverrun.cfg, IdentifyCoordinator): the first
  reset_after is taken for the length of Discord's window (sharding.go 123, 260). A
  coordinator created late in the window refills its quota every few moments and
  grants more starts than Discord does.
* **LostIsRecovered** (VoiceLostReconnect.cfg, MCVoiceConnection): a reconnect
  that finds `reconnecting` set returns (voice.go 1742-1766), also when the one
  that runs has just had its success and is about to clear it. The flag means
  that the connection "is trying to reconnect" (voice.go 52); here nobody does.
* **CloseClosesVoice** (VoiceLeftOpen.cfg, MCVoiceConnection): after close code
  4014 the connection is removed from the Session while a server update is being
  handled; the websocket and UDP connection that the update opens are then known
  to nobody, and Session.Close, which "closes the Gateway and every active Voice
  connection" (wsapi.go 1868), does not find them.
* **ThreadMembersAreMembers** (ThreadMembers.cfg, MCEventDispatch):
  ThreadMembersUpdate compares ThreadMember.ID, "The id of the thread"
  (structs.go 717), with the removed users (state.go 808-815), so that nobody is
  ever removed. Had the ids matched, deleting from the slice it ranges over would
  skip a member or panic.
* **GuildMeansMember** (GuildLeft.cfg, MCEventDispatch): onReady (state.go
  1090-1130) replaces the list of guilds but keeps the map, so that Guild still
  finds a guild that was left while the bot was not connected, although the
  method is "Useful for querying if @me is in a guild" (state.go 222-223). When
  the bot joins it again, GuildAdd updates the map's entry and never lists it.
* **ThreadsListed** (ThreadsListed.cfg, MCEventDispatch): a thread that is archived
  while the session is lost is not among the threads of the new session's
  GUILD_CREATE, but stays in channelMap. When it is unarchived, ChannelAdd finds it
  there, updates it and does not list it (state.go 664-676), so that Guild.Threads,
  "A list of all active threads" (structs.go 1039), lacks it.
* **EmojiFound** (EmojiFound.cfg, MCEventDispatch): Emoji looks in a map of the
  guild that GUILD_EMOJIS_UPDATE does not touch (state.go 864, 1223-1233); it
  misses new emojis and finds deleted ones.
* **PauseNotCutShort** (RestPauseCutShort.cfg, MCRestRequests): Release stores the
  end of a pause that a header told without looking at the one it replaces
  (ratelimit.go 462), where ApplyGlobalLimit only moves it forward. When two pauses
  follow each other and the header of the first is processed last, requests are
  let through while the second one lasts; PausesKept is what remains true.
* **NoLockCycle** (RestLockCycle.cfg, MCRestRequests): requests in Release can wait
  for each other's Bucket for ever. Release keeps its Bucket's lock (the deferred
  Unlock of 427) while it takes the canonical one's (494), and registerBucketHash
  files the hash under the route the Bucket was made for (508-519), whatever
  route the request has. Three routes are enough, where the first two share a hash
  and the second moves to the third's: the Bucket of the first hash was made
  for the first route, so that a request of the second registers the third's
  hash for the first route. From then on requests of the first route lock the
  third's Bucket and report the first hash, and requests of the second still hold
  the first's and report the third hash. Nothing ends the wait, as no
  context reaches Release, and every later request of these routes waits too,
  although "Release unlocks the bucket" (425). LocksAreHeld is what remains true.

Two more, seen in the same models and not run: openGatewayGeneration returns a
success left in `ready` without activating the generation when `conn.ctx` is
done (344-347), so that Open returns nil for a connection that is gone; and
heartbeats that Discord asks for are written past the queue and not counted
(454-475), so that the websocket carries more than the limit of packets in a
window.

Seen while modelling, without a run of their own:

* *State cache.* channelMap keeps the channels of a guild that was removed (which
  is why MapsAgree lets the map of channels have more than the list); a thread
  that was archived and not mentioned in THREAD_LIST_SYNC stays. The edit of a
  message that was evicted appends it again as the newest, with only the edited
  fields. PRESENCE_UPDATE adds partial members. OnInterface writes MemberCount and
  a member's user outside the lock (1168, 1374).
* *REST routes.* An id at the end of a bucket ID is left out together with its
  slash, so that the route has the key of the list it belongs to: GET of a message
  and of messages, of a member and of members, of a role, a sticker, an
  entitlement, an invite. Discord counts them apart, and the hash in each answer
  replaces the other's: such a bucket ID is `Absorbing`, and RightBucket makes it
  its only exception. `SplitRoutes` are the routes with more than one key: an edit
  of a webhook's message with files and without (3708-3714), UserChannelCreate and
  its group variant, templates and emojis by name. ApplicationCommands puts "GET "
  before its bucket ID, which makes a key of its own. A stage instance's channel
  is not a major parameter of its route.
* *Voice.* A late SESSION_DESCRIPTION of an old listener, or a RESUMED after the
  UDP connection was lost, sets Ready while no transport is there. Two server
  updates are handled by two goroutines and the older token may win (event.go 258,
  wsapi.go 1805). A reconnect joins again after a Disconnect that came meanwhile.
  A region change whose open fails leaves the connection without one.
* *DAVE.* Who joins a call while it is without DAVE has no DAVESession, and opcode
  24 is ignored without one (voice.go 2030): that user never gets keys. While the
  version is 0, RekeyDAVE and a recovery fail (mls/session.go 80).

## What is proved

| theorem | states | for |
|---|---|---|
| GatewaySessionProofs!Inductive | the inductive invariant IInv | any users, lifetimes, generations |
| GatewaySessionProofs!TypeCorrect | TypeOK | the same |
| GatewaySessionProofs!SingleGeneration | OneLiveGeneration | the same |
| GatewaySessionProofs!OrderHolds | the inductive invariant OrderInv | the same |
| GatewaySessionProofs!ReconnectsInOrder | ReconnectInOrder | the same |
| GatewaySessionProofs!CloseLeavesNothingBehind | CloseLeavesNothing | the same |
| GatewaySessionProofs!NothingStranded | NoStrandedEvent | the same |
| GatewaySessionProofs!DataReadyIsTrue | DataReadyMeansConnected | one user, any lifetimes, generations |
| GatewaySessionProofs!EventsInOrder | EventQueueInOrder | the same |
| GatewayResumeProofs!TypeCorrect | TypeOK | any generations, sessions, dispatches |
| GatewayResumeProofs!ResumesAreExact | ResumeExact | the same |
| GatewayResumeProofs!EndedIsNotResumed | EndedNotResumed | the same |
| GatewayResumeProofs!IdentifiesWhenEnded | IdentifyOnlyWhenEnded | the same |
| GatewayWriteQueueProofs!TypeCorrect | TypeOK | any packets, limit, window, time |
| GatewayWriteQueueProofs!RateRespected | WindowRespected | the same |
| GatewayWriteQueueProofs!NilIsTruthful | NilMeansSent | the same |
| IdentifyCoordinatorProofs!TypeCorrect | TypeOK | any shards, concurrencies, quota, periods and times |
| IdentifyCoordinatorProofs!Spacing | BucketsSpaced | the same |
| IdentifyCoordinatorProofs!QuotaIsAccounted | QuotaAccounted | the same, answers and delays |
| ShardManagerProofs!TypeCorrect | TypeOK | any callers, shards, number of Opens |
| ShardManagerProofs!ShardsFollowState | ShardsMatchState | the same |
| ShardManagerProofs!CallsTakeTurns | CallsInTurn | the same |
| RestRequestsProofs!CacheStaysConsistent | CacheConsistent | any requests, routes, hashes, limits, windows, time |
| RestRequestsProofs!LocksAreRespected | LocksAreHeld | the same |
| RestRequestsProofs!UnsafeTakesEffectOnce | UnsafeOnce | the same |
| RestRequestsProofs!PausesAreKept | PausesKept (an action property) | the same |
| RestRequestsProofs!BudgetIsKept | GlobalBudgetKept (RestRequests implements RateWindow) | the same |
| RestRequestsProofs!InvalidStaysInBudget | InvalidBudget | the same, finitely many requests |
| VoiceConnectionProofs!Inductive | the inductive invariant IInv | any websockets, server updates, scenarios |
| VoiceConnectionProofs!WebsocketsAccounted | NoWebsocketLost | the same |
| VoiceConnectionProofs!AcksAreOurs | AwaitedAckIsOurs | the same |
| VoiceConnectionProofs!ResumesOnce | ResumeOnce | the same |
| VoiceConnectionProofs!LossesAreTakenOver | LostIsTakenOver | the same |
| EventDispatchProofs!OnceHandlersOnce | OnceOnly | any handlers, dispatchers, events |
| EventDispatchProofs!RemovedAreNotCalled | RemovedNotCalled | the same |
| EventDispatchProofs!CacheMirrors | Mirrors | any finite set of guilds, any ids, versions, changes and streams |
| EventDispatchProofs!MapsStayTied | MapsAgree | the same |

The assumptions are those of the modules: bounds, limits and windows are positive,
no request is called 0 (NoBucket), users are not numbers of generations, the
warning threshold is not beyond the limit, a voice scenario opens no more
websockets than there are numbers for, a cache has finitely many guilds and keeps
at least one message per channel (0 keeps none, and then there is nothing to say
of them). Callers, packets, shards, requests and routes may be any sets, also
infinite ones. Two theorems have a hypothesis beyond these: `OneUser`, below, and
`IsFiniteSet(Requests)` for InvalidStaysInBudget, which speaks of the number of
requests.

Each module of proofs has an inductive invariant, the facts about steps that its
lemmas share (which fields an action can disturb), and one lemma per part of the
invariant or per kind of step. TLC has checked the inductive invariants on the
instances of the runs (except `Budget` of RestRequestsProofs, which quantifies
over all integers; of `CInv`, with the one history that `Stages` admits).

**GatewaySession, one generation.** OneLiveGeneration says that
`gatewayConnection = g` exactly while g was begun and its finish or abort has not
run. It is not inductive, for an aborted generation: abort clears
gatewayConnection but neither wsConn nor connected, which is right only because a
generation that is aborted has not been attached. So IInv adds

* `Placement`: a goroutine that holds a generation holds one that was begun, one
  that holds a lifetime holds a real one, and a generation that was not begun is
  untouched;
* `Attachment`: an opener before attachGatewayWebsocket has no websocket, one
  after it has, and a connected generation has one;
* `OpenerOwnsGeneration`: two openers never open the same generation, so that
  no other goroutine attaches the one that an opener is about to abort.

Each action has a lemma that it keeps `CoreInv` (types, Placement,
OneLiveGeneration); actions that neither begin nor attach a generation keep the
rest for one common reason (`QuietKeeps`), and those two have lemmas of their own
(`BeginOwns`, `AttachOwns`). NextIInv puts them together.

**GatewaySession, order.** The second half of the module; Order is
inductive relative to IInv. Its heart is `Working`: a goroutine that tries for
the current lifetime and has no success yet (`TriesFor`) is alone in that, no
finish is about to start a reconnect (`Pending`), and the only generation that
can be current is the one it opens, not yet connected; and a pending finish is
alone in its turn while nothing is current. So the lifetime always has at most one
goroutine in charge of it: the opener hands over to the generation it activates,
the generation's finish to the reconnect goroutine, which is the next opener.
AtMostOneReconnector follows from the flag, StopFindsNoConnection from Working.
`Draining` says who owes the events: whoever is about to drain, or the goroutine
that is handing one out, of which there is one exactly while `dispatching` is
set. `Ending` says that a Close has taken its lifetime away for good, and that the
one generation that may be left of it is the one this Close is going to finish;
what has been finished, OneLiveGeneration excludes.

DataReadyMeansConnected and EventsAlternate are proved for a program that opens
and closes from one goroutine (`OneUser`; reconnects, listeners, heartbeats and
watchers as many as there are), and with two they do not hold: closeGateway's path
for Sessions without a generation then cleans up the fields of a generation that
an Open has just begun, the race that NoDoubleClose shows. SoleInv says why one
goroutine is enough: it is never on that path while a generation lives
(`Compatible`), so wsConn and DataReady follow the generation (`FieldsFollow`,
DataReady exactly its connected mark);
`Chained` and `Told` say that the queue, from the event that was handed out last
to the last one in it, alternates and ends with what the generation's connected
mark says. With several goroutines that open and close, ReconnectInOrder,
CloseLeavesNothing and NoStrandedEvent still hold.

**GatewayResume.** The properties are about openers whose predecessors rest
(`Quiet`), but a state that is not quiet does not become quiet again for the
generations it has: if a step ends in a quiet state, it began in one
(`QuietBefore`). So the invariant can be conditional: `Data` says, as long as it
is quiet, what is stored when nobody is about to write (`Kept`: the sequence is
the last one stored in the session, whose end nobody has heeded (`Heeded` is
`givenUp` without `unheeded`), and every other session was ended), what the opener has read of it, and for each place in the listener how far
the store is behind the websocket (`Stores`, `Readies`, `Clears`).

**GatewayWriteQueue.** WindowRespected speaks of all packets ever sent, but
waitForSlot looks at the few times in sentAt. `Bookkeeping` connects them: each of
the last packets has a time in sentAt that is not before it left, and whatever
was dropped from sentAt left at least a window ago. NilMeansSent follows a packet
(`Passage`): it is in the queue, in the writer's hand or on the wire, never in
two of them, and once in each.

**IdentifyCoordinator.** IInv has TypeOK, `GateBeyondGrants` (the gate of a
bucket is Window after every grant of it), BucketsSpaced, `DiscordWindow` (no answer, and no quota, was told for
a window of Discord that has not begun), `AnswersAccounted` (what QuotaAccounted
says, of the answers under way: the Acquires granted since count in `granted`, a
reset only lowers Discord's count) and QuotaAccounted. A grant is at or after its gate, hence Window after every earlier grant, and sets
the gate Window after itself; a Refresh that regroups the shards starts both
afresh.

**ShardManager.** `Turns`: one Open and one Close may be under way together, and
then the Close waits for the channel of that Open and has not touched the shards.
`Lifetimes`: the fields and the channels belong to the last Open, so that a channel
that is closed ends the wait of that lifetime and of no other. `Cleaning`: which
shards are closed by when, in particular that `cleanupCompleted` is false from
beginOpen to the cleanup of the same lifetime.

**RestRequests.** Six invariants that need each other only in the types.
`Once`: an unsafe request that took effect is past the attempt, with a response
that allows no retry, or over. `PauseCovered`: global is no earlier than what was
told, and a response that is still to be processed will not set it earlier than
what it told. `Reachable`: the cache is within its bounds and every mapping leads
to a bucket (`getBucket`, `makeBucketRoom`, the cleanup and `registerBucketHash`
have a lemma each), and what a request holds is on the heap. A retry locks by the
keys of the Bucket it had (`LocksByKeys` types them), which need not be its route's. `Locks`: a Bucket that
is locked belongs to the request that works with it, and the canonical Bucket of a
request in Release is another one than its own; the garbage takes no Bucket in
use (`LiveOwned`), and a new Bucket has an id of its own, as a finite heap has
fewer than the numbers FreshBucket chooses from (`FreshIsNew`). `Budget` accounts for
the grants of the last window's time: they lie in the limiter's current window or
in the two before it, which began at least a window apart, with at most the
budget in each. That is the refinement mapping's obligation: a grant finds fewer
than three budgets in RateWindow's set, and time passing only drops grants
from it. `Blockable` counts the invalid responses in the window together with the
requests that may still add one (`Due`: past the check of the limit, or retrying,
which looks at the window before the retry's lock): a check below the limit lets
one more request be due, so the sum stays below the limit plus the number of
requests. Pruning only shortens the window and disarms the warning where it falls
below the threshold (`Pruned`).

**VoiceConnection.** `Roles` says who runs when: an opener opens one websocket and
has ended before its listener starts, a listener before the resume that it starts;
every websocket has an opener of its own. NoWebsocketLost is inductive with it: who
takes the websocket away is noted in the step that clears the field, and the note
goes in the step that closes it. `Confirmed`: a resume that was not
confirmed has no resume and none to come. `Awaited` is stronger than
LostIsTakenOver: while a loss is open there is a reconnect that was asked for, a
resume that has not installed its websocket or could not keep it, or a listener in
its close handling;
the loop of a reconnect and a resume in its handshake are not needed as
witnesses, as both have closed or replaced what was lost.

**EventDispatch, the handlers.** `RInv`: the lists of the registry hold each
handler that was added and not removed, once (`Listed`); a once handler that is
yet to be called is in one place only, its list or one snapshot of one dispatcher
(`Single`), which is what two dispatchers that take their snapshots at the same
time have to agree on; and no snapshot has a handler that was removed before its
event (`Removed`). What removeEventHandlerInstance leaves of a list is a lemma of
its own (`RemoveFirstParts`), and so is what the two lists of a snapshot make
together (`JoinedHolds`).

**EventDispatch, the cache.** Mirrors speaks of the moment when the stream is
empty, and a cache that is behind by some events mirrors nothing. So the
invariant `CInv` looks ahead: there is a history of the cache, one stage for each
event still under way (`Stages`), and the *last* stage mirrors Discord
(`Mirrored`) for each guild the bot is in, if it is connected. Every stage is
`Sound`: members are in the map exactly as in the list, roles as long as the guild
is known and available, channels as far as they are listed, and the channel maps
hold nothing that Discord never had. Under LeavesAreTold every guild in the last
stage is one the bot is in, listed and counted (`Tallies`). Handling an event drops
the first stage; something that happens at Discord adds one or none. So each kind
of event has a lemma (`...Step`: a cache that shows a guild as it was shows it, after
the event, as it is), which follows the handler of state.go over the slots it
writes, and each action has one (`...Kept`) that puts it behind the last stage. A
READY starts from any sound cache, which is why a lost session, with whatever it
had in its stream, does no lasting harm to an available guild (`SessionFollowed`).
Mirrors and MapsAgree are what the last and the first stage say when no event is
under way, or of the cache as it is.

**Only model-checked**, and why:

* CancelReleases, CloseReturns, CancelStops, CallsReturn and Converges: liveness
  is out of the prover's reach, as is anything that needs ENABLED.
* RightBucket and IdsShareBuckets: one enumeration of some 230 routes, which TLC
  does completely for any two requests; there is no step to reason about.
* DaveSession (Agreement, PendingIsStored, KeyIsCurrent, KeyOnce): they rest on
  what all messages in all queues between the users and the voice gateway say
  of one another; see the plan.

The types of RestRequests and EventDispatch have no theorem of their own: what
the proofs need of them is in `Typed` and `Reachable` there, in `RegistryTyped`,
`DiscordTyped` and `Stages` here. TypeOK of VoiceConnection is part of its IInv.

## Limits of the models

* RestRequests lets Discord move a route only to a larger hash, so that two routes
  never exchange theirs; one move is enough for what NoLockCycle shows. Malformed
  headers, bodies that cannot be read and the warning event are left out.
* RestRoutes knows one path per request: an id that is escaped to more than one
  segment is left out, and so are functions that only call others.
* VoiceConnection leaves out what packets contain, opusSender and udpKeepAlive
  (they only write), speaking updates, metrics and the sequence of binary
  messages. Its DAVE failures only decide whether a session description is heeded. An opus receiver that blocks because nobody reads is a delay.
* DaveSession starts every user in a call with DAVE. Frames, their nonces
  (dave.go 507) and the sequence of binary messages (voice.go 1179) are left out:
  arithmetic of one function each. Discord never uses transition 0 twice. Of the frames
  only the first that a user hears of another matters, which makes a receiver.
* EventDispatch has one guild in its run; all events of a stream arrive in order,
  as on one websocket.
* GatewaySession does not follow handlers that call Open or Close themselves
  from inside finish; a handler is a delay.
* A Close while READY is processed is followed in GatewayResume (the session is
  cleared by Close and then stored by the listener), where it counts as late.
* Discord is as hostile as its protocol allows in GatewayResume: it may have
  forgotten a session and refuse any Resume; the refusal is then a loss with
  any recovery.
* IdentifyCoordinator keeps `total` constant, Discord's answers are those of one that
  was not asked for more than it gives (`started <= Total`), and a session counts as started
  when Acquire returns, not when Discord sees the Identify.
* writeGatewayCurrent's path for a Session that was assembled by hand without a
  generation is not modelled, except for what closeGateway does with one.

## Not modelled

* The Gateway's heartbeat times and the member-request cooldown: a comparison of
  two times, and a check and an entry under one lock. GatewaySession lets the
  heartbeat fail at any moment.
* Data types and wire formats (`structs.go`, `components.go`, `message.go`,
  `interactions.go`, `events.go`, `user.go`, the generated handler types of
  `eventhandlers.go`), `mls.go` and `mls_internal.go`: encoding, decoding and
  hashing without state between calls.
* Constructors, logging, redaction, locales, versions and the code generator.

## Plan

1. Proofs: PendingIsStored and KeyIsCurrent of DaveSession, then Agreement, for
   which the invariant has to say, of each user, what its queue may still bring
   and that what it has stored, handled and still to read of a commit is the same
   for all of them.
2. An abstract `Connection` (closed, opening, open, lost) that GatewaySession
   implements, and the shard manager over it.
3. The permission queries of the state and of restapi.go (1193) against Discord's
   rules, as operators over bounded guilds.
