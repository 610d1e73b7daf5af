------------------------------ MODULE DaveSession ------------------------------
(***************************************************************************)
(* DAVE, the end-to-end encryption of a voice call (dave.go and the DAVE   *)
(* handlers of voice.go): each user of the call runs a DAVESession over an *)
(* MLS GroupSession, and follows the messages of the voice gateway.        *)
(*                                                                         *)
(* The gateway is external. It delivers messages to a user, and takes the  *)
(* user's, in order. While no transition is under way it proposes to add   *)
(* and remove users, accepts the first commit that makes the change, and   *)
(* starts a transition that is executed when every user of the new group   *)
(* is ready for it. The initial transition is 0 and executed at once; no   *)
(* other transition has this id. When a client without DAVE joins, a       *)
(* transition to version 0 ends encryption; when it left, a new group is   *)
(* formed; or it announces, now and then, an epoch that changes nothing.   *)
(* Crypto is left out: a key is the group state it is exported from, and   *)
(* of the frames only the first that a user hears of another matters.      *)
(***************************************************************************)
EXTENDS MlsGroup, Integers, FiniteSets, SequencesExt, Functions

CONSTANTS
    Users,
    Bounds              \* scenarios: what each user may still do

ASSUME DaveAssumption ==
    /\ IsFiniteSet(Users)
    /\ Bounds \subseteq [{"connect", "rekey", "leave", "downgrade", "announce", "frame"}
                            -> [Users -> Nat]]

VARIABLES
    call,               \* users in the call
    dave,               \* of each user: the DAVESession
    mls,                \* of each user: its GroupSession
    recognized,         \* of each user: the voice roster
    inbox, outbox,      \* of each user: messages from and to the gateway
    unsent,             \* of each user: what its listener, its program has yet to send
    gateway,            \* what the gateway knows
    left,               \* what is left of the bounds
    derived             \* history: the groups each user derived sender keys from

vars == <<call, dave, mls, recognized, inbox, outbox, unsent, gateway, left, derived>>

NoTransition == -1
Nobody == [u \in Users |-> {}]
NoReceivers == [u \in Users |-> NoGroup]
Senders == {"listener", "program"}
NothingUnsent == [by \in Senders |-> << >>]

NewDAVESession ==
    [protocol |-> 1, pending |-> NoTransition, version |-> 0, last |-> NoTransition, hasPendingKey |-> FALSE,
     active |-> FALSE, senderKey |-> NoGroup, receivers |-> NoReceivers]

Init ==
    /\ call = {} /\ recognized = Nobody /\ derived = Nobody
    /\ dave = [u \in Users |-> NewDAVESession]
    /\ mls = [u \in Users |-> NewGroupSession(<<u, 0>>)]
    /\ inbox = [u \in Users |-> << >>] /\ outbox = [u \in Users |-> << >>]
    /\ unsent = [u \in Users |-> NothingUnsent]
    /\ gateway = [kps |-> {}, group |-> NoGroup, asked |-> Nobody, anew |-> {}, version |-> 1,
                  transition |-> NoTransition, waiting |-> {}, next |-> 0]
    /\ left \in Bounds

-----------------------------------------------------------------------------
(* DAVESession.                                                            *)
clearMediaState(d) ==
    [d EXCEPT !.active = FALSE, !.senderKey = NoGroup, !.hasPendingKey = FALSE,
              !.receivers = NoReceivers]

(* Mutant: the keys are kept.                                              *)
ResetForReWelcomeMutant(d) == [d EXCEPT !.pending = NoTransition]
(* clearPendingTransitionLocked leaves the last transition. The group can  *)
(* only be reset while the call has DAVE.                                  *)
MayReset(d) == d.protocol = 1
ResetForReWelcome(d) == [clearMediaState(d) EXCEPT !.pending = NoTransition]

(* The new epoch's key is pending, and what receivers there were are       *)
(* forgotten.                                                              *)
(* Mutant: the receivers of the epoch before are kept.                     *)
NewEpochMutant(d) == [d EXCEPT !.hasPendingKey = TRUE]
NewEpoch(d) == [d EXCEPT !.hasPendingKey = TRUE, !.receivers = NoReceivers]

MayPrepare(d, t, version) ==
    d.last # t /\ d.pending \in {NoTransition, t} /\ (version > 0 => d.hasPendingKey)

HandlePrepareTransition(d, t, version) == [d EXCEPT !.pending = t, !.version = version]

(* Mutant: only a repeated transition is refused.                          *)
MayExecuteMutant(d, t) == d.last # t
MayExecute(d, t) == d.pending = t /\ (d.version > 0 => d.hasPendingKey)

HandleExecuteTransition(d, t, s) ==
    LET media == IF d.version = 0 THEN clearMediaState(d)
                 ELSE [d EXCEPT !.senderKey = s.group, !.hasPendingKey = FALSE, !.active = TRUE]
    IN  [media EXCEPT !.protocol = d.version, !.pending = NoTransition, !.last = t]

-----------------------------------------------------------------------------
(* The handlers of a user for the gateway's messages. What they send is    *)
(* sent message by message, after the session's lock is released.          *)
Send(u, msgs) == unsent' = [unsent EXCEPT ![u].listener = @ \o msgs]
KeyPackage(kp) == [type |-> "keyPackage", kp |-> kp]

(* Mutant: the new key package is not sent.                                *)
recoverDAVEGroupMutant(u, t, d, s) ==
    /\ mls' = [mls EXCEPT ![u] = Reset(s)]
    /\ dave' = [dave EXCEPT ![u] = ResetForReWelcome(d)]
    /\ Send(u, <<[type |-> "invalid", transition |-> t]>>)
    /\ UNCHANGED derived

(* recoverDAVEGroup, with what the failure left of session and group.      *)
recoverDAVEGroup(u, t, d, s) ==
    LET invalid == [type |-> "invalid", transition |-> t] IN
    /\ UNCHANGED derived
    /\ IF MayReset(d)
       THEN /\ mls' = [mls EXCEPT ![u] = Reset(s)]
            /\ dave' = [dave EXCEPT ![u] = ResetForReWelcome(d)]
            /\ Send(u, <<invalid, KeyPackage(Reset(s).kp)>>)
       ELSE /\ mls' = [mls EXCEPT ![u] = s]
            /\ dave' = [dave EXCEPT ![u] = d]
            /\ Send(u, <<invalid>>)

(* A commit or a Welcome (result) opened a new epoch: opcodes 29 and 30.   *)
NewEpochHandled(u, t, result) ==
    LET d == NewEpoch(dave[u]) IN
    IF ~result.ok THEN recoverDAVEGroup(u, t, dave[u], result.session)
    ELSE IF ~MayPrepare(d, t, 1) THEN recoverDAVEGroup(u, t, d, result.session)
    ELSE /\ mls' = [mls EXCEPT ![u] = result.session]
         /\ IF t = 0
            THEN /\ dave' = [dave EXCEPT ![u] = HandleExecuteTransition(
                                HandlePrepareTransition(d, t, 1), t, result.session)]
                 /\ derived' = [derived EXCEPT ![u] = @ \cup {result.session.group}]
                 /\ UNCHANGED unsent
            ELSE /\ dave' = [dave EXCEPT ![u] = HandlePrepareTransition(d, t, 1)]
                 /\ Send(u, <<[type |-> "ready", transition |-> t]>>)
                 /\ UNCHANGED derived

HandleCommit(u, m) ==
    NewEpochHandled(u, m.transition, ProcessCommit(mls[u], m.commit, recognized[u]))

HandleWelcome(u, m) ==
    NewEpochHandled(u, m.transition, ProcessWelcome(mls[u], m.group, recognized[u]))

HandleProposals(u, m) ==
    LET result == ProcessProposals(mls[u], m.op, m.epoch, m.proposals, recognized[u]) IN
    /\ mls' = [mls EXCEPT ![u] = result.session]
    /\ IF result.commit = << >> THEN UNCHANGED unsent
       ELSE Send(u, <<[type |-> "commit", commit |-> result.commit[1]]>>)
    /\ UNCHANGED <<dave, derived>>

HandleExternalSenderPackage(u, m) ==
    /\ mls' = [mls EXCEPT ![u] = SetExternalSender(mls[u])]
    /\ UNCHANGED <<dave, derived, unsent>>

handleDAVEExecuteTransition(u, m) ==
    /\ IF MayExecute(dave[u], m.transition)
       THEN /\ dave' = [dave EXCEPT ![u] = HandleExecuteTransition(@, m.transition, mls[u])]
            /\ derived' = IF dave[u].version = 0 THEN derived
                          ELSE [derived EXCEPT ![u] = @ \cup {mls[u].group}]
       ELSE UNCHANGED <<dave, derived>>
    /\ UNCHANGED <<mls, unsent>>

(* Opcode 21. Transition 0 is executed at once.                            *)
handleDAVEPrepareTransition(u, m) ==
    LET d == HandlePrepareTransition(dave[u], m.transition, m.version) IN
    /\ IF ~MayPrepare(dave[u], m.transition, m.version) THEN UNCHANGED <<dave, unsent, derived>>
       ELSE IF m.transition = 0
       THEN /\ dave' = [dave EXCEPT ![u] = HandleExecuteTransition(d, 0, mls[u])]
            /\ derived' = IF m.version = 0 THEN derived
                          ELSE [derived EXCEPT ![u] = @ \cup {mls[u].group}]
            /\ UNCHANGED unsent
       ELSE /\ dave' = [dave EXCEPT ![u] = d]
            /\ Send(u, <<[type |-> "ready", transition |-> m.transition]>>)
            /\ UNCHANGED derived
    /\ UNCHANGED mls

(* Opcode 24. Epoch 1 is a new group, or no group when the version is 0.   *)
handleDAVEPrepareEpoch(u, m) ==
    LET d == [dave[u] EXCEPT !.protocol = m.version] IN
    /\ IF m.epoch = 1 /\ m.version = 1
       THEN /\ mls' = [mls EXCEPT ![u] = Reset(@)]
            /\ dave' = [dave EXCEPT ![u] = ResetForReWelcome(d)]
            /\ Send(u, <<KeyPackage(Reset(mls[u]).kp)>>)
       ELSE /\ dave' = [dave EXCEPT ![u] = IF m.epoch = 1 THEN ResetForReWelcome(d) ELSE d]
            /\ UNCHANGED <<mls, unsent>>
    /\ UNCHANGED derived

(* onEventForGeneration and handleDAVEBinary: one message at a time.       *)
Handle(u) ==
    /\ unsent[u].listener = << >>
    /\ inbox[u] # << >> /\ inbox' = [inbox EXCEPT ![u] = Tail(@)]
    /\ LET m == Head(inbox[u]) IN
       \/ m.type = "sender" /\ HandleExternalSenderPackage(u, m) /\ UNCHANGED recognized
       \/ m.type = "proposals" /\ HandleProposals(u, m) /\ UNCHANGED recognized
       \/ m.type = "commit" /\ HandleCommit(u, m) /\ UNCHANGED recognized
       \/ m.type = "welcome" /\ HandleWelcome(u, m) /\ UNCHANGED recognized
       \/ m.type = "execute" /\ handleDAVEExecuteTransition(u, m) /\ UNCHANGED recognized
       \/ m.type = "prepare" /\ handleDAVEPrepareTransition(u, m) /\ UNCHANGED recognized
       \/ m.type = "epoch" /\ handleDAVEPrepareEpoch(u, m) /\ UNCHANGED recognized
       \/ /\ m.type = "roster" /\ recognized' = [recognized EXCEPT ![u] = m.users \cup {u}]
          /\ UNCHANGED <<dave, mls, derived, unsent>>
    /\ UNCHANGED <<call, outbox, gateway, left>>

SendNext(u) ==
    /\ \E by \in Senders :
          /\ unsent[u][by] # << >> /\ unsent' = [unsent EXCEPT ![u][by] = Tail(@)]
          /\ outbox' = [outbox EXCEPT ![u] = Append(@, Head(unsent[u][by]))]
    /\ UNCHANGED <<call, dave, mls, recognized, inbox, gateway, left, derived>>

Use(what, u) == left[what][u] > 0 /\ left' = [left EXCEPT ![what][u] = @ - 1]

(* RekeyDAVE, by the program at any time: it resets, then sends, while the *)
(* listener goes on. Without DAVE it does nothing.                         *)
RekeyDAVE(u) ==
    /\ u \in call /\ MayReset(dave[u]) /\ Use("rekey", u) /\ unsent[u].program = << >>
    /\ mls' = [mls EXCEPT ![u] = Reset(@)]
    /\ dave' = [dave EXCEPT ![u] = ResetForReWelcome(@)]
    /\ unsent' = [unsent EXCEPT ![u].program = <<KeyPackage(Reset(mls[u]).kp)>>]
    /\ UNCHANGED <<call, recognized, inbox, outbox, gateway, derived>>

(* DecryptFrame, by the UDP receiver: the first frame heard of a sender    *)
(* makes its receiver, from the group as it is now.                        *)
DecryptFrame(u, sender) ==
    /\ {u, sender} \subseteq call /\ u # sender /\ Use("frame", u)
    /\ dave[u].active /\ dave[u].receivers[sender] = NoGroup
    /\ dave' = [dave EXCEPT ![u].receivers[sender] = mls[u].group]
    /\ UNCHANGED <<call, mls, recognized, inbox, outbox, unsent, gateway, derived>>

-----------------------------------------------------------------------------
(* The voice gateway.                                                      *)
Deliver(msgs) == inbox' = [u \in Users |-> inbox[u] \o msgs[u]]
ToAll(m) == Deliver([x \in Users |-> IF x \in call THEN <<m>> ELSE << >>])
Known(u) == {kp \in gateway.kps : kp[1] = u}

(* A user joins: session description, external sender, rosters. Who joins  *)
(* a call without DAVE has no DAVESession, and gets none when it upgrades. *)
Connect(u) ==
    /\ u \notin call /\ gateway.version = 1 /\ Use("connect", u)
    /\ call' = call \cup {u}
    /\ dave' = [dave EXCEPT ![u] = NewDAVESession]
    /\ LET kp == <<u, mls[u].kp[2] + 1>> IN
       /\ mls' = [mls EXCEPT ![u] = NewGroupSession(kp)]
       /\ outbox' = [outbox EXCEPT ![u] = <<KeyPackage(kp)>>]
       /\ unsent' = [unsent EXCEPT ![u] = NothingUnsent]
    /\ recognized' = [recognized EXCEPT ![u] = call']
    /\ Deliver([x \in Users |->
           IF x = u THEN <<[type |-> "sender"]>>
           ELSE IF x \in call THEN <<[type |-> "roster", users |-> call']>> ELSE << >>])
    /\ UNCHANGED <<gateway, derived>>

Disconnect(u) ==
    /\ u \in call /\ inbox[u] = << >> /\ outbox[u] = << >>
    /\ unsent[u] = NothingUnsent /\ Use("leave", u)
    /\ call' = call \ {u}
    /\ dave' = [dave EXCEPT ![u] = NewDAVESession]
    /\ gateway' = [gateway EXCEPT !.kps = @ \ Known(u), !.waiting = @ \ {u}]
    /\ Deliver([x \in Users |->
           IF x \in call' THEN <<[type |-> "roster", users |-> call']>> ELSE << >>])
    /\ UNCHANGED <<mls, recognized, outbox, unsent, derived>>

(* What the gateway asks of each user: everybody to add the others to his  *)
(* own group, or the members of the group to change it.                    *)
Initial == gateway.group.members \cap gateway.kps = {}
Changes ==
    LET g == gateway.group.members IN
    IF Initial
    THEN [u \in Users |-> IF Known(u) = {} THEN {}
                          ELSE {<<"add", kp>> : kp \in gateway.kps \ Known(u)}]
    ELSE [u \in Users |-> IF Known(u) = {} \/ Known(u) \cap g = {} THEN {}
                          ELSE {<<"add", kp>> : kp \in gateway.kps \ g}
                                   \cup {<<"remove", kp>> : kp \in g \ gateway.kps}]
BaseEpoch == IF Initial THEN 0 ELSE Epoch(gateway.group)

(* Proposals already made and no longer wanted are revoked first; who sent *)
(* a key package has a new group, and is asked for everything anew.        *)
Ask ==
    /\ gateway.transition = NoTransition /\ gateway.version = 1
    /\ Changes # gateway.asked \/ \E u \in gateway.anew : Changes[u] # {}
    /\ gateway' = [gateway EXCEPT !.asked = Changes, !.anew = {}]
    /\ LET Proposals(u, op, set) ==
               IF set = {} THEN << >>
               ELSE <<[type |-> "proposals", op |-> op, epoch |-> BaseEpoch,
                       proposals |-> set]>>
       IN  Deliver([u \in Users |->
               Proposals(u, "revoke", gateway.asked[u] \ Changes[u])
                   \o Proposals(u, "append",
                                IF u \in gateway.anew THEN Changes[u]
                                ELSE Changes[u] \ gateway.asked[u])])
    /\ UNCHANGED <<call, dave, mls, recognized, outbox, unsent, left, derived>>

(* A commit that makes the change asked for is announced.                  *)
Accepts(u, c) ==
    /\ gateway.transition = NoTransition /\ gateway.version = 1 /\ gateway.asked[u] # {}
    /\ c.proposals = gateway.asked[u] /\ c.by \in gateway.kps
    /\ IF Initial THEN c.base = Own(c.by) ELSE c.base = gateway.group

Announce(u, c) ==
    LET g == Applied(c)
        t == gateway.next
        UsersOf(kps) == {kp[1] : kp \in kps}
        committed == IF Initial THEN {u} ELSE UsersOf(c.base.members \cap g.members)
        welcomed == UsersOf(g.members) \ committed
    IN  /\ gateway' = [gateway EXCEPT !.group = g, !.asked = Nobody, !.next = @ + 1,
                           !.transition = IF t = 0 THEN NoTransition ELSE t,
                           !.waiting = IF t = 0 THEN {} ELSE UsersOf(g.members) \cap call]
        /\ Deliver([x \in Users |->
               IF x \notin call THEN << >>
               ELSE IF x \in committed THEN <<[type |-> "commit", transition |-> t, commit |-> c]>>
               ELSE IF x \in welcomed THEN <<[type |-> "welcome", transition |-> t, group |-> g]>>
               ELSE << >>])

GatewayReceives(u) ==
    /\ outbox[u] # << >> /\ outbox' = [outbox EXCEPT ![u] = Tail(@)]
    /\ LET m == Head(outbox[u]) IN
       \/ /\ m.type = "keyPackage" /\ UNCHANGED inbox
          /\ gateway' = [gateway EXCEPT !.kps = (@ \ Known(u)) \cup {m.kp},
                                             !.anew = @ \cup {u}]
       \/ /\ m.type \in {"ready", "invalid"} /\ UNCHANGED inbox
          /\ gateway' = IF m.transition # gateway.transition THEN gateway
                        ELSE [gateway EXCEPT
                                 !.waiting = @ \ {u},
                                 !.kps = IF m.type = "ready" THEN @ ELSE @ \ Known(u)]
       \/ m.type = "commit" /\ IF Accepts(u, m.commit) THEN Announce(u, m.commit)
                               ELSE UNCHANGED <<inbox, gateway>>
    /\ UNCHANGED <<call, dave, mls, recognized, unsent, left, derived>>

Execute ==
    /\ gateway.transition # NoTransition /\ gateway.waiting = {}
    /\ gateway' = [gateway EXCEPT !.transition = NoTransition]
    /\ ToAll([type |-> "execute", transition |-> gateway.transition])
    /\ UNCHANGED <<call, dave, mls, recognized, outbox, unsent, left, derived>>

(* A client without DAVE joins the call of u, and leaves it. The gateway   *)
(* prepares a transition, 0 if it is the first, or an epoch without DAVE.  *)
Downgrade(u) ==
    /\ u \in call /\ gateway.version = 1 /\ gateway.transition = NoTransition
    /\ Use("downgrade", u)
    /\ \/ LET t == gateway.next IN
          /\ gateway' = [gateway EXCEPT !.version = 0, !.next = @ + 1, !.asked = Nobody,
                             !.transition = IF t = 0 THEN NoTransition ELSE t,
                             !.waiting = IF t = 0 THEN {} ELSE call]
          /\ ToAll([type |-> "prepare", transition |-> t, version |-> 0])
       \/ /\ gateway' = [gateway EXCEPT !.version = 0, !.asked = Nobody]
          /\ ToAll([type |-> "epoch", epoch |-> 1, version |-> 0])
    /\ UNCHANGED <<call, dave, mls, recognized, outbox, unsent, derived>>

Upgrade ==
    /\ gateway.version = 0 /\ gateway.transition = NoTransition
    /\ gateway' = [gateway EXCEPT !.version = 1, !.kps = {}, !.group = NoGroup]
    /\ ToAll([type |-> "epoch", epoch |-> 1, version |-> 1])
    /\ UNCHANGED <<call, dave, mls, recognized, outbox, unsent, left, derived>>

(* An epoch other than 1 is announced to u.                                *)
AnnounceEpoch(u) ==
    /\ u \in call /\ Use("announce", u)
    /\ Deliver([x \in Users |->
           IF x = u THEN <<[type |-> "epoch", epoch |-> 2, version |-> gateway.version]>>
           ELSE << >>])
    /\ UNCHANGED <<call, dave, mls, recognized, outbox, unsent, gateway, derived>>

Next ==
    \/ \E u \in Users : \/ Handle(u) \/ SendNext(u) \/ RekeyDAVE(u) \/ GatewayReceives(u)
                        \/ Connect(u) \/ Disconnect(u) \/ Downgrade(u) \/ AnnounceEpoch(u)
    \/ \E u, sender \in Users : DecryptFrame(u, sender)
    \/ Ask \/ Execute \/ Upgrade

Spec == Init /\ [][Next]_vars
FairSpec ==
    /\ Spec /\ WF_vars(Ask) /\ WF_vars(Execute)
    /\ \A u \in Users : WF_vars(Handle(u)) /\ WF_vars(SendNext(u)) /\ WF_vars(GatewayReceives(u))

-----------------------------------------------------------------------------
TypeOK ==
    /\ call \subseteq Users /\ recognized \in [Users -> SUBSET Users]
    /\ \A u \in Users :
          /\ dave[u].pending \in Nat \cup {NoTransition}
          /\ dave[u].last \in Nat \cup {NoTransition}
          /\ mls[u].kp[1] = u /\ mls[u].group.members \subseteq Users \X Nat
          /\ dave[u].active <=> dave[u].senderKey # NoGroup
          /\ mls[u].established => mls[u].created

(* Users who encrypt after the same transition encrypt with keys of the    *)
(* same epoch, and what one sends the other decrypts: a receiver has the   *)
(* sender's key, unless its user opened the next epoch already (a receiver *)
(* made between the commit and the transition has that epoch's key).       *)
Agreement ==
    \A u, w \in call :
        dave[u].active /\ dave[w].active /\ dave[u].last = dave[w].last
            => /\ dave[u].senderKey = dave[w].senderKey
               /\ \/ dave[u].hasPendingKey
                  \/ dave[u].receivers[w] \in {NoGroup, dave[w].senderKey}

(* The group that a commit is applied to is the one its proposals are      *)
(* stored in, whatever failed before (session.go:224, 368).                *)
PendingIsStored ==
    \A u \in Users : mls[u].pending # NoPending =>
        /\ mls[u].group = mls[u].pending.group
        /\ mls[u].proposals = mls[u].pending.proposals

(* Frames are encrypted with the key of the group, unless a newer epoch    *)
(* waits for its transition.                                               *)
KeyIsCurrent ==
    \A u \in Users : dave[u].active =>
        /\ mls[u].established /\ mls[u].kp \in dave[u].senderKey.members
        /\ dave[u].hasPendingKey \/ dave[u].senderKey = mls[u].group

(* A sender key is derived once: deriving it again would start its nonces  *)
(* again from zero.                                                        *)
KeyOnce ==
    [][\A u \in Users :
          dave'[u].last # dave[u].last /\ dave'[u].active
              => dave'[u].senderKey \notin derived[u]]_vars

(* Once nobody joins, leaves or rekeys, everybody in the call encrypts and *)
(* all use the same key, or nobody does when the call is without DAVE.     *)
Converged ==
    \A u, w \in call : IF gateway.version = 0 THEN ~dave[u].active
                       ELSE dave[u].active /\ dave[u].senderKey = dave[w].senderKey
Converges == <>[](Cardinality(call) > 1 => Converged)
=============================================================================
