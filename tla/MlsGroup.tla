-------------------------------- MODULE MlsGroup --------------------------------
(***************************************************************************)
(* The GroupSession of the mls package (mls/session.go): the MLS group a   *)
(* member keeps, the proposals stored in it, and the commit it offered.    *)
(* Each operation is an operator from the session before to the session    *)
(* after; one that fails leaves the session as its rollback does.          *)
(*                                                                         *)
(* The MLS library is external. A group is known by the key package that   *)
(* founded it and the commits applied since: two members share the secrets *)
(* of an epoch if and only if their groups are equal. A key package is     *)
(* <<user, n>>, the n-th of that user, and stands for its leaf.            *)
(***************************************************************************)
EXTENDS Naturals, Sequences

NoGroup == [root |-> <<>>, log |-> << >>, members |-> {}]
NoPending == [group |-> NoGroup, proposals |-> {}, commit |-> << >>]

(* The group created from the member's own key package.                    *)
Own(kp) == [root |-> kp, log |-> << >>, members |-> {kp}]
Epoch(group) == Len(group.log)

Commit(by, group, proposals) == [by |-> by, base |-> group, proposals |-> proposals]
Applied(c) ==
    [c.base EXCEPT
        !.log = Append(@, <<c.by, c.proposals>>),
        !.members = (@ \ {p[2] : p \in {q \in c.proposals : q[1] = "remove"}})
                        \cup {p[2] : p \in {q \in c.proposals : q[1] = "add"}}]

NewGroupSession(kp) ==
    [kp |-> kp, sender |-> FALSE, created |-> FALSE, established |-> FALSE,
     group |-> NoGroup, proposals |-> {}, pending |-> NoPending]

createPendingGroup(s) ==
    IF s.created \/ ~s.sender THEN s
    ELSE [s EXCEPT !.created = TRUE, !.group = Own(s.kp), !.proposals = {}]

SetExternalSender(s) == createPendingGroup([s EXCEPT !.sender = TRUE])

(* Reset and the GenerateKeyPackage that follows it under the same lock.   *)
Reset(s) ==
    createPendingGroup([NewGroupSession(<<s.kp[1], s.kp[2] + 1>>) EXCEPT !.sender = s.sender])

(* validateGroupLocked: one leaf for each user, all of them recognized.    *)
Valid(group, recognized) ==
    /\ \A kp \in group.members : kp[1] \in recognized
    /\ \A kp, other \in group.members : kp[1] = other[1] => kp = other

(* ReviewProposal, and what the library refuses.                           *)
Acceptable(s, proposals, recognized) ==
    \A p \in proposals : IF p[1] = "add" THEN p[2][1] \in recognized
                         ELSE p[2] \in s.group.members \ {s.kp}

(* Mutant: the candidate state stays in the store.                         *)
StoredMutant(s, c) == [s EXCEPT !.group = Applied(c), !.proposals = {}]
Stored(s, c) == [s EXCEPT !.group = c.base, !.proposals = c.proposals]

(* The session, and the commit to send if there is one.                    *)
ProcessProposals(s, op, epoch, proposals, recognized) ==
    LET stored == IF op = "append" THEN s.proposals \cup proposals
                  ELSE s.proposals \ proposals
        c == Commit(s.kp, s.group, stored)
    IN  IF \/ ~s.created \/ Epoch(s.group) # epoch
           \/ op = "append" /\ ~Acceptable(s, proposals, recognized)
           \/ stored # {} /\ ~Valid(Applied(c), recognized)
        THEN [session |-> s, commit |-> << >>]
        ELSE IF stored = {}
        THEN [session |-> [s EXCEPT !.proposals = {}, !.pending = NoPending],
              commit |-> << >>]
        ELSE [session |-> [Stored(s, c) EXCEPT
                  !.pending = [group |-> s.group, proposals |-> stored, commit |-> <<c>>]],
              commit |-> <<c>>]

MayApply(s, c) ==
    /\ Epoch(c.base) = Epoch(s.pending.group)
    /\ s.pending.commit = <<c>> \/ /\ s.established /\ c.base = s.pending.group
                                   /\ c.proposals \subseteq s.pending.proposals

(* Whether the commit was applied, and the session.                        *)
ProcessCommit(s, c, recognized) ==
    IF s.pending = NoPending \/ ~MayApply(s, c)
    THEN [ok |-> FALSE, session |-> s]
    ELSE IF ~Valid(Applied(c), recognized)
    THEN [ok |-> FALSE,
          session |-> [s EXCEPT !.group = s.pending.group, !.proposals = s.pending.proposals]]
    ELSE [ok |-> TRUE,
          session |-> [s EXCEPT !.group = Applied(c), !.proposals = {}, !.established = TRUE,
                                !.pending = NoPending]]

ProcessWelcome(s, group, recognized) ==
    IF s.established \/ s.kp \notin group.members \/ ~Valid(group, recognized)
    THEN [ok |-> FALSE, session |-> s]
    ELSE [ok |-> TRUE,
          session |-> [s EXCEPT !.group = group, !.proposals = {}, !.created = TRUE,
                                !.established = TRUE, !.pending = NoPending]]
=============================================================================
