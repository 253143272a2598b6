-------------------------- MODULE CommitteeVoting --------------------------
(***************************************************************************)
(* What both bridge contracts promise about votes: every request names a   *)
(* committee, is executed by the vote with which a quorum of that very     *)
(* committee stands behind it, and is never executed again.  Committees    *)
(* are only added.  Signature counts, pauses, payouts and money are the    *)
(* contracts' business.                                                    *)
(***************************************************************************)
EXTENDS Naturals, FiniteSets

CONSTANTS
    Guardians,
    Requests,        \* records with a field committeeId
    CommitteeIds     \* 0 .. n

VARIABLES
    current,         \* the newest committee
    members,
    threshold,
    votes,           \* who voted for each request
    executed

vars == <<current, members, threshold, votes, executed>>

CanDecide(C, n) == n > 0 /\ n <= Cardinality(C)

Init ==
    /\ current = 0
    /\ members \in [CommitteeIds -> SUBSET Guardians]
    /\ CanDecide(members[0], threshold[0])
    /\ \A c \in CommitteeIds \ {0} : members[c] = {}
    /\ votes = [r \in Requests |-> {}]
    /\ executed = {}

Vote(g, r) ==
    /\ r \notin executed
    /\ g \in members[r.committeeId] \ votes[r]
    /\ votes' = [votes EXCEPT ![r] = @ \cup {g}]
    /\ executed' = IF Cardinality(votes[r] \cup {g}) >= threshold[r.committeeId]
                   THEN executed \cup {r} ELSE executed
    /\ UNCHANGED <<current, members, threshold>>

NewCommittee(C, n) ==
    /\ CanDecide(C, n)
    /\ current' = current + 1
    /\ members' = [members EXCEPT ![current + 1] = C]
    /\ threshold' = [threshold EXCEPT ![current + 1] = n]
    /\ UNCHANGED <<votes, executed>>

Next ==
    \/ \E g \in Guardians, r \in Requests : Vote(g, r)
    \/ \E C \in SUBSET Guardians : \E n \in 1 .. Cardinality(C) : NewCommittee(C, n)

Spec == Init /\ [][Next]_vars

=============================================================================
