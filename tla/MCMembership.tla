---------------------------- MODULE MCMembership ----------------------------
(* Model values, configurations and bounds for Membership.                 *)
EXTENDS Membership, TLC

CONSTANTS a, b, L, Inbox, Sent   \* messages, a label and the routing folders

MCKeys1 == {a}
MCKeys2 == {a, b}
MCSymmetry == Permutations(MCKeys2)
MCLabels == {L}
MCKeywordOf == [f \in {L, Inbox, Sent} |-> f]

C(archive, sent, labels) ==
    [archive |-> archive, sent |-> sent, labels |-> labels, propagate |-> labels]

ArchiveAndLabels == {C(TRUE, FALSE, TRUE)}
TwoConfigs == {C(TRUE, FALSE, TRUE), C(TRUE, TRUE, FALSE)}
Everything == {C(TRUE, TRUE, TRUE)}

(* A bound for the inbox, the label and the sent folder.                   *)
R(i, l, s) == [f \in {L, Inbox, Sent} |-> CASE f = Inbox -> i [] f = L -> l [] OTHER -> s]
R000 == R(0, 0, 0)
R010 == R(0, 1, 0)
R011 == R(0, 1, 1)
R110 == R(1, 1, 0)
R120 == R(1, 2, 0)
=============================================================================
