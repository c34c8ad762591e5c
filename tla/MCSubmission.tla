---------------------------- MODULE MCSubmission ----------------------------
(* TLC instances of Submission.                                             *)
EXTENDS Submission, Events

(* For two submissions at once: events that lend two objects and one.       *)
TwoEvents == {"Statx", "Read"}
TwoKinds == [e \in TwoEvents |-> EventKinds[e]]

(* For one submission: every event there is, by turns.                      *)
AllEvents == DOMAIN EventKinds
=============================================================================
