----------------------------- MODULE MCCommitter -----------------------------
(* Instances of Committer for TLC. *)
EXTENDS Committer

CONSTANTS orders, users, ticker, final

MCTopics == {orders, users}
MCFlushers == {ticker, final}
=============================================================================
