---------------------------- MODULE MCFileFeeds ----------------------------
(* One file.  Its first version has no CVE, the last cannot be read.       *)
EXTENDS FileFeeds

CONSTANTS a, b

MCContent == [f \in File |-> <<{}, {a, b}, {a}>>]
MCUnreadable == [f \in File |-> {3}]
=============================================================================
