-------------------------- MODULE MCOffloadManager --------------------------
(* Small instances of OffloadManager for TLC. *)
EXTENDS OffloadManager

(* A timeout may fire or not: Cancel has the behaviours of None and Warn. *)
WithTimeout == [deduplicate : BOOLEAN, timeout : {"Cancel"}]
Defaults   == {[deduplicate |-> TRUE, timeout |-> "None"]}   \* OffloadConfig::default()
=============================================================================
