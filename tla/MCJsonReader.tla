---------------------------- MODULE MCJsonReader ----------------------------
(* Readers of all kinds for TLC, with documents of a few tokens.             *)
EXTENDS JsonReaderChecks

Lenient == [f \in FeatureNames |-> f # "strictRoot"]

Reading(features, comments, tokens, max) ==
  [features |-> features, collectComments |-> comments, tokens |-> tokens, maxTokens |-> max]

(* Two kinds of names, scalars and what goes wrong; comments, in documents   *)
(* long enough for a member that replaces another; numbers for names; a zero *)
(* in the middle.                                                            *)
MCSettings ==
  {Reading(all, TRUE, Structure \cup {"a", "empty", "badstring", "block"}, 6),
   Reading(all, TRUE, Structure \cup {"a", "split"}, 11),
   Reading(Lenient, FALSE, Structure \cup {"1", "badnumber"}, 6),
   Reading(strictMode, FALSE, Structure \cup {"a", "block", "error", "nul"}, 5)}

(* What follows an error is looked at in short documents only. *)
ShortRecovery == errors_ = 0 \/ Ended \/ Len(doc) <= 6
===============================================================================
