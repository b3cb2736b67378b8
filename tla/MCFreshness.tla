---------------------------- MODULE MCFreshness ----------------------------
(* What is held and must not grow old, for TLC: the blocklist corpus on    *)
(* disk and in the workers, and the answer cache of two workers over the   *)
(* shared table.  In a behaviour one of them moves, and the other stays in *)
(* its initial state.  Safety only, so the cache's keys may be             *)
(* interchanged.                                                           *)
(*                                                                         *)
(* Of the blocklists: one list that may be configured or not, one value of *)
(* the operator's rules, one sibling and groups, so that every way into a  *)
(* build can meet every other.                                             *)
EXTENDS Gravity, TLC

CONSTANTS
  w1, w2, k1, k2, k3, s1,
  Worker, Primary, Key, TTL, MinTTL, MaxTTL, NegativeTTL, StaleMax, MaxEntries   \* of AnswerCache

VARIABLES part, l1, l2, file, upC, served

answers == <<l1, l2, file, upC, served>>

Symmetry == Permutations(Key)

Cache == INSTANCE AnswerCache WITH up <- upC

ASSUME CacheAssumption == Cache!AnswerCacheConstants

MCInit ==
  /\ part \in {"cache", "lists"} /\ Init /\ Cache!Init
  /\ part # "lists" => cfg.src = s1

CacheMoves == part = "cache" /\ UNCHANGED <<part, vars>>
ListsMove == part = "lists" /\ UNCHANGED <<part, answers>>

MCNext == (CacheMoves /\ Cache!Next) \/ (ListsMove /\ Next)
MCSpec == MCInit /\ [][MCNext]_<<part, vars, answers>>

-----------------------------------------------------------------------------
(* No answer is served past its lifetime or from before a flush, and the   *)
(* stores keep their bounds (Cache.get, get_stale, flush).                 *)
AnswersCurrent == Cache!AnswersCurrent
=============================================================================
