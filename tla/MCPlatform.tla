----------------------------- MODULE MCPlatform -----------------------------
(* A behaviour is one of the parts of Platform, as scenario says: three       *)
(* instances of Recommendations over the same variables, or tenants,          *)
(* memories, keys, listing or seed.                                           *)
(* deliveries: two attempts in one language, two workers that fail, and no    *)
(* nightly run.  nights: attempts in two languages, two nightly runs, one of  *)
(* them restarted.  faulty night: a plan fails, or the consumer does.         *)
(* Languages alternate.                                                       *)
EXTENDS Platform

CONSTANTS english, spanish, w1
VARIABLE scenario

MCLanguageOf == [e \in Events |-> IF e = 2 THEN spanish ELSE english]
MCOrgOf == [u \in {"ann", "bob"} |-> IF u = "ann" THEN "acme" ELSE "null"]
MCScript == <<"course", "level", "lesson", "badge">>
MCParentOf == [course |-> "none", level |-> "course", lesson |-> "level", badge |-> "none"]

Nights == INSTANCE Recommendations WITH
    Publishable <- {1, 2}, Workers <- {w1}, MaxNights <- 2, MaxFaults <- 0, MaxReruns <- 1

Faulty == INSTANCE Recommendations WITH
    Publishable <- {1, 3}, Workers <- {w1}, MaxNights <- 1, MaxFaults <- 1, MaxReruns <- 0

tenants == <<conn, req>>
memories == <<entry, memory, surfaced, forked>>
keys == <<clock, keyRow, activeKeyId, keyCache, task, sealed>>
dictionaries == <<dictionary, deleter, listing, seen, throughout, lost>>
seeds == <<table, execution, overlapped, renames>>

MCInit ==
    /\ scenario \in {"deliveries", "nights", "faulty night", "tenants", "memories", "keys",
                      "listing", "seed"}
    /\ Init /\ Tenants!Init /\ Learner!Init /\ Cipher!Init /\ Dictionary!Init /\ Reference!Init

MCNext ==
    /\ \/ /\ \/ scenario = "deliveries" /\ Next
             \/ scenario = "nights" /\ Nights!Next
             \/ scenario = "faulty night" /\ Faulty!Next
          /\ UNCHANGED <<tenants, memories, keys, dictionaries, seeds>>
       \/ /\ scenario = "tenants" /\ Tenants!Next
          /\ UNCHANGED <<vars, memories, keys, dictionaries, seeds>>
       \/ /\ scenario = "memories" /\ Learner!Next
          /\ UNCHANGED <<vars, tenants, keys, dictionaries, seeds>>
       \/ /\ scenario = "keys" /\ Cipher!Next
          /\ UNCHANGED <<vars, tenants, memories, dictionaries, seeds>>
       \/ /\ scenario = "listing" /\ Dictionary!Next
          /\ UNCHANGED <<vars, tenants, memories, keys, seeds>>
       \/ /\ scenario = "seed" /\ Reference!Next
          /\ UNCHANGED <<vars, tenants, memories, keys, dictionaries>>
    /\ UNCHANGED scenario

MCSpec ==
    MCInit /\ [][MCNext]_<<vars, scenario, tenants, memories, keys, dictionaries, seeds>> /\ Fairness
=============================================================================
