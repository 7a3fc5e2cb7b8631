------------------------------- MODULE MCSlaves -------------------------------
(* Slaves on small instances.  A behaviour changes the checklists, or raises an *)
(* alarm beside a search without result, or has queries for kuozhao.txt.        *)
EXTENDS Slaves, TLC

CONSTANTS s1, s2, alarm, miss, expand, q, rain, sun

VARIABLE part

MCRecords  == {alarm, miss, expand}
MCHome     == (alarm :> s1) @@ (miss :> s1) @@ (expand :> s2)
MCHash     == [m \in MCRecords |-> q]
MCCatches  == (rain :> {alarm}) @@ (sun :> {})
MCFirst    == <<[rule |-> sun, text |-> "a"], [rule |-> rain, text |-> "a"]>>
MCRequests == [op : {"add"}, item : {[rule |-> rain, text |-> "a"],
                                     [rule |-> rain, text |-> "b"],
                                     [rule |-> sun, text |-> "a"]}]
                \cup [op : {"del"}, index : 1..2]
MCMaxCalls == (alarm :> 1) @@ (miss :> 1) @@ (expand :> 2)

Parts == {{}, {alarm, miss}, {expand}}

MCInit == Init /\ part \in Parts

MCNext ==
  /\ UNCHANGED part
  /\ \/ part = {} /\ Configure
     \/ Work /\ \A m \in Records \ part : calls'[m] = 0
     \/ \E s \in Slaves : Die(s) \/ Start(s)

MCSpec == MCInit /\ [][MCNext]_<<vars, part>> /\ Fairness
===============================================================================
