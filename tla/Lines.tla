--------------------------------- MODULE Lines ---------------------------------
(* Lines of records: a function whose values are sequences; and the filter of *)
(* one of them.                                                              *)
EXTENDS Integers, Sequences, FiniteSets

Places(lines, m) ==
  {place \in UNION {{i} \X DOMAIN lines[i] : i \in DOMAIN lines} :
     lines[place[1]][place[2]] = m}

\* How often m stands in the lines.
Times(lines, m) == Cardinality(Places(lines, m))

\* The members of a line that are in S, in their order.
Only(S, all) ==
  LET kept[i \in 0..Len(all)] ==
        IF i = 0 THEN <<>>
        ELSE IF all[i] \in S THEN Append(kept[i - 1], all[i]) ELSE kept[i - 1]
  IN kept[Len(all)]
================================================================================
