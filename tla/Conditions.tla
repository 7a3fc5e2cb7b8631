------------------------------ MODULE Conditions ------------------------------
(***************************************************************************)
(* The conditions of checklists and of selections, and the two functions   *)
(* that decide whether a record meets them: checklist_item::check, which   *)
(* raises alarms, and all_check, which selects stored records.             *)
(*                                                                         *)
(* A record is a function from fields to values.  Conds[kind] is the       *)
(* sequence of conditions of a kind, each with the value to compare with   *)
(* (a pair for "lbs").  How texts contain each other is a parameter.       *)
(***************************************************************************)
EXTENDS Integers, Sequences

CONSTANTS
  NoText,    \* the empty text
  Includes,  \* <<v, w>>: the text v contains the text w
  Begins,    \* <<v, w>>: v begins with w and is longer
  Ends       \* <<v, w>>: v ends with w and is longer

CondKinds == {"srcid", "seword", "lbs", "cookie", "cluster", "resno", "sid", "type"}

\* The comparisons that each kind knows; every other one holds of nothing.
Known == [
  srcid   |-> {"Equal", "NotEqual"},
  seword  |-> {"Equal", "NotEqual", "In", "NotIn", "IsFront", "IsBehind"},
  lbs     |-> {"NotExist", "PartEqual", "Equal"},
  cookie  |-> {"NotExist", "Equal"},
  cluster |-> {"Equal", "NotEqual"},
  resno   |-> {"Equal", "NotEqual"},
  sid     |-> {"Equal", "NotIn", "In"},
  type    |-> {"Equal", "NotEqual"}]

\* "NotExist" and "PartEqual" look at the condition and not at the record.
Test(v, c) ==
  CASE c.cond = "Equal"     -> v = c.value
    [] c.cond = "NotEqual"  -> v # c.value
    [] c.cond = "In"        -> <<v, c.value>> \in Includes
    [] c.cond = "NotIn"     -> <<v, c.value>> \notin Includes
    [] c.cond = "IsFront"   -> <<v, c.value>> \in Begins
    [] c.cond = "IsBehind"  -> <<v, c.value>> \in Ends
    [] c.cond = "NotExist"  -> c.value \in {NoText, <<NoText, NoText>>}
    [] c.cond = "PartEqual" -> c.value[1] = NoText \/ c.value[2] # NoText

Holds(kind, v, c) == c.cond \in Known[kind] /\ Test(v, c)

Value(log, f) == IF f \in DOMAIN log THEN log[f] ELSE NoText

-------------------------------------------------------------------------------
(* checklist_item::check: every kind that has conditions must find one of    *)
(* them to hold.                                                             *)

\* The fields the checks of a checklist look at.
CheckedField(kind) == IF kind = "seword" THEN "query" ELSE kind

CheckedValue(kind, log) ==
  IF kind = "lbs" THEN <<Value(log, "province_name"), Value(log, "city_name")>>
  ELSE Value(log, CheckedField(kind))

\* These kinds refuse a record without the field; the others take it as empty.
Demanding == {"srcid", "seword", "cluster"}

CheckKind(kind, conds, log) ==
  LET v == CheckedValue(kind, log) IN
  /\ kind \in Demanding => v # NoText
  /\ \E i \in DOMAIN conds : Holds(kind, v, conds[i])

Check(conds, log) ==
  \A kind \in CondKinds : conds[kind] # <<>> => CheckKind(kind, conds[kind], log)

-------------------------------------------------------------------------------
(* all_check: a kind whose field the record has must find all of its         *)
(* conditions to hold, or none of them.                                      *)

Present(kind, log) ==
  IF kind = "lbs" THEN {"prov", "city"} \subseteq DOMAIN log
  ELSE CheckedField(kind) \in DOMAIN log

SelectedValue(kind, log) ==
  IF kind = "lbs" THEN <<log["prov"], log["city"]>> ELSE log[CheckedField(kind)]

\* Mutant of Negated: the test of resno is negated too.
NegatedResno == {"lbs", "sid", "resno", "type"}

\* The kinds whose test is negated.
Negated == {"lbs", "sid", "type"}

\* The loop over the conditions on sid ends at the number of those on resno; it
\* reads past the end if these are more, which is not modelled.
Looped(kind, conds) == IF kind = "sid" THEN DOMAIN conds["resno"] ELSE DOMAIN conds[kind]

AllCheck(conds, log) ==
  \A kind \in CondKinds :
    conds[kind] # <<>> /\ Present(kind, log) =>
      \A i \in Looped(kind, conds) :
        Holds(kind, SelectedValue(kind, log), conds[kind][i]) <=> kind \notin Negated
===============================================================================
