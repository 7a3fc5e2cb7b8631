------------------------------- MODULE Selection ------------------------------
(***************************************************************************)
(* What a slave stores in rocksdb and how GetLogProcessStat selects from   *)
(* it: the records of a range of seconds that meet the conditions, with    *)
(* the fields that are asked for, in the order of a field, and of these    *)
(* the ones at the indices start to end.                                   *)
(*                                                                         *)
(* Keys have the same length, as seconds have since 2001, so rocksdb's     *)
(* order is that of numbers.  Left out is what the code leaves undefined:  *)
(* a record without the field to sort by, and a heap of more rows than     *)
(* there are.  A loop is a recursive function of the turns that are done.  *)
(***************************************************************************)
EXTENDS Conditions, Lines, Functions

Seqs == INSTANCE SequencesExt

CONSTANTS
  Timestamps,  \* the keys of rocksdb
  Logs,        \* the records
  Conds,       \* the conditions of selections
  Readable,    \* those without the character that separates records
  Many,        \* 100000: from here on a heap selects the rows
  MaxStored    \* bound: records in rocksdb

\* The fields by which there is an order.
SortFields == {"query", "srcid", "timestamp"}

\* Texts to sort by are numbers in the order of texts.
ASSUME SelectionAssumption ==
  /\ Timestamps \subseteq Nat /\ \A s, t \in Timestamps : s..t \subseteq Timestamps
  /\ \A log \in Logs, f \in SortFields : f \in DOMAIN log => log[f] \in Int
  /\ \A cond \in Conds : /\ CondKinds \subseteq DOMAIN cond
                        /\ \A kind \in CondKinds : cond[kind] \in Seq(Range(cond[kind]))
  /\ Many \in Nat /\ MaxStored \in Nat

VARIABLE db    \* the value of each key: the records written in that second

Stored == SumFunction([t \in Timestamps |-> Len(db[t])])

SelectionInit == db = [t \in Timestamps |-> <<>>]

\* Storage and the merge operator: the record is added to those of its second.
Write(t, log) ==
  /\ Stored < MaxStored
  /\ db' = [db EXCEPT ![t] = Append(@, log)]

SelectionNext == \E t \in Timestamps, log \in Logs : Write(t, log)

SelectionSpec == SelectionInit /\ [][SelectionNext]_db

-------------------------------------------------------------------------------
\* ReadFromRocksdb: the value of every key in the range is split at the separator;
\* the parts of a record that holds the separator are no records.
ReadFromRocksdb(st, ed) ==
  LET read[n \in 0..(ed - st + 1)] ==
        IF n = 0 THEN <<>> ELSE read[n - 1] \o Only(Readable, db[st + n - 1])
  IN IF st <= ed THEN read[ed - st + 1] ELSE <<>>

\* SelectByConds: the rows have the fields that are asked for, and all of them.
SelectByConds(raw, cond, fields) ==
  LET asked  == {log \in Range(raw) : DOMAIN log # {} /\ fields \subseteq DOMAIN log}
      chosen == Only({log \in asked : AllCheck(cond, log)}, raw)
  IN [i \in DOMAIN chosen |-> IF fields = {} THEN chosen[i] ELSE Restrict(chosen[i], fields)]

-------------------------------------------------------------------------------
(* The heap of Topk: a sequence d for the array data, counted from 0 in the  *)
(* code, whose children are at 2i and 2i + 1.                                *)

Swap(d, i, j) == [d EXCEPT ![i + 1] = d[j + 1], ![j + 1] = d[i + 1]]

\* The compare function answers whether the first row is the larger one.
Compare(x, y, f) == x[f] > y[f]

\* The one of two places that has the larger row, if the first is in the heap.
Larger(d, j, max, size, f) ==
  IF j < size /\ ~Compare(d[max + 1], d[j + 1], f) THEN j ELSE max

\* One call of Adjust.  Its guard does not let the parent of the last element of
\* an odd number look at it.
Sink(h, size, f) ==
  LET left == Larger(h.data, 2 * h.at, h.at, size, f)
      max  == Larger(h.data, 2 * h.at + 1, left, size, f)
  IN IF h.at < size \div 2 /\ max # h.at THEN [data |-> Swap(h.data, h.at, max), at |-> max] ELSE h

\* Adjust: the value at i sinks below the larger of its children, and so on; it
\* sinks at every call but the last.
Adjust(d, i, size, f) ==
  LET sunk[n \in 0..size] ==
        IF n = 0 THEN [data |-> d, at |-> i] ELSE Sink(sunk[n - 1], size, f)
  IN sunk[size].data

Heapify(d, f) ==
  LET half == Len(d) \div 2
      heap[n \in 0..(half + 1)] ==
        IF n = 0 THEN d ELSE Adjust(heap[n - 1], half + 1 - n, Len(d), f)
  IN heap[half + 1]

\* Mutant of Setop: the comparison is the other way round.
SetopOther(d, row, f) ==
  IF Compare(d[1], row, f) THEN d ELSE Adjust([d EXCEPT ![1] = row], 0, Len(d), f)

\* A row that is not larger than the largest takes its place.
Setop(d, row, f) ==
  IF Compare(row, d[1], f) THEN d ELSE Adjust([d EXCEPT ![1] = row], 0, Len(d), f)

\* Sort: the largest goes to the end of the heap, which is then one shorter.
HeapSort(d, f) ==
  LET sorted[n \in 0..(Len(d) - 1)] ==
        IF n = 0 THEN d
        ELSE Adjust(Swap(sorted[n - 1], 0, Len(d) - n), 0, Len(d) - n, f)
  IN sorted[Len(d) - 1]

\* Run: the first k + 1 rows make the heap, the others are compared with its top.
Topk(rows, k, f) ==
  LET top[n \in 0..(Len(rows) - k - 1)] ==
        IF n = 0 THEN Heapify(SubSeq(rows, 1, k + 1), f)
        ELSE Setop(top[n - 1], rows[k + 1 + n], f)
  IN HeapSort(top[Len(rows) - k - 1], f)

-------------------------------------------------------------------------------
\* std::sort from the largest on: the rows that come before the one at i.  The
\* library may place equal ones in any order.
Ahead(rows, i, f) ==
  {j \in DOMAIN rows : Compare(rows[j], rows[i], f) \/ (rows[j][f] = rows[i][f] /\ j < i)}

Sort(rows, f) ==
  [p \in DOMAIN rows |->
     rows[CHOOSE i \in DOMAIN rows : Cardinality(Ahead(rows, i, f)) = p - 1]]

\* The order by a field: sorted from the largest on, then reversed, or by the
\* heap; a field that is not asked for leaves the rows as they are.
Ordered(rows, fields, f, end) ==
  IF fields # {} /\ f \notin fields THEN rows
  ELSE IF end > Many /\ Len(rows) > Many
       THEN IF f \in SortFields THEN Topk(rows, end, f) ELSE <<>>
       ELSE Seqs!Reverse(IF f \in SortFields THEN Sort(rows, f) ELSE rows)

\* The rows at the indices start to end, if there is a row at end, and otherwise
\* all of them.
Limit(rows, start, end) ==
  IF start <= end /\ end < Len(rows) THEN SubSeq(rows, start + 1, end + 1) ELSE rows

Matching(st, ed, cond, fields) == SelectByConds(ReadFromRocksdb(st, ed), cond, fields)

\* GetLogProcessStat from the rows on, with a field to sort by, a start and an end.
Page(rows, fields, f, start, end) == Limit(Ordered(rows, fields, f, end), start, end)

-------------------------------------------------------------------------------
(* Properties. *)

SelectionTypeOK == db \in [Timestamps -> Seq(Logs)]

AllFields == UNION {DOMAIN log : log \in Logs}
Sortable  == {f \in SortFields : \A log \in Logs : f \in DOMAIN log}

\* The row has the rank p among the rows: fewer are smaller, and p are not larger.
HasRank(row, p, rows, f) ==
  /\ Cardinality({i \in DOMAIN rows : rows[i][f] < row[f]}) < p
  /\ p <= Cardinality({i \in DOMAIN rows : rows[i][f] <= row[f]})

Occurrences(rows, row) == Cardinality({i \in DOMAIN rows : rows[i] = row})

IsSlice(page, rows, f, start, end) ==
  /\ Len(page) = end - start + 1
  /\ \A p \in DOMAIN page : HasRank(page[p], start + p, rows, f)
  /\ \A row \in Range(page) : Occurrences(page, row) <= Occurrences(rows, row)

\* A page that ends before the last row holds rows of the ranks start + 1 to end + 1
\* among all that match, none more often than it matches, whether they were sorted
\* or selected by the heap; with the heap, if the number of its rows is even.
PageIsSlice ==
  \A from, to \in Timestamps, cond \in Conds, fields \in SUBSET AllFields :
    LET rows == Matching(from, to, cond, fields) IN
    \A f \in Sortable, end \in 0..(Len(rows) - 1) : \A start \in 0..end :
      /\ fields = {} \/ f \in fields
      /\ Len(rows) > Many /\ end > Many => end % 2 = 1
      => IsSlice(Page(rows, fields, f, start, end), rows, f, start, end)

\* One condition at most of each kind, and only of the kinds that are not negated.
Plain(cond) == \A kind \in CondKinds : Len(cond[kind]) <= IF kind \in {"lbs", "sid", "type"} THEN 0 ELSE 1

\* The conditions on fields that the record has.
Applicable(cond, log) ==
  [kind \in CondKinds |-> IF Present(kind, log) THEN cond[kind] ELSE <<>>]

\* Selections know no empty field; a checklist takes one for a field the record
\* does not have.
Filled(log) == DOMAIN log # {} /\ \A f \in DOMAIN log : log[f] # NoText

\* Alarms and selections read the same conditions alike: a stored record without
\* empty fields is selected exactly if a checklist of those conditions whose fields
\* it has would have raised the alarm for it; by conditions that are plain.
SelectedIfAlarming ==
  \A t \in Timestamps, cond \in {c \in Conds : Plain(c)} :
    {log \in Range(Matching(t, t, cond, {})) : Filled(log)} =
      {log \in Range(db[t]) \cap Readable : Filled(log) /\ Check(Applicable(cond, log), log)}

-------------------------------------------------------------------------------
(* What the repository says and the code does not do. *)

\* process_impl.cc 613: "select xxx from xxx where".  A record that is selected by
\* one condition meets it, if it has the field.
SelectsWhere ==
  \A t \in Timestamps, kind \in CondKinds, cond \in Conds :
    Len(cond[kind]) = 1 =>
      \A log \in Range(Matching(t, t, cond, {})) :
        Present(kind, log) => Holds(kind, SelectedValue(kind, log), cond[kind][1])
===============================================================================
