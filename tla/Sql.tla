--------------------------------- MODULE Sql ---------------------------------
(***************************************************************************)
(* SELECT (projection, order, groups and aggregates) and the clients of    *)
(* the SQL layer, rust/src/sql/executor.rs: Executor::run_with, which      *)
(* gives a statement its own transaction, in turn with the others and      *)
(* again after a conflict, and Executor::run_in, which runs statements in  *)
(* the caller's transaction.  The store below is the one SnapshotKV        *)
(* promises: a transaction sees the map as it was when it began and its    *)
(* own writes, and may commit if nobody has committed a key it wrote.      *)
(*                                                                         *)
(* An output name is <<name>>, or <<func, column, distinct>> for an        *)
(* aggregate without an alias.                                             *)
(***************************************************************************)
EXTENDS SqlMeaning

(* The rows in the order of the keys, equal ones as they were.             *)
Before(a, b, keys) ==
    \E k \in DOMAIN keys :
        /\ \A j \in 1 .. k - 1 : total_cmp(a[keys[j][1]], b[keys[j][1]]) = 0
        /\ LET ord == total_cmp(a[keys[k][1]], b[keys[k][1]]) IN (IF keys[k][2] THEN -ord ELSE ord) = -1

sort_by_keys(rows, keys) ==
    With(Listed(SortBy(DOMAIN rows, LAMBDA i, j : Before(rows[i], rows[j], keys)
                                                  \/ (~Before(rows[j], rows[i], keys) /\ i < j))), LAMBDA order :
        Listed([i \in DOMAIN rows |-> rows[order[i]]]))

-----------------------------------------------------------------------------
(* A plain select: <<position, output name>> for each item.                *)

project(schema, items) ==
    FlattenSeq([i \in DOMAIN items |->
        IF items[i][1] = "*" THEN [c \in DOMAIN schema.columns |-> <<c, <<schema.columns[c]>>>>]
        ELSE LET c == column_index(schema, items[i][2])
             IN <<<<c, IF items[i][3] = <<>> THEN <<schema.columns[c]>> ELSE items[i][3]>>>>])

Named(name, column) == Len(name) = 1 /\ fold[name[1]] = fold[column]

(* Each key of ORDER BY is an output name or a column of the table.        *)
OrderableByRows(schema, projection, order_by) ==
    \A k \in DOMAIN order_by :
        HasColumn(schema, order_by[k][1]) \/ \E p \in DOMAIN projection : Named(projection[p][2], order_by[k][1])
order_keys_for_rows(schema, projection, order_by) ==
    [k \in DOMAIN order_by |->
        LET outputs == {p \in DOMAIN projection : Named(projection[p][2], order_by[k][1])}
        IN <<IF outputs # {} THEN projection[Least(outputs)][1] ELSE column_index(schema, order_by[k][1]),
             order_by[k][2]>>]

(* Of an aggregate select, each is an output name.                         *)
OrderableByOutput(names, order_by) ==
    \A k \in DOMAIN order_by : \E n \in DOMAIN names : Named(names[n], order_by[k][1])
order_keys_for_output(names, order_by) ==
    [k \in DOMAIN order_by |->
        <<Least({n \in DOMAIN names : Named(names[n], order_by[k][1])}), order_by[k][2]>>]

-----------------------------------------------------------------------------
(* Aggregates.                                                             *)

cell_key(c) == IF c = Null THEN <<0>> ELSE pk_key(c)

(* The state of an aggregate, fed row by row.                              *)
AggNew == [count |-> 0, int_sum |-> 0, float_sum |-> 0, saw_float |-> FALSE, extreme |-> Null,
           seen |-> {}, refused |-> FALSE]

feed(st, func, distinct, cell) ==
    IF cell = Null \/ (distinct /\ cell_key(cell) \in st.seen) THEN st
    ELSE LET fed == [st EXCEPT !.count = @ + 1, !.seen = @ \cup {cell_key(cell)}]
             better == \/ st.extreme = Null
                       \/ total_cmp(cell, st.extreme) = (IF func = "min" THEN -1 ELSE 1)
         IN CASE func = "count" -> fed
              [] func \in {"sum", "avg"} ->
                   CASE cell[1] = "int" -> [fed EXCEPT !.int_sum = @ + cell[2]]
                     [] cell[1] = "float" -> [fed EXCEPT !.float_sum = @ + cell[2], !.saw_float = TRUE]
                     [] OTHER -> [fed EXCEPT !.refused = TRUE]
              [] OTHER -> IF better THEN [fed EXCEPT !.extreme = cell] ELSE fed

finish(st, func) ==
    LET sum == UNIT * st.int_sum + st.float_sum
    IN CASE func = "count" -> <<"int", st.count>>
         [] st.count = 0 -> Null
         [] func = "sum" -> IF st.saw_float \/ st.int_sum \notin INT_MIN .. INT_MAX THEN <<"float", sum>>
                            ELSE <<"int", st.int_sum>>
         [] func = "avg" -> <<"float", sum \div st.count>>
         [] OTHER -> st.extreme

RECURSIVE Fed(_, _, _, _)
Fed(st, item, column, rows) ==
    IF rows = <<>> THEN st
    ELSE With(feed(st, item[2], item[4], rows[1].cells[column]), LAMBDA fed : Fed(fed, item, column, Tail(rows)))

(* COUNT of all rows feeds no cell.                                        *)
FedAll(item, schema, rows) ==
    IF item[3] = <<>> THEN [AggNew EXCEPT !.count = Len(rows)]
    ELSE Fed(AggNew, item, column_index(schema, item[3][1]), rows)

(* The groups of the rows in order of first appearance, then by value: a   *)
(* group is its values, those of its first row, and its rows.              *)
Groups(schema, group_by, rows) ==
    LET idx == [g \in DOMAIN group_by |-> column_index(schema, group_by[g])]
        values(r) == [g \in DOMAIN idx |-> r.cells[idx[g]]]
        key(r) == [g \in DOMAIN idx |-> cell_key(r.cells[idx[g]])]
        first == SelectSeq([i \in DOMAIN rows |-> i], LAMBDA i : \A j \in 1 .. i - 1 : key(rows[j]) # key(rows[i]))
        group(i) == [values |-> Listed(values(rows[i])), rows |-> SelectSeq(rows, LAMBDA r : key(r) = key(rows[i]))]
        less(a, b) == Before(a.values, b.values, [k \in DOMAIN idx |-> <<k, FALSE>>])
    IN IF rows = <<>> /\ group_by = <<>> THEN <<[values |-> <<>>, rows |-> <<>>]>>
       ELSE With(Listed([g \in DOMAIN first |-> group(first[g])]), LAMBDA found :
            With(Listed(SortBy(DOMAIN found, LAMBDA a, b : less(found[a], found[b])
                                                           \/ (~less(found[b], found[a]) /\ a < b))), LAMBDA order :
               Listed([g \in DOMAIN found |-> found[order[g]]])))

(* The output names and rows; no aggregate may have met a text it sums.    *)
aggregate(schema, items, group_by, rows) ==
    LET position(name) == Least({g \in DOMAIN group_by :
                                    column_index(schema, group_by[g]) = column_index(schema, name)})
        cell(g, item) == IF item[1] = "column" THEN g.values[position(item[2])]
                         ELSE finish(FedAll(item, schema, g.rows), item[2])
        name(item) == IF item[1] = "column"
                      THEN IF item[3] # <<>> THEN item[3] ELSE <<schema.columns[column_index(schema, item[2])]>>
                      ELSE IF item[5] # <<>> THEN item[5] ELSE <<item[2], item[3], item[4]>>
    IN With(Groups(schema, group_by, rows), LAMBDA groups :
           [names |-> Listed([i \in DOMAIN items |-> name(items[i])]),
            refused |-> \E g \in DOMAIN groups, i \in DOMAIN items :
                            items[i][1] = "agg" /\ FedAll(items[i], schema, groups[g].rows).refused,
            rows |-> Listed([g \in DOMAIN groups |-> Listed([i \in DOMAIN items |-> cell(groups[g], items[i])])])])

Aggregated(s) == s.group_by # <<>> \/ \E i \in DOMAIN s.items : s.items[i][1] = "agg"

(* Every column named is one of the table's, and in an aggregate select    *)
(* every plain column is grouped by.                                       *)
Projectable(schema, s) ==
    /\ \A g \in DOMAIN s.group_by : HasColumn(schema, s.group_by[g])
    /\ \A i \in DOMAIN s.items :
          /\ s.items[i][1] = "column" => HasColumn(schema, s.items[i][2])
          /\ s.items[i][1] = "agg" => s.items[i][3] = <<>> \/ HasColumn(schema, s.items[i][3][1])
          /\ Aggregated(s) => s.items[i][1] # "*"
          /\ Aggregated(s) /\ s.items[i][1] = "column" =>
                \E g \in DOMAIN s.group_by : fold[s.group_by[g]] = fold[s.items[i][2]]

Slice(rows, s) ==
    LET from == IF s.offset = <<>> THEN 0 ELSE s.offset[1]
        to == IF s.limit = <<>> THEN Len(rows) ELSE from + s.limit[1]
    IN SubSeq(rows, from + 1, IF to < Len(rows) THEN to ELSE Len(rows))

(* The answer from the rows that match.                                    *)
SelectGroups(schema, s, rows) ==
    With(aggregate(schema, s.items, s.group_by, rows), LAMBDA agg :
        IF agg.refused \/ ~OrderableByOutput(agg.names, s.order_by) THEN Failed(<<>>)
        ELSE Stage(<<>>, [names |-> agg.names,
                          rows |-> Slice(sort_by_keys(agg.rows, order_keys_for_output(agg.names, s.order_by)), s)]))

SelectRows(schema, s, rows) ==
    With(project(schema, s.items), LAMBDA projection :
        IF ~OrderableByRows(schema, projection, s.order_by) THEN Failed(<<>>)
        ELSE With(sort_by_keys([i \in DOMAIN rows |-> rows[i].cells],
                               order_keys_for_rows(schema, projection, s.order_by)), LAMBDA sorted :
                Stage(<<>>, [names |-> [p \in DOMAIN projection |-> projection[p][2]],
                             rows |-> Slice([i \in DOMAIN sorted |->
                                          [p \in DOMAIN projection |-> sorted[i][projection[p][1]]]], s)])))

select(view, s, params) ==
    LET schema == load_schema(view, s.table)
    IN IF ~table_exists(view, s.table) THEN Failed(<<>>)
       ELSE IF ~Compiles(schema, s.filter) \/ ~Projectable(schema, s) THEN Failed(<<>>)
       ELSE With(Matched(view, schema, s.filter, params), LAMBDA rows :
               IF Aggregated(s) THEN SelectGroups(schema, s, rows) ELSE SelectRows(schema, s, rows))

(* Any statement, in a transaction.                                        *)
execute_in(view, s, params) ==
    CASE s.kind = "create" -> create_table(view, s)
      [] s.kind = "drop" -> drop_table(view, s)
      [] s.kind = "insert" -> insert(view, s, params)
      [] s.kind = "update" -> update(view, s, params)
      [] s.kind = "delete" -> delete(view, s, params)
      [] s.kind = "select" -> select(view, s, params)

-----------------------------------------------------------------------------
(* Clients.                                                                *)

CONSTANTS
    Clients, Nobody,
    MAX_CONFLICT_RETRIES,
    Settings    \* [db, auto, session, statements, runs, failing]: the map at first, the texts each
                \* kind of client may send, how many statements, and in a session, and whether
                \* the store may fail a commit

ASSUME SqlAssumption == Nobody \notin Clients /\ MAX_CONFLICT_RETRIES \in Nat \ {0}

VARIABLES
    setting,
    db,         \* the committed map
    turn,       \* who holds the writers' turn
    client,     \* [phase, text, stmt, attempt, txn, runs] of each client
    left,       \* statements that may still be sent
    answer      \* the last text refused, or the last SELECT, what it saw and its outcome

vars == <<setting, db, turn, client, left, answer>>

NoTxn == [snapshot |-> << >>, staged |-> << >>, stale |-> {}]
NoStmt == [kind |-> "none"]
NoText == [stmt |-> NoStmt, style |-> "numbered", params |-> << >>, needs |-> 0]
Idle == [phase |-> "idle", text |-> NoText, stmt |-> NoStmt, attempt |-> 0, txn |-> NoTxn, runs |-> 0]

-----------------------------------------------------------------------------
(* The store.                                                              *)

begin == [snapshot |-> db, staged |-> << >>, stale |-> {}]

Seen(txn) ==
    LET gone == {k \in DOMAIN txn.staged : ~txn.staged[k].put}
    IN [k \in (DOMAIN txn.snapshot \cup DOMAIN txn.staged) \ gone |->
            IF k \in DOMAIN txn.staged THEN txn.staged[k].val ELSE txn.snapshot[k]]

(* A delete of a key one does not see stages nothing.                      *)
StageAll(txn, writes) ==
    LET keys == {k \in KeysOf(writes) : \/ k \in DOMAIN Seen(txn)
                                        \/ \E i \in DOMAIN writes : writes[i].key = k /\ writes[i].put}
    IN [txn EXCEPT !.staged = [k \in DOMAIN @ \cup keys |-> IF k \in keys THEN LastOf(writes, k) ELSE @[k]]]

Conflict(txn) == DOMAIN txn.staged \cap txn.stale # {}

(* The clients after c has committed its transaction.                      *)
Noticed(c) == [d \in Clients |-> IF d # c /\ client[d].phase \in {"commit", "open"}
                                 THEN [client[d] EXCEPT !.txn.stale = @ \cup DOMAIN client[c].txn.staged]
                                 ELSE client[d]]

-----------------------------------------------------------------------------
Init ==
    /\ setting \in Settings
    /\ db = setting.db
    /\ turn = Nobody
    /\ client = [c \in Clients |-> Idle]
    /\ left = setting.statements
    /\ answer = [kind |-> "none"]

(* Parses a text; a statement that cannot be read, or has other parameters *)
(* than were supplied, is refused.                                         *)
Texts == UNION {s.auto \cup s.session : s \in Settings}
Reading == [text \in Texts |-> parse_with_params(Written(text))]
Refused(p, text) == ~p.ok \/ p.needed # Len(text.params)

Answered(text, stmt, view) ==
    \E o \in {execute_in(view, stmt, text.params)} :
        answer' = [kind |-> "select", ok |-> o.ok, text |-> text, stmt |-> stmt, seen |-> view, result |-> o.result]

(* run_with: a SELECT is answered from a snapshot, at once.                *)
run_with(c) ==
    /\ client[c].phase = "idle" /\ left > 0
    /\ left' = left - 1
    /\ \E text \in setting.auto : \E p \in {Reading[text]} :
          IF Refused(p, text) THEN answer' = [kind |-> "refused", text |-> text] /\ UNCHANGED client
          ELSE IF p.stmt.kind = "select" THEN Answered(text, p.stmt, db) /\ UNCHANGED client
          ELSE /\ client' = [client EXCEPT ![c] = [Idle EXCEPT !.phase = "waiting", !.text = text, !.stmt = p.stmt]]
               /\ UNCHANGED answer
    /\ UNCHANGED <<setting, db, turn>>

(* serialize_writes.                                                       *)
TakeTurn(c) ==
    /\ client[c].phase = "waiting" /\ turn = Nobody
    /\ turn' = c
    /\ client' = [client EXCEPT ![c].phase = "attempt"]
    /\ UNCHANGED <<setting, db, left, answer>>

Return(c) == turn' = Nobody

(* Wrong on purpose: an error keeps the turn.                              *)
AttemptKeepingTurn(c) ==
    /\ client[c].phase = "attempt"
    /\ \E o \in {execute_in(db, client[c].stmt, client[c].text.params)} :
          IF o.ok THEN /\ client' = [client EXCEPT ![c].phase = "commit", ![c].txn = StageAll(begin, o.writes)]
                       /\ UNCHANGED turn
          ELSE client' = [client EXCEPT ![c] = Idle] /\ UNCHANGED turn
    /\ UNCHANGED <<setting, db, left, answer>>

(* begin, and execute_in from that snapshot; an error rolls back.          *)
Attempt(c) ==
    /\ client[c].phase = "attempt"
    /\ \E o \in {execute_in(db, client[c].stmt, client[c].text.params)} :
          IF o.ok THEN /\ client' = [client EXCEPT ![c].phase = "commit", ![c].txn = StageAll(begin, o.writes)]
                       /\ UNCHANGED turn
          ELSE client' = [client EXCEPT ![c] = Idle] /\ Return(c)
    /\ UNCHANGED <<setting, db, left, answer>>

(* Wrong on purpose: the whole of what was seen is written back.           *)
CommitTheView(c) ==
    /\ client[c].phase = "commit" /\ ~Conflict(client[c].txn)
    /\ db' = Seen(client[c].txn)
    /\ client' = [Noticed(c) EXCEPT ![c] = Idle]
    /\ Return(c)
    /\ UNCHANGED <<setting, left, answer>>

Commit(c) ==
    /\ client[c].phase = "commit" /\ ~Conflict(client[c].txn)
    /\ db' = Seen([client[c].txn EXCEPT !.snapshot = db])
    /\ client' = [Noticed(c) EXCEPT ![c] = Idle]
    /\ Return(c)
    /\ UNCHANGED <<setting, left, answer>>

(* A conflict: again from a fresh snapshot, or the error after the last.   *)
CommitConflicts(c) ==
    /\ client[c].phase = "commit" /\ Conflict(client[c].txn)
    /\ IF client[c].attempt + 1 < MAX_CONFLICT_RETRIES
       THEN /\ client' = [client EXCEPT ![c].phase = "attempt", ![c].attempt = @ + 1, ![c].txn = NoTxn]
            /\ UNCHANGED turn
       ELSE client' = [client EXCEPT ![c] = Idle] /\ Return(c)
    /\ UNCHANGED <<setting, db, left, answer>>

(* The store fails the commit: rolled back.                                *)
CommitFails(c) ==
    /\ setting.failing
    /\ client[c].phase = "commit"
    /\ client' = [client EXCEPT ![c] = Idle]
    /\ Return(c)
    /\ UNCHANGED <<setting, db, left, answer>>

-----------------------------------------------------------------------------
(* A transaction of the caller's.                                          *)

SessionBegin(c) ==
    /\ client[c].phase = "idle" /\ left > 0 /\ setting.session # {}
    /\ left' = left - 1
    /\ client' = [client EXCEPT ![c] = [Idle EXCEPT !.phase = "open", !.txn = begin]]
    /\ UNCHANGED <<setting, db, turn, answer>>

(* run_in: what the statement staged stays, also if it failed.             *)
run_in(c) ==
    /\ client[c].phase = "open" /\ client[c].runs < setting.runs
    /\ \E text \in setting.session : \E p \in {Reading[text]} :
          /\ ~Refused(p, text)
          /\ \E view \in {Seen(client[c].txn)} : \E o \in {execute_in(view, p.stmt, text.params)} :
                /\ client' = [client EXCEPT ![c].txn = StageAll(@, o.writes), ![c].runs = @ + 1,
                                            ![c].text = text, ![c].stmt = IF o.ok THEN p.stmt ELSE NoStmt]
                /\ IF p.stmt.kind = "select" THEN Answered(text, p.stmt, view) ELSE UNCHANGED answer
    /\ UNCHANGED <<setting, db, turn, left>>

SessionCommit(c) ==
    /\ client[c].phase = "open"
    /\ IF Conflict(client[c].txn) THEN UNCHANGED db /\ client' = [client EXCEPT ![c] = Idle]
       ELSE /\ db' = Seen([client[c].txn EXCEPT !.snapshot = db])
            /\ client' = [Noticed(c) EXCEPT ![c] = Idle]
    /\ UNCHANGED <<setting, turn, left, answer>>

SessionRollback(c) ==
    /\ client[c].phase = "open"
    /\ client' = [client EXCEPT ![c] = Idle]
    /\ UNCHANGED <<setting, db, turn, left, answer>>

Next ==
    \E c \in Clients :
        \/ run_with(c) \/ TakeTurn(c) \/ Attempt(c) \/ Commit(c) \/ CommitConflicts(c) \/ CommitFails(c)
        \/ SessionBegin(c) \/ run_in(c) \/ SessionCommit(c) \/ SessionRollback(c)

(* A statement that was sent runs on: its thread is scheduled, and gets    *)
(* the turn when it is free.                                               *)
SqlSpec ==
    /\ Init /\ [][Next]_vars
    /\ \A c \in Clients : WF_vars(TakeTurn(c) \/ Attempt(c) \/ Commit(c) \/ CommitConflicts(c))

-----------------------------------------------------------------------------
SqlTypeOK ==
    /\ turn \in Clients \cup {Nobody} /\ left \in 0 .. setting.statements
    /\ \A c \in Clients :
          /\ client[c].phase \in {"idle", "waiting", "attempt", "commit", "open"}
          /\ client[c].attempt \in 0 .. MAX_CONFLICT_RETRIES - 1 /\ client[c].runs \in 0 .. setting.runs

Tables(view) == {k[2] : k \in {k \in DOMAIN view : k[1] # "ready"}}

(* The index of a table holds the key of every row, and nothing else, once *)
(* it is marked complete; there are no rows or entries without a table; a  *)
(* row's id is below the counter, and no row lacks a NOT NULL cell.        *)
Sound(view) ==
    \A t \in Tables(view) :
        LET schema == load_schema(view, t)
            rows == scan_rows(view, t)
            entries == {<<k[3], view[k]>> : k \in IndexKeys(view, t)}
        IN /\ table_exists(view, t)
           /\ \A i \in DOMAIN rows : rows[i].id < schema.next_row_id /\ check_not_null(schema, rows[i].cells)
           /\ IF schema.primary_key # 0 /\ pk_ready_key(t) \in DOMAIN view
              THEN /\ entries = {<<pk_key(rows[i].cells[schema.primary_key]), rows[i].id>> : i \in DOMAIN rows}
                   /\ Cardinality(entries) = Cardinality(IndexKeys(view, t)) /\ Len(rows) = Cardinality(entries)
              ELSE entries = {}

(* A statement reads in its own transaction tables just as sound, with     *)
(* what earlier statements of the transaction did.                         *)
SessionsSeeSoundTables ==
    \A c \in Clients : client[c].phase = "open" => Sound(Seen(client[c].txn))

(* Whatever statements race, in turn, again, or in transactions of their   *)
(* callers, the tables stay sound: primary keys unique, the index and the  *)
(* rows in step, row ids never given twice; in the store and in what each  *)
(* transaction sees.                                                       *)
TablesStaySound == SqlTypeOK /\ Sound(db) /\ SessionsSeeSoundTables

-----------------------------------------------------------------------------
(* A text is refused only if it is nested too deeply, sets or names a      *)
(* column twice, lists other columns than values, or has other parameters  *)
(* than were supplied.                                                     *)
RECURSIVE Depth(_, _, _)
Depth(e, d, level) ==
    CASE level = 0 /\ e[1] = "or" -> Greatest({Depth(e[2], d, 0), Depth(e[3], d + 1, 1)})
      [] level = 1 /\ e[1] = "and" -> Greatest({Depth(e[2], d, 1), Depth(e[3], d + 1, 2)})
      [] level < 2 /\ e[1] # IF level = 0 THEN "or" ELSE "and" -> Depth(e, d + 1, level + 1)
      [] level = 2 /\ e[1] = "not" -> Depth(e[2], d + 1, 2)
      [] level = 2 /\ e[1] \in {"and", "or"} -> Depth(e, d + 2, 0)
      [] OTHER -> d + 1
Twice(names) == \E i, j \in DOMAIN names : i < j /\ fold[names[i]] = fold[names[j]]
Wrong(text) ==
    LET s == text.stmt
    IN \/ s.kind \in {"select", "update", "delete"} /\ s.filter # <<>> /\ Depth(s.filter[1], 0, 0) > MAX_DEPTH
       \/ s.kind = "update" /\ Twice([i \in DOMAIN s.assignments |-> s.assignments[i][1]])
       \/ s.kind = "insert" /\ (Twice(s.columns) \/ \E i \in DOMAIN s.rows : s.columns # <<>> /\ Len(s.columns) # Len(s.rows[i]))
       \/ text.needs # Len(text.params)

(* The statement that is run is the statement that was written, whatever   *)
(* the precedence, the negations and the parameters; and none is refused   *)
(* without a reason.                                                       *)
RunsWhatIsWritten ==
    /\ answer.kind = "select" => answer.stmt = answer.text.stmt
    /\ answer.kind = "refused" => Wrong(answer.text)
    /\ \A c \in Clients : client[c].stmt # NoStmt => client[c].stmt = client[c].text.stmt

(* The rows a SELECT returns are the rows it asks for, in the order it     *)
(* asks for, whether the index, a scan or the caller's own writes gave     *)
(* them, with SQL's rules for NULL, and groups and aggregates of those.    *)
SelectsMeanTheirClauses ==
    answer.kind = "select" /\ answer.ok =>
        LET s == answer.stmt
            skipped == IF s.offset = <<>> THEN 0 ELSE s.offset[1]
            rows == {<<skipped + i, answer.result.rows[i]>> : i \in DOMAIN answer.result.rows}
            schema == load_schema(answer.seen, s.table)
            projection == project(schema, s.items)
            positions == [p \in DOMAIN projection |-> projection[p][1]]
        IN rows = IF Aggregated(s)
                  THEN GroupMeaning(answer.seen, s, answer.text.params, order_keys_for_output(answer.result.names, s.order_by))
                  ELSE PlainMeaning(answer.seen, s, answer.text.params, positions,
                                    order_keys_for_rows(schema, projection, s.order_by))

(* A statement that goes by keys: its reads are keys it writes.            *)
ByKey(stmt, params) ==
    \/ stmt.kind \in {"insert", "create", "drop"}
    \/ stmt.kind \in {"update", "delete"} /\ table_exists(db, stmt.table)
       /\ KeyValue(load_schema(db, stmt.table), stmt.filter, params) # <<>>

(* When an autocommit statement that goes by keys takes effect it does to  *)
(* the tables of that moment what it would have done had it run then,      *)
(* though it ran on an older snapshot.                                     *)
CommitsAreCurrent ==
    [][\A c \in Clients : client[c].phase = "commit" /\ db' # db /\ client'[c].phase = "idle" =>
          ~ByKey(client[c].stmt, client[c].text.params) \/
              LET o == execute_in(db, client[c].stmt, client[c].text.params)
              IN o.ok /\ db' = Apply(db, o.writes)]_vars

(* A statement that fails in the caller's transaction has changed no row   *)
(* and no schema, and no index, but that it may have built the one of a    *)
(* table from before there were indexes.                                   *)
Contents(view) == Restrict(view, {k \in DOMAIN view : k[1] \in {"schema", "row"}})
FailuresChangeNothing ==
    [][\A c \in Clients : client'[c].phase = "open" /\ client'[c].runs > client[c].runs /\ client'[c].stmt = NoStmt =>
          LET before == Seen(client[c].txn)
              after == Seen(client'[c].txn)
              table == client'[c].text.stmt.table
          IN /\ Contents(after) = Contents(before)
             /\ after # before => pk_ready_key(table) \in DOMAIN after \ DOMAIN before]_vars

(* A statement takes effect entirely and as of now, or not at all.         *)
AllOrNothing == CommitsAreCurrent /\ FailuresChangeNothing

(* A statement that was sent returns: its turn comes, and it is tried only *)
(* so many times.                                                          *)
StatementsReturn ==
    \A c \in Clients : client[c].phase = "waiting" ~> client[c].phase = "idle"
=============================================================================
