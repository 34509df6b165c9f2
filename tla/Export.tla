------------------------------- MODULE Export -------------------------------
(***************************************************************************)
(* The export of everything held about a user: each table is read in pages *)
(* by offset while other writers go on, the document is checked, written   *)
(* to a file and handed to the share sheet.                                *)
(*                                                                         *)
(* A row is its key; a table is what it holds at each read of a page.      *)
(***************************************************************************)
EXTENDS Integers, Sequences, FiniteSets, SequencesExt

CONSTANTS PageSize, MaxRows

\* Where each table goes in the document, in the order they are read; titles of events stay out.
ExportTables ==
  <<[name |-> "profiles", omit |-> {}, one |-> TRUE], [name |-> "tasks", omit |-> {}, one |-> FALSE],
    [name |-> "calendar_events", omit |-> {"title"}, one |-> FALSE], [name |-> "plans", omit |-> {}, one |-> FALSE],
    [name |-> "recommendations", omit |-> {}, one |-> FALSE], [name |-> "events", omit |-> {}, one |-> FALSE],
    [name |-> "feedback_rewards", omit |-> {}, one |-> FALSE], [name |-> "belief_labels", omit |-> {}, one |-> FALSE],
    [name |-> "study_assignments", omit |-> {}, one |-> FALSE], [name |-> "beta_cells", omit |-> {}, one |-> FALSE],
    [name |-> "bandit_state", omit |-> {}, one |-> FALSE], [name |-> "blend_state", omit |-> {}, one |-> TRUE],
    [name |-> "duration_estimates", omit |-> {}, one |-> FALSE], [name |-> "cluster_assignments", omit |-> {}, one |-> TRUE]>>

\* Bookkeeping about the rows, not the user's data.
ServerOnlyTables == {"sync_ops", "sync_leases", "gcal_sync_state", "recsys_applied_tuples"}

Strip(row, omit) == [column \in DOMAIN row \ omit |-> row[column]]

\* Rows from + 1 .. from + size in the table's order.
Page(rows, from, size) ==
  LET sorted == [i \in 1 .. Cardinality(rows) |-> CHOOSE r \in rows : Cardinality({q \in rows : q < r}) = i - 1]
      upTo   == IF from + size < Len(sorted) THEN from + size ELSE Len(sorted)
  IN SubSeq(sorted, from + 1, upTo)

NothingRead == [rows |-> <<>>, from |-> 0, done |-> FALSE, truncated |-> FALSE]

\* Mutant: a full page is taken for the last.
ReadPageEager(acc, rows, size, limit) ==
  LET page == Page(rows, acc.from, size)
      next == [acc EXCEPT !.rows = @ \o page, !.from = @ + size]
  IN CASE acc.done -> acc
       [] ~acc.done /\ Len(page) <= size -> [next EXCEPT !.done = TRUE]
       [] OTHER -> next

\* A page: a short one is the last, and a table too long is cut and says so.
ReadPage(acc, rows, size, limit) ==
  LET page == Page(rows, acc.from, size)
      next == [acc EXCEPT !.rows = @ \o page, !.from = @ + size]
  IN CASE acc.done -> acc
       [] ~acc.done /\ Len(page) < size   -> [next EXCEPT !.done = TRUE]
       [] ~acc.done /\ Len(page) = size /\ next.from >= limit -> [next EXCEPT !.done = TRUE, !.truncated = TRUE]
       [] OTHER -> next

\* readAll over what the table holds at each read.
ReadAll(reads) == FoldLeft(LAMBDA acc, rows : ReadPage(acc, rows, PageSize, MaxRows), NothingRead, reads)

\* A row's columns, those the properties tell apart.
Row(key) == [id |-> key, title |-> "text"]

\* The document; a table of one row is that row, or nothing.
BuildExport(contents) ==
  LET read   == [n \in DOMAIN ExportTables |-> ReadAll(contents[n])]
      out(n) == [i \in DOMAIN read[n].rows |-> Strip(Row(read[n].rows[i]), ExportTables[n].omit)] IN
  [format    |-> "hourwell-export",
   data      |-> [n \in DOMAIN ExportTables |->
                    IF ExportTables[n].one THEN SubSeq(out(n), 1, 1) ELSE out(n)],
   counts    |-> [n \in DOMAIN ExportTables |-> Len(read[n].rows)],
   truncated |-> {ExportTables[n].name : n \in {m \in DOMAIN ExportTables : read[m].truncated}}]

\* The call, refused without a user.
HandleExport(method, user, contents) ==
  CASE method \notin {"GET", "POST"} -> [status |-> 405, document |-> <<>>]
    [] method \in {"GET", "POST"} /\ ~user -> [status |-> 401, document |-> <<>>]
    [] OTHER -> [status |-> 200, document |-> <<BuildExport(contents)>>]

\* What the device makes of the answer: the result, and whether a file was written and shared.
ExportData(answer, canShare) ==
  CASE answer.kind # "ok" ->
         [code |-> CASE answer.kind = "no-session" -> "no_session" [] answer.kind = "offline" -> "offline"
                     [] OTHER -> "failed",
          written |-> FALSE, shared |-> FALSE]
    [] answer.kind = "ok" /\ answer.format # "hourwell-export" -> [code |-> "failed", written |-> FALSE, shared |-> FALSE]
    [] answer.kind = "ok" /\ answer.format = "hourwell-export" /\ ~canShare ->
         [code |-> "share_unavailable", written |-> TRUE, shared |-> FALSE]
    [] OTHER -> [code |-> "ok", written |-> TRUE, shared |-> TRUE]

-----------------------------------------------------------------------------

Kept(reads) == {row \in UNION {reads[i] : i \in DOMAIN reads} : \A i \in DOMAIN reads : row \in reads[i]}

NothingDeleted(reads) == \A i \in 1 .. Len(reads) - 1 : reads[i] \subseteq reads[i + 1]
NothingWritten(reads) == \A i \in 1 .. Len(reads) - 1 : reads[i] = reads[i + 1]

\* Unless it says it was cut, the document holds every row that was there throughout.
Complete(reads) ==
  LET read == ReadAll(reads) IN ~read.truncated => Kept(reads) \subseteq ToSet(read.rows)
=============================================================================
