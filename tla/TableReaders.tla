---------------------------- MODULE TableReaders ----------------------------
(***************************************************************************)
(* The two ways the code reads a table that others write to meanwhile:     *)
(* an export streams it by cursor through a formatter into an upload, and  *)
(* a client walks the pages of a list. A payload pushed with the job takes *)
(* the place of the table in an export.                                    *)
(*                                                                         *)
(* A row is its place in the order, its contents are left out; so is what  *)
(* quotes and escapes a cell. What assembles an export is not in the       *)
(* repository: the pipeline is the one that its documentation and its      *)
(* tests name.                                                             *)
(***************************************************************************)
EXTENDS Integers, FiniteSets, Sequences

CONSTANTS
  Ids,        \* what ids, or creation times, rows may have
  First,      \* rows there are at first
  Readers,    \* who may be reading: records [source, format, reporter, page]
  BatchSize,
  Every,      \* a progress report each so many records
  HighWater,  \* rows the stream between generator and formatter holds
  MaxPageSize,
  MaxChanges  \* bound: no more changes of the table than this

ASSUME SizesAssumption ==
  /\ BatchSize \in Nat \ {0} /\ Every \in Nat \ {0} /\ HighWater \in Nat \ {0}
  /\ MaxPageSize \in Nat \ {0} /\ MaxChanges \in Nat
ASSUME ReadersAssumption ==
  Readers \subseteq [source : {"table", "push", "list"}, format : {"json", "csv", "none"},
                    reporter : {"cursor", "json", "none"}, page : Int]
ASSUME IdsAssumption == Ids \subseteq Nat \ {0} /\ IsFiniteSet(Ids) /\ First \subseteq Ids

VARIABLES
  rows,      \* per id: absent, in (matches the query) or out (does not)
  changes,
  steady,    \* rows that have been in from the start on (history)
  reader,
  gen,       \* the export's generator: count, fetch, yield, resume, final, done
  batch,     \* rows of the batch that are not yielded yet
  short,     \* the batch is smaller than BatchSize
  cursor,    \* the last row of the batch before, 0 at first
  strayed,   \* a cursor was used that was no longer in (history)
  yielded,   \* rows that the generator gave away
  flow,      \* rows between generator and formatter
  out,       \* the text
  file,      \* open, ended (the formatter has no more), closed or failed
  reports,   \* the counts reported
  page,      \* the walk: the page asked for, 0 at its end
  found,     \* answer of the page's query, {0} before it
  total,     \* answer of its count, -1 before it
  shown,     \* per row, on how many pages it was
  upset      \* what happened during the walk: create, remove, race (history)

table == <<rows, changes, steady>>
export == <<gen, batch, short, cursor, strayed, yielded, flow, out, file, reports>>
walk == <<page, found, total, shown>>
vars == <<table, reader, export, walk, upset>>

Least(S) == CHOOSE i \in S : \A j \in S : i <= j
In == {i \in Ids : rows[i] = "in"}
IsExport == reader.source # "list"

Init ==
  /\ rows = [i \in Ids |-> IF i \in First THEN "in" ELSE "absent"]
  /\ changes = 0 /\ steady = First
  /\ reader \in Readers
  /\ gen = IF reader.source = "push" THEN IF First = {} THEN "final" ELSE "yield"
           ELSE IF reader.reporter = "cursor" THEN "count" ELSE "fetch"
  /\ batch = IF reader.source = "push" THEN First ELSE {}
  /\ short = (reader.source = "push")
  /\ cursor = 0 /\ strayed = FALSE
  /\ yielded = <<>> /\ flow = <<>> /\ out = <<>> /\ file = "open" /\ reports = <<>>
  /\ page = 1 /\ found = {0} /\ total = -1
  /\ shown = [i \in Ids |-> 0] /\ upset = {}

-----------------------------------------------------------------------------
(* The others: rows come, go, and begin or cease to match                  *)

Change(i, how) ==
  /\ changes < MaxChanges /\ reader.source # "push"
  /\ changes' = changes + 1
  /\ rows' = [rows EXCEPT ![i] = how]
  /\ steady' = {j \in steady : rows'[j] = "in"}
  /\ UNCHANGED <<reader, export, walk>>

(* A list's new rows are its latest; those of an export have any id.       *)
Create(i) ==
  /\ rows[i] = "absent"
  /\ reader.source = "list" => \A j \in Ids : rows[j] # "absent" => j < i
  /\ Change(i, "in")
  /\ upset' = upset \union {"create"}
                    \union (IF found # {0} \/ total >= 0 THEN {"race"} ELSE {})

Remove(i) ==
  /\ rows[i] = "in"
  /\ Change(i, "out") \/ (IsExport /\ Change(i, "absent"))
  /\ upset' = upset \union {"remove"}

-----------------------------------------------------------------------------
(* The generator                                                           *)

(* take rows of S in ascending order, after the first skip                 *)
Window(S, skip, take) ==
  {i \in S : Cardinality({j \in S : j < i}) \in skip..(skip + take - 1)}

(* Prisma's cursor: the query from the cursor's row on, whether that row   *)
(* still matches or not; when the row is gone the answer is empty.         *)
FindMany(c, skip, take) ==
  CASE c = 0 -> Window(In, skip, take)
    [] c # 0 /\ rows[c] = "absent" -> {}
    [] OTHER -> Window({i \in In : i >= c}, skip, take)

CountRows ==
  /\ gen = "count"
  /\ gen' = "fetch"
  /\ UNCHANGED <<batch, short, cursor, strayed, yielded, reports>>

(* Mutant: the cursor's row again.                                         *)
SkipNone(c) == 0

Skip(c) == IF c = 0 THEN 0 ELSE 1

(* Mutant: a full batch is taken for the last.                             *)
HasMoreFewer == Cardinality(batch') > BatchSize

(* Mutant: no batch is.                                                    *)
HasMoreAlways == Cardinality(batch') <= BatchSize

HasMore == Cardinality(batch') = BatchSize

Fetch ==
  /\ gen = "fetch"
  /\ batch' = FindMany(cursor, Skip(cursor), BatchSize)
  /\ short' = ~ HasMore
  /\ gen' = CASE batch' # {} -> "yield"
              [] batch' = {} /\ HasMore -> "fetch"
              [] OTHER -> "final"
  /\ strayed' = (strayed \/ (cursor # 0 /\ rows[cursor] # "in"))
  /\ UNCHANGED <<cursor, yielded, reports>>

Room == Len(flow) < HighWater

Yield ==
  /\ gen = "yield"
  /\ Room
  /\ yielded' = Append(yielded, Least(batch))
  /\ batch' = batch \ {Least(batch)}
  /\ gen' = "resume"
  /\ UNCHANGED <<short, cursor, strayed, reports>>

(* Mutant: the count starts again with each batch.                         *)
ProcessedOfBatch == Len(yielded) % BatchSize

Processed == Len(yielded)

Report(count) == reports' = Append(reports, count)

(* The consumer asks for the next row.                                     *)
Resume ==
  /\ gen = "resume"
  /\ IF reader.reporter = "cursor" /\ (Processed % Every = 0 \/ short)
     THEN Report(Processed) ELSE UNCHANGED reports
  /\ gen' = CASE batch # {} -> "yield"
              [] batch = {} /\ ~ short -> "fetch"
              [] OTHER -> "final"
  /\ cursor' = IF batch = {} /\ ~ short THEN yielded[Len(yielded)] ELSE cursor
  /\ UNCHANGED <<batch, short, strayed, yielded>>

Final ==
  /\ gen = "final"
  /\ IF reader.reporter = "cursor" THEN Report(Processed) ELSE UNCHANGED reports
  /\ gen' = "done"
  /\ UNCHANGED <<batch, short, cursor, strayed, yielded>>

Generate ==
  /\ IsExport /\ file = "open"
  /\ \/ (CountRows \/ Fetch \/ Resume \/ Final) /\ UNCHANGED flow
     \/ Yield /\ flow' = Append(flow, yielded'[Len(yielded')])
  /\ UNCHANGED <<table, reader, out, file, walk, upset>>

-----------------------------------------------------------------------------
(* The formatters                                                          *)

Written == Len(yielded) - Len(flow)

(* Mutant: the separator follows each record, the last one too.            *)
JsonChunkAfter(i, first) == IF first THEN <<"[", i, ",">> ELSE <<i, ",">>

JsonChunk(i, first) == IF first THEN <<"[", i>> ELSE <<",", i>>

(* headers: true: the columns of the first row are the header, and a row's *)
(* cells are those of the header's columns.                                *)
CsvChunk(i, first) == IF first THEN <<"header", "\n", i>> ELSE <<"\n", i>>

WriteRow ==
  /\ IsExport /\ file = "open"
  /\ flow # <<>>
  /\ flow' = Tail(flow)
  /\ out' = out \o (IF reader.format = "json"
                    THEN JsonChunk(Head(flow), Written = 0)
                    ELSE CsvChunk(Head(flow), Written = 0))
  /\ IF reader.reporter = "json" /\ (Written + 1) % Every = 0
     THEN Report(Written + 1) ELSE UNCHANGED reports
  /\ UNCHANGED <<table, reader, gen, batch, short, cursor, strayed, yielded, file, walk, upset>>

FlushText ==
  CASE reader.format = "csv" -> <<>>
    [] reader.format = "json" /\ Written = 0 -> <<"[]">>
    [] OTHER -> <<"]">>

(* The end of the text is pushed, then the last report is awaited.         *)
Flush ==
  /\ IsExport /\ file = "open"
  /\ gen = "done" /\ flow = <<>>
  /\ out' = out \o FlushText
  /\ file' = "ended"
  /\ UNCHANGED <<table, reader, gen, batch, short, cursor, strayed, yielded, flow, reports,
                 walk, upset>>

(* The last report is made, and the upload has all it was given.           *)
Close ==
  /\ IsExport /\ file = "ended"
  /\ file' = "closed"
  /\ IF reader.reporter = "json" THEN Report(Written) ELSE UNCHANGED reports
  /\ UNCHANGED <<table, reader, gen, batch, short, cursor, strayed, yielded, flow, out,
                 walk, upset>>

(* A query, a progress callback, the serialisation of a row or the upload  *)
(* fails, and the pipeline destroys every stage: also while the last       *)
(* report is awaited, with the whole text pushed.                          *)
FailExport ==
  /\ IsExport /\ file \in {"open", "ended"}
  /\ file' = "failed"
  /\ UNCHANGED <<table, reader, gen, batch, short, cursor, strayed, yielded, flow, out,
                 reports, walk, upset>>

-----------------------------------------------------------------------------
(* The walk: GET with page = 1, 2, ... as long as there is a next page     *)

(* paginationMiddleware: a size that is no number is the default, 1 here.  *)
PageSize ==
  IF reader.page < 1 THEN 1
  ELSE IF reader.page > MaxPageSize THEN MaxPageSize ELSE reader.page

(* Mutant: the page's size is forgotten.                                   *)
OffsetFixed == page - 1

Offset == (page - 1) * PageSize

(* Rows of a list are the latest first: its order is the reverse.          *)
Latest(S, skip, take) ==
  {i \in S : Cardinality({j \in S : j > i}) \in skip..(skip + take - 1)}

Walking == ~ IsExport /\ page > 0

(* The two queries of a page run at once.                                  *)
FindPage ==
  /\ Walking /\ found = {0}
  /\ found' = Latest(In, Offset, PageSize)
  /\ UNCHANGED <<table, reader, export, page, total, shown, upset>>

CountPage ==
  /\ Walking /\ total = -1
  /\ total' = Cardinality(In)
  /\ UNCHANGED <<table, reader, export, page, found, shown, upset>>

(* Mutant: pages are rounded down.                                         *)
TotalPagesDown == total \div PageSize

TotalPages == (total + PageSize - 1) \div PageSize

RespondPage ==
  /\ Walking /\ found # {0} /\ total >= 0
  /\ shown' = [i \in Ids |-> shown[i] + (IF i \in found THEN 1 ELSE 0)]
  /\ page' = IF page < TotalPages THEN page + 1 ELSE 0
  /\ found' = {0} /\ total' = -1
  /\ UNCHANGED <<table, reader, export, upset>>

-----------------------------------------------------------------------------
ReadStep == Generate \/ WriteRow \/ Flush \/ Close \/ FindPage \/ CountPage \/ RespondPage

Next ==
  \/ ReadStep \/ FailExport
  \/ \E i \in Ids : Create(i) \/ Remove(i)

Spec == Init /\ [][Next]_vars

(* A query is answered, and a consumer asks for the next row.              *)
FairSpec == Spec /\ WF_vars(ReadStep)

-----------------------------------------------------------------------------
(* Properties                                                              *)

(* Types, and the bounds of what is in memory.                             *)
TypeOK ==
  /\ rows \in [Ids -> {"absent", "in", "out"}] /\ changes \in Nat /\ steady \subseteq Ids
  /\ reader \in Readers
  /\ gen \in {"count", "fetch", "yield", "resume", "final", "done"}
  /\ batch \subseteq Ids /\ short \in BOOLEAN
  /\ cursor \in Ids \union {0} /\ strayed \in BOOLEAN
  /\ yielded \in Seq(Ids) /\ flow \in Seq(Ids) /\ Len(flow) <= HighWater
  /\ file \in {"open", "ended", "closed", "failed"} /\ reports \in Seq(Nat)
  /\ page \in Nat /\ found \subseteq Ids \union {0} /\ total \in Nat \union {-1}
  /\ shown \in [Ids -> Nat] /\ upset \subseteq {"create", "remove", "race"}

(* No row is exported twice, and rows keep their order, whatever comes and *)
(* goes between the batches. [Property P6 in p6-pagination-consistency]    *)
ExportedOnceInOrder ==
  \A k, l \in 1..Len(yielded) : k < l => yielded[k] < yielded[l]

(* An export that ends has every row that matched all along, if each row   *)
(* it stopped at still matched when it went on: when that row is deleted   *)
(* the export ends there, when it has changed one row is skipped.          *)
SteadyRowsExported ==
  reader.source = "table" /\ file = "closed" /\ ~ strayed =>
    \A i \in steady : \E k \in 1..Len(yielded) : yielded[k] = i

(* What JSON text of the records is: [ a , b , c ]                         *)
JsonText(s) ==
  IF s = <<>> THEN <<"[]">>
  ELSE [k \in 1..(2 * Len(s) + 1) |->
          CASE k = 1 -> "["
            [] k = 2 * Len(s) + 1 -> "]"
            [] k % 2 = 0 -> s[k \div 2]
            [] OTHER -> ","]

(* A JSON export that is closed is one well-formed array of all its rows,  *)
(* and a text that reads as an array, of an export that goes on or failed, *)
(* has all of them: none that breaks off is taken for a shorter array.     *)
WellFormedJson ==
  reader.source # "list" /\ reader.format = "json" =>
    /\ file = "closed" => out = JsonText(yielded)
    /\ (\E k \in 0..Len(yielded) : out = JsonText(SubSeq(yielded, 1, k)))
         => gen = "done" /\ out = JsonText(yielded)

(* Progress never goes back, and the last report of an export that ends is *)
(* the number of its rows.                                                 *)
ReportsRise ==
  /\ \A k, l \in 1..Len(reports) : k < l => reports[k] <= reports[l]
  /\ file = "closed" /\ reader.reporter # "none" => reports[Len(reports)] = Len(yielded)

(* The walk shows every key that there was from its start to its end, if   *)
(* none was removed and none was created between the two queries of one    *)
(* page. [Property P6]                                                     *)
WalkMissesNone ==
  ~ IsExport /\ page = 0 /\ upset \subseteq {"create"} =>
    \A i \in steady : shown[i] >= 1

(* The walk shows no key twice if none was created.                        *)
WalkRepeatsNone ==
  ~ IsExport /\ "create" \notin upset => \A i \in Ids : shown[i] <= 1

(* What an export gives away is true: its rows are the query's, in order   *)
(* and complete, and so is the count that is reported of them.             *)
ExportSound == ExportedOnceInOrder /\ SteadyRowsExported /\ ReportsRise

(* A walk over the pages shows each key once.                              *)
WalkSound == WalkMissesNone /\ WalkRepeatsNone

(* Every export and every walk ends, although the table changes between    *)
(* its queries: a batch that is not full is the last.                      *)
ReadingEnds == <>(IF IsExport THEN file \in {"closed", "failed"} ELSE page = 0)
=============================================================================
