------------------------------- MODULE Paging -------------------------------
(***************************************************************************)
(* A client that reads a list page by page, by LIMIT and OFFSET, while     *)
(* requests change the table: the workflow runs, newest update first, or   *)
(* the audit trail, newest entry first.                                    *)
(*                                                                         *)
(* Each page is one statement, so it sees one state of the table, but the  *)
(* next page counts its offset in another state.  Rows with the same time  *)
(* come in any order, in each page anew.  An entry is inserted once; a run *)
(* is written again and again, each time with the time its request took    *)
(* before it wrote.                                                        *)
(***************************************************************************)
EXTENDS Escalation

CONSTANTS
  RunID,        \* workflow runs
  MaxLimit, DefaultLimit, \* of the handler that lists runs
  AskedLimit    \* limits clients ask for

ASSUME PagingAssumption ==
  /\ MaxLimit \in Nat \ {0}
  /\ DefaultLimit \in 1..MaxLimit
  /\ AskedLimit \subseteq Nat
  /\ IsFiniteSet(RunID) /\ IsFiniteSet(EntryID)

VARIABLES
  runs,     \* workflow_runs: time of the last update, and whether the status
            \* is the one a client may filter by
  pager,    \* the client: list, filter, limit and offset, and what it has seen
  base,     \* history: the rows of the list when it began
  rewritten, \* history: runs written since
  split,    \* history: rows behind the end of a page that had the time of a row
            \* before it
  disturbed \* history: a row has moved towards the end or out of the list, or
            \* a page was cut short

pagingVars == <<runs, pager, base, rewritten, split, disturbed>>

NoRun == [at |-> 0, match |-> FALSE]

NotReading ==
  [phase |-> "off", list |-> "none", filtered |-> FALSE, limit |-> 0, offset |-> 0,
   seen |-> {}]

Ready == [NotReading EXCEPT !.phase = "ready"]

PagingInit ==
  /\ base = {}
  /\ rewritten = {}
  /\ split = {}
  /\ disturbed = FALSE

---------------------------------------------------------------------------
\* Writers of workflow_runs

\* The request loads the run, or makes a new one, and takes the time.
LoadRun(t, r, at) ==
  /\ runs[r] = NoRun => \A u \in Thread : req[u].who # r
  /\ Issue
  /\ Stamped(at)
  /\ Accept(t, [Request("update", "write", r) EXCEPT !.at = at])
  /\ UNCHANGED <<process, faults, escalationVars, pagingVars>>

WriteRun(t, match) ==
  /\ At(t, "update", "write")
  /\ LET r == req[t].who
         gone == pager.filtered /\ runs[r].match /\ ~ match IN
     /\ runs' = [runs EXCEPT ![r] = [at |-> req[t].at, match |-> match]]
     /\ rewritten' = rewritten \cup {r}
     /\ disturbed' = (\/ disturbed
                      \/ pager.list = "runs" /\ (req[t].at < runs[r].at \/ gone))
  /\ Return(t)
  /\ UNCHANGED <<process, clock, issued, faults, escalationVars, pager, base, split>>

\* Statuses are told apart only by a client that filters by one.
Matching == IF pager.filtered THEN BOOLEAN ELSE {TRUE}

---------------------------------------------------------------------------
\* The reader

Visible(list, filtered) ==
  IF list = "audit" THEN {e \in EntryID : entries[e] # NoEntry}
  ELSE {r \in RunID : runs[r] # NoRun /\ (filtered => runs[r].match)}

TimeOf(list, x) == IF list = "audit" THEN entries[x].at ELSE runs[x].at

\* The handler of runs puts its default in the place of a limit it does not
\* accept; that of the audit trail takes no limit to be all.
EffectiveLimit(list, asked) ==
  IF list = "audit" \/ asked \in 1..MaxLimit THEN asked ELSE DefaultLimit

BeginPaging(list, filtered, asked) ==
  /\ pager.phase = "ready"
  /\ list = "audit" => ~ filtered
  /\ pager' = [NotReading EXCEPT !.phase = "reading", !.list = list, !.filtered = filtered,
                                 !.limit = EffectiveLimit(list, asked)]
  /\ base' = Visible(list, filtered)
  /\ rewritten' = {}
  /\ split' = {}
  /\ UNCHANGED <<serverVars, escalationVars, runs, disturbed>>

\* Mutant: ORDER BY time ASC.
NewestMutant(list, first, S) ==
  \A x \in first, y \in S \ first : TimeOf(list, x) <= TimeOf(list, y)

\* ORDER BY time DESC may put the rows of first before the others in S.
Newest(list, first, S) ==
  \A x \in first, y \in S \ first : TimeOf(list, y) <= TimeOf(list, x)

Least(m, n) == IF m <= n THEN m ELSE n

\* LIMIT limit OFFSET offset; no limit means no offset either.
IsPage(list, limit, offset, S, skipped, page) ==
  /\ skipped \subseteq S
  /\ page \subseteq S \ skipped
  /\ Cardinality(skipped) = IF limit = 0 THEN 0 ELSE Least(offset, Cardinality(S))
  /\ Cardinality(page) =
       IF limit = 0 THEN Cardinality(S) ELSE Least(limit, Cardinality(S \ skipped))
  /\ Newest(list, skipped, S)
  /\ Newest(list, page, S \ skipped)

\* The rows behind first that ORDER BY could as well have put into it.
Cut(list, first, S) ==
  {x \in S \ first : \E y \in first : TimeOf(list, x) = TimeOf(list, y)}

\* The client stops at a page that is not full, and asks for the next one from
\* behind the last row it has got.
Received(page) ==
  [pager EXCEPT
     !.seen = @ \cup page,
     !.offset = @ + Cardinality(page),
     !.phase = IF pager.limit = 0 \/ Cardinality(page) < pager.limit THEN "done" ELSE "reading"]

ReadPage ==
  /\ process = "serving"
  /\ pager.phase = "reading"
  /\ LET S == Visible(pager.list, pager.filtered) IN
     \E skipped \in SUBSET S : \E page \in SUBSET S :
       /\ IsPage(pager.list, pager.limit, pager.offset, S, skipped, page)
       /\ pager' = Received(page)
       /\ split' = split \cup Cut(pager.list, skipped \cup page, S)
  /\ UNCHANGED <<serverVars, escalationVars, runs, base, rewritten, disturbed>>

\* Mutant: the error after the last row is not looked at in either list.
CutPageMutant ==
  /\ process = "serving"
  /\ pager.phase = "reading"
  /\ Fault
  /\ LET S == Visible(pager.list, pager.filtered) IN
     \E skipped \in SUBSET S : \E page \in SUBSET S, got \in SUBSET S :
       /\ IsPage(pager.list, pager.limit, pager.offset, S, skipped, page)
       /\ got \subseteq page /\ got # page
       /\ Newest(pager.list, got, page)
       /\ pager' = Received(got)
  /\ disturbed' = TRUE
  /\ UNCHANGED <<process, req, clock, issued, escalationVars, runs, base, rewritten, split>>

\* The connection breaks while rows are read.  The list of runs takes that for
\* the end of the rows; the audit trail answers with an error, and the client
\* asks again.
CutPage ==
  /\ process = "serving"
  /\ pager.phase = "reading"
  /\ pager.list = "runs"
  /\ Fault
  /\ LET S == Visible(pager.list, pager.filtered) IN
     \E skipped \in SUBSET S : \E page \in SUBSET S, got \in SUBSET S :
       /\ IsPage(pager.list, pager.limit, pager.offset, S, skipped, page)
       /\ got \subseteq page /\ got # page
       /\ Newest(pager.list, got, page)
       /\ pager' = Received(got)
  /\ disturbed' = TRUE
  /\ UNCHANGED <<process, req, clock, issued, escalationVars, runs, base, rewritten, split>>

PagingStep ==
  \/ \E t \in Thread :
       \/ \E r \in RunID, at \in {clock, clock + 1} : LoadRun(t, r, at)
       \/ \E match \in Matching : WriteRun(t, match)
  \/ \E list \in {"runs", "audit"}, filtered \in BOOLEAN, asked \in AskedLimit :
       BeginPaging(list, filtered, asked)
  \/ ReadPage
  \/ CutPage

---------------------------------------------------------------------------

\* The rows that a reader may miss whatever else the table does.
Excused == IF pager.list = "audit" THEN split ELSE split \cup rewritten

\* When the client has come to the end, it has seen every row that was there
\* when it began, with these exceptions only: a run written since; a row that
\* once stood behind the end of a page and had the time of a row before that
\* end (the lists have no second sort key, so the next page may take the two
\* the other way round); and, for runs, any row if a run's time was set back, a
\* run left the filter, or a page was cut short by an error.
PagesAreComplete ==
  pager.phase = "done" /\ ~ disturbed => base \ Excused \subseteq pager.seen

\* Of the audit trail a client misses no entry that was there when it began,
\* whatever requests do meanwhile and although entries are inserted out of
\* order, but for one exception: of entries with equal times on the two sides
\* of a page's end, one behind it may be missed.  Equal times within a page,
\* or in a trail read without a limit, do no harm.
AuditIsComplete ==
  pager.phase = "done" /\ pager.list = "audit" => base \ split \subseteq pager.seen
=============================================================================
