----------------------------- MODULE FacadeInv -----------------------------
(***************************************************************************)
(* The inductive invariant behind the properties of the facade.            *)
(***************************************************************************)
EXTENDS Facade

Frame ==
  [op : {"idle", "evaluate", "poll", "escalate", "update"},
   pc : {"idle", "save", "respond", "record", "append", "write"},
   who : Client \cup Task \cup RunID \cup {Nobody}, at : Nat,
   answer : {"none", "allow", "granted", "denied", "pending"}, heard : BOOLEAN]

\* What a request is about, by its operation, and that it has taken the time.
FrameOK(f) ==
  /\ f \in Frame
  /\ f.op \in {"evaluate", "poll"} => f.who \in Client
  /\ f.op = "poll" => f.pc = "respond"
  /\ f.op = "escalate" => f.who \in Task
  /\ f.op = "update" => f.who \in RunID
  /\ f.op \in {"escalate", "update"} /\ f.pc \in {"append", "write"} => f.at > 0

FramesOK ==
  /\ clock \in Nat \ {0}
  /\ req \in [Thread -> Frame]
  /\ \A t \in Thread : FrameOK(req[t])

\* A decision is stored before it is answered, and a gate is polled after that.
DecisionsOK ==
  /\ client \in [Client -> {"asking", "rejected", "polling", "proceeding", "stopped", "away"}]
  /\ decisions \in [Client -> Nat]
  /\ \A t \in Thread :
       At(t, "evaluate", "respond") \/ req[t].op = "poll" => decisions[req[t].who] > 0
  /\ AllowIsRecorded

\* An answer that lets a worker pass is true, or older than the gate.
GatesOK ==
  /\ gate \in [Client -> {"none", "pending", "granted", "denied"}]
  /\ opened \in [Client -> {"no", "early", "late"}]
  /\ \A c \in Client : opened[c] = "no" <=> gate[c] = "none"
  /\ \A c \in Sensitive : opened[c] = "no"
  /\ \A t \in Thread :
       req[t].op = "poll" /\ req[t].heard /\ req[t].answer = "granted"
         /\ opened[req[t].who] = "early" => gate[req[t].who] = "granted"
  /\ GateIsRespected

Pager ==
  [phase : {"off", "ready", "reading", "done"}, list : {"none", "runs", "audit"},
   filtered : BOOLEAN, limit : Nat, offset : Nat, seen : SUBSET (RunID \cup EntryID)]

\* The rows that come before p whatever the order of equal times.
Above(p) ==
  {x \in Visible(pager.list, pager.filtered) : TimeOf(pager.list, p) < TimeOf(pager.list, x)}

\* While a list is read, a row that is not excused and has not been seen is
\* still there, and the rows before it are at least as many as the offset.
PagesOK ==
  /\ entries \in [EntryID -> [at : Nat, task : Task \cup {Nobody}]]
  /\ runs \in [RunID -> [at : Nat, match : BOOLEAN]]
  /\ pager \in Pager
  /\ disturbed \in BOOLEAN
  /\ pager.phase \in {"off", "ready"} => ~ disturbed /\ pager.list = "none"
  /\ pager.phase = "reading" => pager.list # "none"
  /\ disturbed => pager.list = "runs"
  /\ pager.phase = "reading" /\ ~ disturbed =>
       \A p \in (base \ Excused) \ pager.seen :
         /\ p \in Visible(pager.list, pager.filtered)
         /\ pager.offset <= Cardinality(Above(p))
  /\ PagesAreComplete

\* Requests about k that have stored their trigger and are not finished.
Unrecorded(k) ==
  {t \in Thread : req[t].op = "escalate" /\ req[t].pc \in {"record", "append"} /\ req[t].who = k}

Unanswered(k) ==
  {t \in Thread : req[t].op = "escalate" /\ req[t].pc \in {"record", "append", "respond"}
                  /\ req[t].who = k}

\* Each trigger has one entry and one answer to give, or a request that still
\* owes it.
EscalationsOK ==
  /\ triggers \in [Task -> Nat]
  /\ told \in [Task -> Nat]
  /\ \A k \in Task :
       /\ Cardinality(EntriesOf(k)) + Cardinality(Unrecorded(k)) <= triggers[k]
       /\ told[k] + Cardinality(Unanswered(k)) <= triggers[k]
       /\ triggers[k] > 0 => k \in KnownTask

\* The inductive invariant of the facade: what requests in flight know of the
\* rows they have written, and what a reader has still to see.
FacadeInvariant ==
  /\ FramesOK
  /\ DecisionsOK
  /\ GatesOK
  /\ PagesOK
  /\ EscalationsOK
=============================================================================
