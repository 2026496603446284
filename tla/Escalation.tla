----------------------------- MODULE Escalation -----------------------------
(***************************************************************************)
(* TriggerEscalation: a trigger is stored as triggered, then an audit      *)
(* entry is written whose error is dropped.  The entry carries the time at *)
(* which it was made, which is before it is inserted.                      *)
(***************************************************************************)
EXTENDS Server

CONSTANTS
  Task,      \* identifiers clients may name
  KnownTask, \* those of rows in tasks
  EntryID    \* audit entries

ASSUME TaskAssumption ==
  /\ KnownTask \subseteq Task
  /\ Nobody \notin Task

VARIABLES
  triggers, \* escalation_triggers: rows by task
  entries,  \* audit_entries: the time and task of each, or NoEntry
  told      \* history: clients told that their task is escalated

escalationVars == <<triggers, entries, told>>

NoEntry == [at |-> 0, task |-> Nobody]

EscalationInit ==
  /\ triggers = [k \in Task |-> 0]
  /\ told = [k \in Task |-> 0]

TriggerEscalation(t, k) ==
  /\ Issue
  /\ Accept(t, Request("escalate", "save", k))
  /\ UNCHANGED <<process, clock, faults, escalationVars>>

InsertTrigger(k) == triggers' = [triggers EXCEPT ![k] = @ + 1]

\* Mutant: the error of the insert is dropped like that of the entry.
SaveTriggerUnchecked(t) ==
  /\ At(t, "escalate", "save")
  /\ IF req[t].who \in KnownTask THEN InsertTrigger(req[t].who) ELSE UNCHANGED triggers
  /\ Goto(t, [req[t] EXCEPT !.pc = "record"])
  /\ UNCHANGED <<process, clock, issued, faults, entries, told>>

\* The task is not looked up first: the foreign key refuses an unknown one.
SaveTrigger(t) ==
  /\ At(t, "escalate", "save")
  /\ IF req[t].who \in KnownTask
       THEN /\ InsertTrigger(req[t].who)
            /\ Goto(t, [req[t] EXCEPT !.pc = "record"])
       ELSE Return(t) /\ UNCHANGED triggers
  /\ UNCHANGED <<process, clock, issued, faults, entries, told>>

\* NewAuditEntry takes the time.
NewAuditEntry(t, at) ==
  /\ At(t, "escalate", "record")
  /\ Stamped(at)
  /\ Goto(t, [req[t] EXCEPT !.pc = "append", !.at = at])
  /\ UNCHANGED <<process, issued, faults, escalationVars>>

FreshID == CHOOSE e \in EntryID : entries[e] = NoEntry

\* Mutant: the entry is inserted once more.
AppendEntryAgain(t) ==
  /\ At(t, "escalate", "append")
  /\ \E e \in EntryID : entries[e] = NoEntry
  /\ entries' = [entries EXCEPT ![FreshID] = [at |-> req[t].at, task |-> req[t].who]]
  /\ UNCHANGED <<process, req, clock, issued, faults, triggers, told>>

AppendEntry(t) ==
  /\ At(t, "escalate", "append")
  /\ \E e \in EntryID : entries[e] = NoEntry
  /\ entries' = [entries EXCEPT ![FreshID] = [at |-> req[t].at, task |-> req[t].who]]
  /\ Goto(t, [req[t] EXCEPT !.pc = "respond"])
  /\ UNCHANGED <<process, clock, issued, faults, triggers, told>>

\* The insert fails, and nobody notices.
AppendEntryFault(t) ==
  /\ At(t, "escalate", "append")
  /\ Fault
  /\ Goto(t, [req[t] EXCEPT !.pc = "respond"])
  /\ UNCHANGED <<process, clock, issued, escalationVars>>

RespondEscalation(t) ==
  /\ At(t, "escalate", "respond")
  /\ told' = IF req[t].heard THEN [told EXCEPT ![req[t].who] = @ + 1] ELSE told
  /\ Return(t)
  /\ UNCHANGED <<process, clock, issued, faults, triggers, entries>>

EscalationStep ==
  \E t \in Thread :
    \/ \E k \in Task : TriggerEscalation(t, k)
    \/ SaveTrigger(t)
    \/ \E at \in {clock, clock + 1} : NewAuditEntry(t, at)
    \/ AppendEntry(t)
    \/ AppendEntryFault(t)
    \/ RespondEscalation(t)

---------------------------------------------------------------------------

EntriesOf(k) == {e \in EntryID : entries[e].task = k}

\* No task has more audit entries saying that it was escalated, or more clients
\* who were told so, than it has stored triggers, and none that is unknown has
\* any: the entry and the answer come after the row.
EscalationIsStored ==
  \A k \in Task :
    /\ Cardinality(EntriesOf(k)) <= triggers[k]
    /\ told[k] <= triggers[k]
    /\ triggers[k] > 0 => k \in KnownTask
=============================================================================
