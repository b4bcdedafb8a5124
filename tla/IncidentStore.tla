---------------------------- MODULE IncidentStore ----------------------------
(***************************************************************************)
(* PostgresStorageClient (storage/qdrant_client.py): the incident reports  *)
(* and the audit log.  Every method runs in a thread of the executor, and  *)
(* all threads share one psycopg2 connection and so one transaction: a     *)
(* method executes its statement and then commits, and the methods of      *)
(* others come in between.  Nothing ever rolls back: a statement that      *)
(* fails leaves the transaction aborted, and the next COMMIT of anybody    *)
(* ends it without an error and without effect.                            *)
(***************************************************************************)
EXTENDS Integers, FiniteSets

CONSTANTS
  Threads,      \* the threads of the executor
  Incidents,    \* the incident IDs in use
  Logs,         \* the log IDs in use
  MaxFaults,    \* bound: statements that fail
  MaxLosses     \* bound: connections lost or given up at a restart

ASSUME StoreAssumption ==
  /\ IsFiniteSet(Threads) /\ "none" \notin Threads
  /\ MaxFaults \in Nat /\ MaxLosses \in Nat
  /\ Incidents \cap Logs = {}

VARIABLES
  disk,      \* the committed tables
  view,      \* the tables as the connection's transaction sees them
  tx,        \* the connection: no transaction, one open, one aborted, or lost
  tpc,       \* where each thread is in its method
  work,      \* the method of each thread, with its argument
  dirty,     \* history: the threads whose statement is in the open transaction
  undone,    \* history: the threads whose statement was undone
  acked,     \* history: the methods that returned, their statement not undone
  hollow,    \* history: how many returned although it was
  faults,    \* bound
  losses     \* bound

history == <<acked, hollow>>
storeVars == <<disk, view, tx, tpc, work, dirty, undone, acked, hollow, faults, losses>>

-----------------------------------------------------------------------------
Rows == {"none", "stored", "reviewed"}     \* of a report

Tables == [reports : [Incidents -> Rows], audit : [Logs -> Threads \cup {"none"}]]
Empty  == [reports |-> [i \in Incidents |-> "none"], audit |-> [l \in Logs |-> "none"]]

NoWork  == [op |-> "none", key |-> "none"]
Methods == [op : {"save", "review", "missed"}, key : Incidents] \cup [op : {"audit"}, key : Logs]

StoreTypeOK ==
  /\ disk \in Tables /\ view \in Tables
  /\ tx \in {"none", "open", "aborted", "lost"}
  /\ tpc \in [Threads -> {"idle", "executed"}]
  /\ work \in [Threads -> Methods \cup {NoWork}]
  /\ dirty \in SUBSET Threads /\ undone \in SUBSET Threads
  /\ acked \in SUBSET Methods /\ hollow \in Nat
  /\ faults \in 0 .. MaxFaults /\ losses \in 0 .. MaxLosses

(* The tables are created if they do not exist, and that is committed. *)
StoreInit ==
  /\ disk = Empty /\ view = Empty /\ tx = "none"
  /\ tpc = [t \in Threads |-> "idle"] /\ work = [t \in Threads |-> NoWork]
  /\ dirty = {} /\ undone = {} /\ acked = {} /\ hollow = 0
  /\ faults = 0 /\ losses = 0

-----------------------------------------------------------------------------
(* The statements. *)

(* Mutant: the row is replaced as a whole. *)
Replaced(tables, i) ==
  [tables EXCEPT !.reports[i] = "stored"]

(* ON CONFLICT DO UPDATE rewrites every column but those of the review;    *)
(* what the others hold is not part of the model.                          *)
Saved(tables, i) ==
  IF tables.reports[i] = "none" THEN [tables EXCEPT !.reports[i] = "stored"] ELSE tables

(* ON CONFLICT DO NOTHING *)
Logged(tables, l, t) ==
  IF tables.audit[l] = "none" THEN [tables EXCEPT !.audit[l] = t] ELSE tables

(* The UPDATE of a row that is not there changes nothing. *)
Reviewed(tables, i) ==
  IF tables.reports[i] # "none" THEN [tables EXCEPT !.reports[i] = "reviewed"] ELSE tables

-----------------------------------------------------------------------------
Usable  == tx \in {"none", "open"}
Between == {t \in Threads : tpc[t] = "executed"}

(* Mutant: the statement is sent whatever state the transaction is in. *)
ExecuteAnyhow(t, op, key, after) ==
  /\ tpc[t] = "idle" /\ tx # "lost"
  /\ view' = after
  /\ tx' = "open"
  /\ tpc' = [tpc EXCEPT ![t] = "executed"]
  /\ work' = [work EXCEPT ![t] = [op |-> op, key |-> key]]
  /\ dirty' = dirty \cup {t}
  /\ UNCHANGED <<disk, undone, history, faults, losses>>

(* cur.execute: the first statement opens a transaction. *)
Execute(t, op, key, after) ==
  /\ tpc[t] = "idle" /\ Usable
  /\ view' = after
  /\ tx' = "open"
  /\ tpc' = [tpc EXCEPT ![t] = "executed"]
  /\ work' = [work EXCEPT ![t] = [op |-> op, key |-> key]]
  /\ dirty' = dirty \cup {t}
  /\ UNCHANGED <<disk, undone, history, faults, losses>>

Save(t) == \E i \in Incidents : Execute(t, "save", i, Saved(view, i))
Log(t)  == \E l \in Logs : Execute(t, "audit", l, Logged(view, l, t))
Review(t) ==
  \E i \in Incidents :
    Execute(t, IF view.reports[i] # "none" THEN "review" ELSE "missed", i, Reviewed(view, i))

(* get_incident_history, get_pending_reviews: they do not commit. *)
Read ==
  /\ Usable /\ tx' = "open"
  /\ UNCHANGED <<disk, view, tpc, work, dirty, undone, history, faults, losses>>

Leave(t) ==
  /\ tpc' = [tpc EXCEPT ![t] = "idle"]
  /\ work' = [work EXCEPT ![t] = NoWork]
  /\ undone' = undone \ {t}

Return(t) ==
  /\ Leave(t)
  /\ IF t \in undone
     THEN hollow' = hollow + 1 /\ acked' = acked
     ELSE hollow' = hollow /\ acked' = acked \cup {work[t]}

Undo ==
  /\ undone' = undone \cup dirty
  /\ dirty' = {}

(* Mutant: the method returns without a commit. *)
CommitForgotten(t) ==
  /\ tpc[t] = "executed" /\ tx # "lost"
  /\ Return(t)
  /\ dirty' = dirty \ {t}
  /\ UNCHANGED <<disk, view, tx, faults, losses>>

(* self.conn.commit() ends the transaction of everybody, and the method    *)
(* returns: after an aborted one as well.                                  *)
Commit(t) ==
  /\ tpc[t] = "executed" /\ tx # "lost"
  /\ disk' = IF tx = "aborted" THEN disk ELSE view
  /\ view' = disk'
  /\ tx' = "none" /\ dirty' = {}
  /\ Return(t)
  /\ UNCHANGED <<faults, losses>>

(* A statement of a thread fails: a value that the column does not take, a *)
(* timeout of the server.  The statements not committed are undone.        *)
Fail(t) ==
  /\ tpc[t] = "idle" /\ Usable /\ faults < MaxFaults
  /\ tx' = "aborted" /\ view' = disk
  /\ Undo
  /\ faults' = faults + 1
  /\ UNCHANGED <<disk, tpc, work, history, losses>>

(* The server or the network ends the connection, perhaps just after it    *)
(* took a COMMIT; a client does not connect again.                         *)
LoseConnection ==
  /\ tx # "lost" /\ losses < MaxLosses
  /\ tx' = "lost"
  /\ disk' \in {disk} \cup {view : t \in Between}
  /\ view' = disk'
  /\ Undo
  /\ losses' = losses + 1
  /\ UNCHANGED <<tpc, work, history, faults>>

(* The commit raises. *)
CommitRaises(t) ==
  /\ tpc[t] = "executed" /\ tx = "lost"
  /\ Leave(t)
  /\ UNCHANGED <<disk, view, tx, dirty, history, faults, losses>>

(* The process is started again, with a new client. *)
Restart ==
  /\ tx = "lost" \/ losses < MaxLosses
  /\ losses' = IF tx = "lost" THEN losses ELSE losses + 1
  /\ tx' = "none" /\ view' = disk
  /\ tpc' = [t \in Threads |-> "idle"] /\ work' = [t \in Threads |-> NoWork]
  /\ dirty' = {} /\ undone' = {}
  /\ UNCHANGED <<disk, history, faults>>

(* Every statement raises until the process is started again. *)
Stuck == tx \in {"aborted", "lost"} /\ Between = {} /\ UNCHANGED storeVars

StoreNext ==
  \/ \E t \in Threads : Save(t) \/ Log(t) \/ Review(t) \/ Commit(t) \/ CommitRaises(t) \/ Fail(t)
  \/ Read \/ LoseConnection \/ Restart \/ Stuck

StoreSpec == StoreInit /\ [][StoreNext]_storeVars

-----------------------------------------------------------------------------
(* What a method is to leave in the tables. *)
IsIn(m, tables) ==
  CASE m.op = "save"   -> tables.reports[m.key] # "none"
    [] m.op = "review" -> tables.reports[m.key] = "reviewed"
    [] m.op = "audit"  -> tables.audit[m.key] # "none"
    [] OTHER           -> TRUE

(* The tables only gain by it. *)
Within(a, b) ==
  /\ \A i \in Incidents : a.reports[i] # "none" => b.reports[i] \in {a.reports[i], "reviewed"}
  /\ \A l \in Logs : a.audit[l] # "none" => b.audit[l] = a.audit[l]

(* The inductive invariant: the connection sees what is committed and, in  *)
(* an open transaction, what the threads between execute and commit have   *)
(* written; a thread whose statement is neither in the transaction nor     *)
(* undone finds it committed by another thread.                            *)
StoreInd ==
  /\ StoreTypeOK
  /\ dirty \cup undone \subseteq Between /\ dirty \cap undone = {}
  /\ \A t \in Threads : tpc[t] = "executed" <=> work[t] # NoWork
  /\ tx # "open" => view = disk /\ dirty = {}
  /\ Within(disk, view)
  /\ \A t \in dirty : IsIn(work[t], view)
  /\ \A t \in Between \ (dirty \cup undone) : IsIn(work[t], disk)
  /\ \A m \in acked : IsIn(m, disk)

(* A method that returned has left its row in the committed tables, with   *)
(* any other methods between its two calls, and with connections lost; the *)
(* one exception is a statement of another thread that fails between them. *)
(* One failure makes at most every other thread return for nothing.        *)
AcknowledgedIsStored ==
  /\ \A m \in acked : IsIn(m, disk)
  /\ hollow <= faults * (Cardinality(Threads) - 1)

(* A report saved again keeps its review, and the first writer of an audit *)
(* entry stays its writer, whatever is undone, whoever commits and whenever *)
(* the connection is lost (qdrant_client.py:317-342, 401-409).             *)
HistoryIsKept == [][Within(disk, disk')]_storeVars

(* After a statement has failed with no other thread between execute and   *)
(* commit, nothing is stored or acknowledged any more on this connection.  *)
Poisoned == tx = "aborted" /\ Between = {}
PoisonLasts == [][Poisoned /\ tx' # "none" => (Poisoned' \/ tx' = "lost")
                                             /\ UNCHANGED <<disk, acked>>]_storeVars

=============================================================================
