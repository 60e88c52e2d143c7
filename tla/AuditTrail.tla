----------------------------- MODULE AuditTrail -----------------------------
(***************************************************************************)
(* What the audit log says of a row: src/shared/utils/auditLogger.ts under *)
(* the handlers that call it, those of routes/users.ts and of              *)
(* clientService.  A handler reads the row, writes it, reads it again and  *)
(* inserts the entry in as many statements, outside of a transaction, and  *)
(* logAudit swallows its errors.  Two writers log nothing at all, those of *)
(* POST /auth/register and DELETE /clients/:id.                            *)
(*                                                                         *)
(* A row's audited columns are a version, new with every write, so that    *)
(* two values are never mistaken for one another.                          *)
(***************************************************************************)
EXTENDS Integers, FiniteSets

CONSTANTS
    UserRows,       \* ids of users, which are created, updated and deleted
    ClientRows,     \* ids of clients, which are created, updated and deactivated
    Handlers,       \* requests in a handler at a time
    MaxWrites       \* bound: writes of a row

ASSUME WritesAssumption == MaxWrites \in Nat \ {0} /\ UserRows \cap ClientRows = {}

Rows == UserRows \cup ClientRows
Versions == 1..MaxWrites
NoRow == 0

VARIABLES
    row,            \* [Rows -> version, or NoRow before its INSERT and after its DELETE]
    writes,         \* [Rows -> writes so far]
    trail,          \* audit_log: set of [row, action, old, new]
    deleteEntries,  \* history: [Rows -> entries of action DELETE]
    unrecorded,     \* history: <<row, version>> that no entry records: its writer lost it,
                    \*     or is one that logs nothing
    handler         \* [Handlers -> HandlerState]

auditVars == <<row, writes, trail, deleteEntries, unrecorded, handler>>

NoHandler == [pc |-> "idle"]
HandlerState ==
    {NoHandler} \cup
    [pc : {"inserted", "read", "updated", "reread", "to_delete", "deleted"}, row : Rows,
     old : 0..MaxWrites, wrote : 0..MaxWrites, new : 0..MaxWrites]
Entry == [row : Rows, action : {"INSERT", "UPDATE", "DELETE"}, old : 0..MaxWrites, new : 0..MaxWrites]

AuditInit ==
    /\ row = [r \in Rows |-> NoRow]
    /\ writes = [r \in Rows |-> 0]
    /\ trail = {}
    /\ deleteEntries = [r \in Rows |-> 0]
    /\ unrecorded = {}
    /\ handler = [h \in Handlers |-> NoHandler]

-----------------------------------------------------------------------------
Enter(h, pc, r, old, wrote) ==
    handler' = [handler EXCEPT ![h] = [pc |-> pc, row |-> r, old |-> old, wrote |-> wrote, new |-> NoRow]]
Leave(h) == handler' = [handler EXCEPT ![h] = NoHandler]

\* A statement that writes the row; version is how the handler knows its own.
WriteRow(r) ==
    /\ writes[r] < MaxWrites
    /\ writes' = [writes EXCEPT ![r] = @ + 1]
    /\ row' = [row EXCEPT ![r] = writes[r] + 1]

\* The INSERT of POST /users and of createClient, under a new id.
InsertRow(h, r) ==
    /\ handler[h] = NoHandler
    /\ writes[r] = 0
    /\ WriteRow(r)
    /\ Enter(h, "inserted", r, NoRow, 1)
    /\ UNCHANGED <<trail, deleteEntries, unrecorded>>

\* PATCH /users/:id and updateClient read the row; without one they end.
ReadToUpdate(h, r) ==
    /\ handler[h] = NoHandler
    /\ row[r] # NoRow
    /\ Enter(h, "read", r, row[r], NoRow)
    /\ UNCHANGED <<row, writes, trail, deleteEntries, unrecorded>>

\* Mutant: the handler reads the row again before its UPDATE.
UpdateRowAfterReading(h) ==
    /\ handler[h].pc = "read"
    /\ LET r == handler[h].row
       IN /\ row[r] # NoRow
          /\ WriteRow(r)
          /\ handler' = [handler EXCEPT ![h].pc = "reread", ![h].wrote = writes[r] + 1, ![h].new = row[r]]
    /\ UNCHANGED <<trail, deleteEntries, unrecorded>>

\* The UPDATE, which finds no row when a DELETE came first.
UpdateRow(h) ==
    /\ handler[h].pc = "read"
    /\ LET r == handler[h].row
       IN \/ /\ row[r] # NoRow
             /\ WriteRow(r)
             /\ Enter(h, "updated", r, handler[h].old, writes[r] + 1)
          \/ /\ row[r] = NoRow
             /\ Enter(h, "updated", r, handler[h].old, NoRow)
             /\ UNCHANGED <<row, writes>>
    /\ UNCHANGED <<trail, deleteEntries, unrecorded>>

\* Nothing to update: the handler throws or returns the row.
UpdateNothing(h) ==
    /\ handler[h].pc = "read"
    /\ Leave(h)
    /\ UNCHANGED <<row, writes, trail, deleteEntries, unrecorded>>

\* The row is read again; one that is gone ends the handler without an entry.
ReadUpdated(h) ==
    /\ handler[h].pc = "updated"
    /\ LET now == row[handler[h].row]
       IN IF now = NoRow
          THEN Leave(h)
          ELSE handler' = [handler EXCEPT ![h].pc = "reread", ![h].new = now]
    /\ UNCHANGED <<row, writes, trail, deleteEntries, unrecorded>>

\* DELETE /users/:id reads the row for its entry.
ReadToDelete(h, r) ==
    /\ handler[h] = NoHandler
    /\ row[r] # NoRow
    /\ Enter(h, "to_delete", r, row[r], NoRow)
    /\ UNCHANGED <<row, writes, trail, deleteEntries, unrecorded>>

\* Mutant: the DELETE's affectedRows are not looked at.
DeleteRowAnyhow(h) ==
    /\ handler[h].pc = "to_delete"
    /\ row' = [row EXCEPT ![handler[h].row] = NoRow]
    /\ handler' = [handler EXCEPT ![h].pc = "deleted"]
    /\ UNCHANGED <<writes, trail, deleteEntries, unrecorded>>

\* The DELETE; without affected rows the handler throws.
DeleteRow(h) ==
    /\ handler[h].pc = "to_delete"
    /\ IF row[handler[h].row] = NoRow
       THEN Leave(h)
       ELSE handler' = [handler EXCEPT ![h].pc = "deleted"]
    /\ row' = [row EXCEPT ![handler[h].row] = NoRow]
    /\ UNCHANGED <<writes, trail, deleteEntries, unrecorded>>

\* POST /auth/register: the INSERT of a new id into users.  No entry follows.
RegisterUnlogged(r) ==
    /\ writes[r] = 0
    /\ WriteRow(r)
    /\ unrecorded' = unrecorded \cup {<<r, 1>>}
    /\ UNCHANGED <<trail, deleteEntries, handler>>

\* DELETE /clients/:id writes is_active and logs nothing.
DeactivateUnlogged(r) ==
    /\ row[r] # NoRow
    /\ WriteRow(r)
    /\ unrecorded' = unrecorded \cup {<<r, writes[r] + 1>>}
    /\ UNCHANGED <<trail, deleteEntries, handler>>

Wrote(h) == <<handler[h].row, handler[h].wrote>>

\* logInsert, logUpdate and logDelete, over logAudit.  The first takes the
\* values of the request, the second those that were read.
LogAudit(h) ==
    LET e == handler[h]
        Log(action, old, new) == [row |-> e.row, action |-> action, old |-> old, new |-> new]
    IN /\ e.pc \in {"inserted", "reread", "deleted"}
       /\ trail' = trail \cup {CASE e.pc = "inserted" -> Log("INSERT", NoRow, e.wrote)
                                 [] e.pc = "reread" -> Log("UPDATE", e.old, e.new)
                                 [] e.pc = "deleted" -> Log("DELETE", e.old, NoRow)}
       /\ deleteEntries' = IF e.pc = "deleted" THEN [deleteEntries EXCEPT ![e.row] = @ + 1] ELSE deleteEntries
       /\ Leave(h)
       /\ UNCHANGED <<row, writes, unrecorded>>

\* logAudit's INSERT fails, another statement throws, or the process exits.
HandlerEnds(h) ==
    /\ handler[h] # NoHandler
    /\ unrecorded' = IF handler[h].wrote = NoRow THEN unrecorded ELSE unrecorded \cup {Wrote(h)}
    /\ Leave(h)
    /\ UNCHANGED <<row, writes, trail, deleteEntries>>

AuditNext ==
    \/ \E h \in Handlers :
          \/ \E r \in Rows : InsertRow(h, r) \/ ReadToUpdate(h, r)
          \/ \E r \in UserRows : ReadToDelete(h, r)
          \/ UpdateRow(h) \/ UpdateNothing(h) \/ ReadUpdated(h) \/ DeleteRow(h)
          \/ LogAudit(h) \/ HandlerEnds(h)
    \/ \E r \in UserRows : RegisterUnlogged(r)
    \/ \E r \in ClientRows : DeactivateUnlogged(r)

AuditSpec == AuditInit /\ [][AuditNext]_auditVars

-----------------------------------------------------------------------------
\* Types.
AuditTypeOK ==
    /\ row \in [Rows -> 0..MaxWrites]
    /\ writes \in [Rows -> 0..MaxWrites]
    /\ trail \subseteq Entry
    /\ deleteEntries \in [Rows -> Nat]
    /\ unrecorded \subseteq Rows \X Versions
    /\ handler \in [Handlers -> HandlerState]

\* However the handlers that log overlap, what a row holds now is the new value
\* of some entry, or the handler that wrote it has still to log it, unless that
\* handler's entry was lost, or the row was written by one of the two routes that
\* log nothing, POST /auth/register and DELETE /clients/:id.  The entry need not
\* be the last one of the row, and versions that were overwritten before their
\* writer read the row again are in no entry.
CurrentValueRecorded ==
    \A r \in Rows :
        \/ row[r] = NoRow
        \/ \E e \in trail : e.row = r /\ e.new = row[r]
        \/ \E h \in Handlers : handler[h] # NoHandler /\ Wrote(h) = <<r, row[r]>>
        \/ <<r, row[r]>> \in unrecorded

\* Of deletions that overlap, one is logged: an entry says that its request
\* removed the row.
DeletedOnce == \A r \in Rows : deleteEntries[r] <= IF row[r] = NoRow THEN 1 ELSE 0
=============================================================================
