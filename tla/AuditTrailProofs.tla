-------------------------- MODULE AuditTrailProofs --------------------------
(***************************************************************************)
(* Proofs about the audit entries of overlapping handlers, for any number  *)
(* of rows, handlers and writes.                                           *)
(***************************************************************************)
EXTENDS AuditTrail, TLAPS

-----------------------------------------------------------------------------
(***************************************************************************)
(* Types.                                                                  *)
(***************************************************************************)

Busy == [pc : {"inserted", "read", "updated", "reread", "to_delete", "deleted"}, row : Rows,
         old : 0..MaxWrites, wrote : 0..MaxWrites, new : 0..MaxWrites]

LEMMA BusyHandler ==
  ASSUME AuditTypeOK, NEW h \in Handlers, handler[h] # NoHandler
  PROVE  handler[h] \in Busy
  BY DEF AuditTypeOK, HandlerState, Busy

\* A handler that is anywhere is no idle one.
LEMMA AtMeansBusy ==
  ASSUME NEW h \in Handlers, handler[h].pc \in {"inserted", "read", "updated", "reread", "to_delete", "deleted"}
  PROVE  handler[h] # NoHandler
  BY DEF NoHandler

\* What a write of a row leaves, and what starting and ending a handler do.
LEMMA WriteRowTypes ==
  ASSUME AuditTypeOK, NEW r \in Rows, WriteRow(r)
  PROVE  /\ row' \in [Rows -> 0..MaxWrites] /\ writes' \in [Rows -> 0..MaxWrites]
         /\ writes[r] + 1 \in 1..MaxWrites
         /\ \A s \in Rows : row'[s] = IF s = r THEN writes[r] + 1 ELSE row[s]
         /\ \A s \in Rows : writes'[s] = IF s = r THEN writes[r] + 1 ELSE writes[s]
  BY WritesAssumption DEF AuditTypeOK, WriteRow

LEMMA EnterTypes ==
  ASSUME AuditTypeOK, NEW h \in Handlers, NEW r \in Rows, NEW old \in 0..MaxWrites,
         NEW wrote \in 0..MaxWrites,
         NEW pc \in {"inserted", "read", "updated", "reread", "to_delete", "deleted"},
         Enter(h, pc, r, old, wrote)
  PROVE  handler' \in [Handlers -> HandlerState]
  BY WritesAssumption DEF AuditTypeOK, Enter, HandlerState, NoRow

LEMMA LeaveTypes ==
  ASSUME AuditTypeOK, NEW h \in Handlers, Leave(h)
  PROVE  handler' \in [Handlers -> HandlerState]
  BY DEF AuditTypeOK, Leave, HandlerState

LEMMA RereadTypes ==
  ASSUME AuditTypeOK, NEW h \in Handlers, handler[h] \in Busy, NEW new \in 0..MaxWrites
  PROVE  [handler EXCEPT ![h].pc = "reread", ![h].new = new] \in [Handlers -> HandlerState]
  <1>1. [handler[h] EXCEPT !.pc = "reread", !.new = new] \in HandlerState
    BY DEF Busy, HandlerState
  <1> QED
    BY <1>1 DEF AuditTypeOK

LEMMA DeletedTypes ==
  ASSUME AuditTypeOK, NEW h \in Handlers, handler[h] \in Busy
  PROVE  [handler EXCEPT ![h].pc = "deleted"] \in [Handlers -> HandlerState]
  <1>1. [handler[h] EXCEPT !.pc = "deleted"] \in HandlerState
    BY DEF Busy, HandlerState
  <1> QED
    BY <1>1 DEF AuditTypeOK

LEMMA AuditTypeInit == AuditInit => AuditTypeOK
  BY WritesAssumption DEF AuditInit, AuditTypeOK, HandlerState, NoRow

LEMMA AuditTypeStep == AuditTypeOK /\ [AuditNext]_auditVars => AuditTypeOK'
  <1> SUFFICES ASSUME AuditTypeOK, [AuditNext]_auditVars PROVE AuditTypeOK'
    OBVIOUS
  <1> USE DEF AuditTypeOK
  <1>0. NoRow \in 0..MaxWrites
    BY WritesAssumption DEF NoRow
  <1>1. ASSUME NEW h \in Handlers, NEW r \in Rows, InsertRow(h, r) PROVE AuditTypeOK'
    <2>1. 1 \in 0..MaxWrites
      BY WritesAssumption
    <2> QED
      BY <1>0, <1>1, <2>1, WriteRowTypes, EnterTypes DEF InsertRow
  <1>2. ASSUME NEW h \in Handlers, NEW r \in Rows, ReadToUpdate(h, r) PROVE AuditTypeOK'
    BY <1>0, <1>2, EnterTypes DEF ReadToUpdate
  <1>3. ASSUME NEW h \in Handlers, NEW r \in UserRows, ReadToDelete(h, r) PROVE AuditTypeOK'
    BY <1>0, <1>3, EnterTypes DEF ReadToDelete, Rows
  <1>4. ASSUME NEW h \in Handlers, UpdateRow(h) PROVE AuditTypeOK'
    <2>1. handler[h] \in Busy
      BY <1>4, BusyHandler, AtMeansBusy DEF UpdateRow
    <2>2. handler[h].row \in Rows /\ handler[h].old \in 0..MaxWrites
      BY <2>1 DEF Busy
    <2>3. CASE WriteRow(handler[h].row) /\ Enter(h, "updated", handler[h].row, handler[h].old, writes[handler[h].row] + 1)
      <3>1. writes[handler[h].row] + 1 \in 0..MaxWrites
        BY <2>2, <2>3, WriteRowTypes
      <3> QED
        BY <1>4, <2>2, <2>3, <3>1, WriteRowTypes, EnterTypes DEF UpdateRow
    <2>4. CASE Enter(h, "updated", handler[h].row, handler[h].old, NoRow) /\ UNCHANGED <<row, writes>>
      BY <1>0, <1>4, <2>2, <2>4, EnterTypes DEF UpdateRow
    <2> QED
      BY <1>4, <2>3, <2>4 DEF UpdateRow
  <1>5. ASSUME NEW h \in Handlers, UpdateNothing(h) PROVE AuditTypeOK'
    BY <1>5, LeaveTypes DEF UpdateNothing
  <1>6. ASSUME NEW h \in Handlers, ReadUpdated(h) PROVE AuditTypeOK'
    <2>1. handler[h] \in Busy
      BY <1>6, BusyHandler, AtMeansBusy DEF ReadUpdated
    <2>2. row[handler[h].row] \in 0..MaxWrites
      BY <2>1 DEF Busy
    <2>3. CASE row[handler[h].row] = NoRow
      BY <1>6, <2>3, LeaveTypes DEF ReadUpdated
    <2>4. CASE row[handler[h].row] # NoRow
      <3>1. handler' = [handler EXCEPT ![h].pc = "reread", ![h].new = row[handler[h].row]]
        BY <1>6, <2>4 DEF ReadUpdated
      <3>2. handler' \in [Handlers -> HandlerState]
        BY <2>1, <2>2, <3>1, RereadTypes
      <3> QED
        BY <1>6, <3>2 DEF ReadUpdated
    <2> QED
      BY <2>3, <2>4
  <1>7. ASSUME NEW h \in Handlers, DeleteRow(h) PROVE AuditTypeOK'
    <2>1. handler[h] \in Busy
      BY <1>7, BusyHandler, AtMeansBusy DEF DeleteRow
    <2>2. handler' \in [Handlers -> HandlerState]
      <3>1. CASE row[handler[h].row] = NoRow
        BY <1>7, <3>1, LeaveTypes DEF DeleteRow
      <3>2. CASE row[handler[h].row] # NoRow
        BY <1>7, <2>1, <3>2, DeletedTypes DEF DeleteRow
      <3> QED
        BY <3>1, <3>2
    <2> QED
      BY <1>0, <1>7, <2>2 DEF DeleteRow
  <1>8. ASSUME NEW h \in Handlers, LogAudit(h) PROVE AuditTypeOK'
    <2>1. handler[h] \in Busy
      BY <1>8, BusyHandler, AtMeansBusy DEF LogAudit
    <2>2. trail' \subseteq Entry
      BY <1>0, <1>8, <2>1 DEF LogAudit, Busy, Entry
    <2>3. deleteEntries' \in [Rows -> Nat]
      BY <1>8, <2>1 DEF LogAudit, Busy
    <2> QED
      BY <1>8, <2>2, <2>3, LeaveTypes DEF LogAudit
  <1>9. ASSUME NEW h \in Handlers, HandlerEnds(h) PROVE AuditTypeOK'
    <2>1. handler[h] \in Busy
      BY <1>9, BusyHandler DEF HandlerEnds
    <2>2. handler[h].wrote # NoRow => Wrote(h) \in Rows \X Versions
      BY <2>1 DEF Busy, Wrote, Versions, NoRow
    <2> QED
      BY <1>9, <2>2, LeaveTypes DEF HandlerEnds
  <1>10. ASSUME NEW r \in ClientRows, DeactivateUnlogged(r) PROVE AuditTypeOK'
    <2>1. r \in Rows
      BY DEF Rows
    <2> QED
      BY <1>10, <2>1, WriteRowTypes DEF DeactivateUnlogged, Versions
  <1>11. CASE UNCHANGED auditVars
    BY <1>11 DEF auditVars
  <1>12. ASSUME NEW r \in UserRows, RegisterUnlogged(r) PROVE AuditTypeOK'
    <2>1. r \in Rows
      BY DEF Rows
    <2>2. 1 \in Versions
      BY WritesAssumption DEF Versions
    <2> QED
      BY <1>12, <2>1, <2>2, WriteRowTypes DEF RegisterUnlogged
  <1> QED
    BY <1>1, <1>2, <1>3, <1>4, <1>5, <1>6, <1>7, <1>8, <1>9, <1>10, <1>11, <1>12 DEF AuditNext

-----------------------------------------------------------------------------
(***************************************************************************)
(* The invariant.  A handler knows of its row that it was written, and of  *)
(* its own version that no later write has it; one past its DELETE is      *)
(* alone there, and has still to log the only entry of the deletion.       *)
(***************************************************************************)

VersionsGrow == \A r \in Rows : row[r] <= writes[r]

HandlerInv(e, rowNow, writesNow, deletesNow) ==
    /\ writesNow[e.row] > 0
    /\ e.wrote <= writesNow[e.row]
    /\ e.pc \in {"read", "to_delete", "deleted"} => e.wrote = NoRow
    /\ e.pc = "reread" /\ e.wrote = rowNow[e.row] /\ e.wrote # NoRow => e.new = e.wrote
    /\ e.pc = "deleted" => rowNow[e.row] = NoRow /\ deletesNow[e.row] = 0

HandlersHold ==
    \A h \in Handlers : handler[h] # NoHandler => HandlerInv(handler[h], row, writes, deleteEntries)

OneDeleter ==
    \A h, k \in Handlers :
        handler[h].pc = "deleted" /\ handler[k].pc = "deleted" /\ handler[h].row = handler[k].row => h = k

DeletedRows ==
    \A r \in Rows : /\ deleteEntries[r] <= (IF row[r] = NoRow THEN 1 ELSE 0)
                    /\ deleteEntries[r] > 0 => writes[r] > 0

AuditInv ==
    /\ AuditTypeOK
    /\ VersionsGrow
    /\ HandlersHold
    /\ OneDeleter
    /\ DeletedRows
    /\ CurrentValueRecorded

\* A write of a row that no handler has deleted leaves what the others know.
LEMMA WriteKeepsHandler ==
  ASSUME AuditTypeOK, VersionsGrow, NEW r \in Rows, WriteRow(r), UNCHANGED deleteEntries,
         NEW e \in Busy, HandlerInv(e, row, writes, deleteEntries), e.pc = "deleted" => e.row # r
  PROVE  HandlerInv(e, row', writes', deleteEntries')
  BY WriteRowTypes DEF AuditTypeOK, VersionsGrow, HandlerInv, Busy, NoRow

LEMMA EnterAlone ==
  ASSUME AuditTypeOK, NEW h \in Handlers, NEW r \in Rows, NEW old \in 0..MaxWrites,
         NEW wrote \in 0..MaxWrites,
         NEW pc \in {"inserted", "read", "updated", "reread", "to_delete", "deleted"},
         Enter(h, pc, r, old, wrote)
  PROVE  /\ handler'[h] = [pc |-> pc, row |-> r, old |-> old, wrote |-> wrote, new |-> NoRow]
         /\ handler'[h] # NoHandler
         /\ \A k \in Handlers \ {h} : handler'[k] = handler[k]
  BY DEF AuditTypeOK, Enter, NoHandler

LEMMA LeaveAlone ==
  ASSUME AuditTypeOK, NEW h \in Handlers, Leave(h)
  PROVE  handler'[h] = NoHandler /\ \A k \in Handlers \ {h} : handler'[k] = handler[k]
  BY DEF AuditTypeOK, Leave

\* Where a handler's step leaves row, writes and deleteEntries alone, it is
\* enough that the handler itself holds and does not begin to be a deleter.
LEMMA QuietStep ==
  ASSUME AuditInv, NEW h \in Handlers, UNCHANGED <<row, writes, deleteEntries>>,
         \A k \in Handlers \ {h} : handler'[k] = handler[k],
         handler'[h] # NoHandler => HandlerInv(handler'[h], row', writes', deleteEntries'),
         handler'[h] # NoHandler => handler'[h].pc # "deleted"
  PROVE  VersionsGrow' /\ HandlersHold' /\ OneDeleter' /\ DeletedRows'
  <1> USE DEF AuditInv
  <1>1. VersionsGrow' /\ DeletedRows'
    BY DEF VersionsGrow, DeletedRows
  <1>2. HandlersHold'
    BY DEF HandlersHold, HandlerInv
  <1>3. OneDeleter'
    <2>1. handler'[h].pc # "deleted"
      BY DEF NoHandler
    <2> QED
      BY <2>1 DEF OneDeleter
  <1> QED
    BY <1>1, <1>2, <1>3

LEMMA AuditInvStep == AuditInv /\ [AuditNext]_auditVars => AuditInv'
  <1> SUFFICES ASSUME AuditInv, [AuditNext]_auditVars
               PROVE  VersionsGrow' /\ HandlersHold' /\ OneDeleter' /\ DeletedRows' /\ CurrentValueRecorded'
    BY AuditTypeStep DEF AuditInv
  <1> DEFINE Goal == VersionsGrow' /\ HandlersHold' /\ OneDeleter' /\ DeletedRows' /\ CurrentValueRecorded'
  <1> USE DEF AuditInv
  <1>0. NoRow \in 0..MaxWrites
    BY WritesAssumption DEF NoRow
  <1>1. ASSUME NEW h \in Handlers, NEW r \in Rows, InsertRow(h, r) PROVE Goal
    <2>1. /\ handler'[h] = [pc |-> "inserted", row |-> r, old |-> NoRow, wrote |-> 1, new |-> NoRow]
          /\ handler'[h] # NoHandler
          /\ \A k \in Handlers \ {h} : handler'[k] = handler[k]
      <3>1. 1 \in 0..MaxWrites /\ Enter(h, "inserted", r, NoRow, 1)
        BY <1>1, WritesAssumption DEF InsertRow
      <3> QED
        BY <1>0, <3>1, EnterAlone
    <2>2. WriteRow(r) /\ UNCHANGED <<trail, deleteEntries, unrecorded>> /\ writes[r] = 0
      BY <1>1 DEF InsertRow
    <2>3. VersionsGrow'
      BY <2>2, WriteRowTypes DEF VersionsGrow, AuditTypeOK
    <2>4. \A k \in Handlers : handler[k] # NoHandler => handler[k] \in Busy /\ handler[k].row # r
      BY <2>2, BusyHandler DEF HandlersHold, HandlerInv
    <2>5. HandlersHold'
      <3>1. HandlerInv(handler'[h], row', writes', deleteEntries')
        BY <2>1, <2>2, WriteRowTypes DEF HandlerInv, AuditTypeOK
      <3>2. \A k \in Handlers \ {h} : handler[k] # NoHandler => HandlerInv(handler[k], row', writes', deleteEntries')
        BY <2>2, <2>4, WriteKeepsHandler DEF HandlersHold
      <3> QED
        BY <2>1, <3>1, <3>2 DEF HandlersHold, HandlerInv
    <2>6. OneDeleter'
      BY <2>1 DEF OneDeleter
    <2>7. DeletedRows'
      BY <2>2, WriteRowTypes DEF DeletedRows, AuditTypeOK, NoRow
    <2>8. CurrentValueRecorded'
      BY <1>1, <2>1, <2>2, WriteRowTypes DEF CurrentValueRecorded, InsertRow, Wrote
    <2> QED
      BY <2>3, <2>5, <2>6, <2>7, <2>8
  <1>2. ASSUME NEW h \in Handlers, NEW r \in Rows, NEW pc \in {"read", "to_delete"},
               handler[h] = NoHandler, row[r] # NoRow, Enter(h, pc, r, row[r], NoRow),
               UNCHANGED <<row, writes, trail, deleteEntries, unrecorded>>
        PROVE  Goal
    <2>1. /\ handler'[h] = [pc |-> pc, row |-> r, old |-> row[r], wrote |-> NoRow, new |-> NoRow]
          /\ handler'[h] # NoHandler
          /\ \A k \in Handlers \ {h} : handler'[k] = handler[k]
      BY <1>2 DEF Enter, AuditTypeOK, NoHandler
    <2>2. writes[r] > 0
      BY <1>2 DEF VersionsGrow, AuditTypeOK, NoRow
    <2>3. HandlerInv(handler'[h], row', writes', deleteEntries')
      BY <1>2, <2>1, <2>2 DEF HandlerInv, AuditTypeOK, NoRow
    <2>4. VersionsGrow' /\ HandlersHold' /\ OneDeleter' /\ DeletedRows'
      BY <1>2, <2>1, <2>3, QuietStep
    <2>5. CurrentValueRecorded'
      BY <1>2, <2>1 DEF CurrentValueRecorded, Wrote
    <2> QED
      BY <2>4, <2>5
  <1>3. ASSUME NEW h \in Handlers, UpdateRow(h) PROVE Goal
    <2> DEFINE r == handler[h].row
    <2>1. handler[h] \in Busy /\ handler[h] # NoHandler /\ handler[h].pc = "read"
      BY <1>3, BusyHandler, AtMeansBusy DEF UpdateRow
    <2>2. r \in Rows /\ handler[h].old \in 0..MaxWrites /\ HandlerInv(handler[h], row, writes, deleteEntries)
      BY <2>1 DEF Busy, HandlersHold
    <2>3. handler[h].wrote = NoRow
      BY <2>1, <2>2 DEF HandlerInv
    <2>4. CASE row[r] # NoRow /\ WriteRow(r) /\ Enter(h, "updated", r, handler[h].old, writes[r] + 1)
      <3>1. writes[r] + 1 \in 0..MaxWrites
        BY <2>2, <2>4, WriteRowTypes
      <3>2. /\ handler'[h] = [pc |-> "updated", row |-> r, old |-> handler[h].old, wrote |-> writes[r] + 1, new |-> NoRow]
            /\ handler'[h] # NoHandler
            /\ \A k \in Handlers \ {h} : handler'[k] = handler[k]
        BY <2>2, <2>4, <3>1, EnterAlone
      <3>3. UNCHANGED <<trail, deleteEntries, unrecorded>>
        BY <1>3 DEF UpdateRow
      <3>4. VersionsGrow'
        BY <2>2, <2>4, WriteRowTypes DEF VersionsGrow, AuditTypeOK
      <3>5. HandlersHold'
        <4>1. HandlerInv(handler'[h], row', writes', deleteEntries')
          BY <2>2, <2>4, <3>2, WriteRowTypes DEF HandlerInv, AuditTypeOK
        <4>2. ASSUME NEW k \in Handlers \ {h}, handler[k] # NoHandler PROVE HandlerInv(handler[k], row', writes', deleteEntries')
          <5>1. handler[k] \in Busy /\ HandlerInv(handler[k], row, writes, deleteEntries)
            BY <4>2, BusyHandler DEF HandlersHold
          <5>2. handler[k].pc = "deleted" => handler[k].row # r
            BY <2>4, <5>1 DEF HandlerInv
          <5> QED
            BY <2>2, <2>4, <3>3, <5>1, <5>2, WriteKeepsHandler
        <4> QED
          BY <3>2, <4>1, <4>2 DEF HandlersHold, HandlerInv
      <3>6. OneDeleter'
        BY <3>2 DEF OneDeleter
      <3>7. DeletedRows'
        BY <2>2, <2>4, <3>3, WriteRowTypes DEF DeletedRows, AuditTypeOK, NoRow
      <3>8. CurrentValueRecorded'
        <4>1. Wrote(h)' = <<r, row'[r]>>
          BY <2>2, <2>4, <3>2, WriteRowTypes DEF Wrote
        <4>2. ASSUME NEW s \in Rows \ {r}
              PROVE  \/ row'[s] = NoRow
                     \/ \E e \in trail' : e.row = s /\ e.new = row'[s]
                     \/ \E k \in Handlers : handler'[k] # NoHandler /\ Wrote(k)' = <<s, row'[s]>>
                     \/ <<s, row'[s]>> \in unrecorded'
          <5>1. row'[s] = row[s]
            BY <2>2, <2>4, WriteRowTypes
          <5>2. Wrote(h) # <<s, row[s]>>
            BY DEF Wrote
          <5> QED
            BY <3>2, <3>3, <5>1, <5>2 DEF CurrentValueRecorded, Wrote
        <4> QED
          BY <3>2, <4>1, <4>2 DEF CurrentValueRecorded
      <3> QED
        BY <3>4, <3>5, <3>6, <3>7, <3>8
    <2>5. CASE row[r] = NoRow /\ Enter(h, "updated", r, handler[h].old, NoRow) /\ UNCHANGED <<row, writes>>
      <3>1. /\ handler'[h] = [pc |-> "updated", row |-> r, old |-> handler[h].old, wrote |-> NoRow, new |-> NoRow]
            /\ handler'[h] # NoHandler
            /\ \A k \in Handlers \ {h} : handler'[k] = handler[k]
        BY <2>2, <2>5 DEF Enter, AuditTypeOK, NoHandler
      <3>2. HandlerInv(handler'[h], row', writes', deleteEntries')
        BY <2>2, <2>3, <2>5, <3>1 DEF HandlerInv
      <3>3. UNCHANGED <<trail, deleteEntries, unrecorded>>
        BY <1>3 DEF UpdateRow
      <3>4. VersionsGrow' /\ HandlersHold' /\ OneDeleter' /\ DeletedRows'
        BY <2>5, <3>1, <3>2, <3>3, QuietStep
      <3>5. CurrentValueRecorded'
        BY <2>3, <2>5, <3>1, <3>3 DEF CurrentValueRecorded, Wrote
      <3> QED
        BY <3>4, <3>5
    <2> QED
      BY <1>3, <2>4, <2>5 DEF UpdateRow
  <1>4. ASSUME NEW h \in Handlers, UpdateNothing(h) PROVE Goal
    <2>1. handler'[h] = NoHandler /\ \A k \in Handlers \ {h} : handler'[k] = handler[k]
      BY <1>4, LeaveAlone DEF UpdateNothing
    <2>2. HandlerInv(handler[h], row, writes, deleteEntries) /\ handler[h].wrote = NoRow
      BY <1>4, AtMeansBusy DEF UpdateNothing, HandlersHold, HandlerInv
    <2>3. VersionsGrow' /\ HandlersHold' /\ OneDeleter' /\ DeletedRows'
      BY <1>4, <2>1, QuietStep DEF UpdateNothing
    <2>4. CurrentValueRecorded'
      BY <1>4, <2>1, <2>2 DEF CurrentValueRecorded, Wrote, UpdateNothing
    <2> QED
      BY <2>3, <2>4
  <1>5. ASSUME NEW h \in Handlers, ReadUpdated(h) PROVE Goal
    <2> DEFINE r == handler[h].row
    <2>1. handler[h] \in Busy /\ handler[h] # NoHandler /\ HandlerInv(handler[h], row, writes, deleteEntries)
      BY <1>5, BusyHandler, AtMeansBusy DEF ReadUpdated, HandlersHold
    <2>2. CASE row[r] = NoRow
      <3>1. handler'[h] = NoHandler /\ \A k \in Handlers \ {h} : handler'[k] = handler[k]
        BY <1>5, <2>2, LeaveAlone DEF ReadUpdated
      <3>2. VersionsGrow' /\ HandlersHold' /\ OneDeleter' /\ DeletedRows'
        BY <1>5, <3>1, QuietStep DEF ReadUpdated
      <3>3. CurrentValueRecorded'
        BY <1>5, <2>2, <3>1 DEF CurrentValueRecorded, Wrote, ReadUpdated
      <3> QED
        BY <3>2, <3>3
    <2>3. CASE row[r] # NoRow
      <3>1. /\ handler' = [handler EXCEPT ![h].pc = "reread", ![h].new = row[r]]
            /\ UNCHANGED <<row, writes, trail, deleteEntries, unrecorded>>
        BY <1>5, <2>3 DEF ReadUpdated
      <3>2. /\ handler'[h] = [handler[h] EXCEPT !.pc = "reread", !.new = row[r]]
            /\ \A k \in Handlers \ {h} : handler'[k] = handler[k]
        BY <3>1 DEF AuditTypeOK
      <3>3. /\ handler'[h] \in Busy /\ handler'[h].pc = "reread" /\ handler'[h].new = row[r]
            /\ handler'[h].row = r /\ handler'[h].wrote = handler[h].wrote
        BY <2>1, <3>2 DEF Busy, AuditTypeOK
      <3>4. HandlerInv(handler'[h], row', writes', deleteEntries')
        BY <2>1, <3>1, <3>3 DEF HandlerInv
      <3>5. VersionsGrow' /\ HandlersHold' /\ OneDeleter' /\ DeletedRows'
        BY <3>1, <3>2, <3>3, <3>4, QuietStep
      <3>6. handler'[h] # NoHandler
        BY <3>3 DEF NoHandler
      <3>7. CurrentValueRecorded'
        <4>1. \A k \in Handlers : handler[k] # NoHandler => handler'[k] # NoHandler /\ Wrote(k)' = Wrote(k)
          BY <3>2, <3>3, <3>6 DEF Wrote
        <4> QED
          BY <3>1, <4>1 DEF CurrentValueRecorded
      <3> QED
        BY <3>5, <3>7
    <2> QED
      BY <2>2, <2>3
  <1>6. ASSUME NEW h \in Handlers, DeleteRow(h) PROVE Goal
    <2> DEFINE r == handler[h].row
    <2>1. handler[h] \in Busy /\ handler[h] # NoHandler /\ HandlerInv(handler[h], row, writes, deleteEntries) /\ r \in Rows
      BY <1>6, BusyHandler, AtMeansBusy DEF DeleteRow, HandlersHold, Busy
    <2>2. handler[h].wrote = NoRow
      BY <1>6, <2>1 DEF HandlerInv, DeleteRow
    <2>3. UNCHANGED <<writes, trail, deleteEntries, unrecorded>> /\ row' = [row EXCEPT ![r] = NoRow]
      BY <1>6 DEF DeleteRow
    <2>4. CASE row[r] = NoRow
      <3>1. handler'[h] = NoHandler /\ \A k \in Handlers \ {h} : handler'[k] = handler[k]
        BY <1>6, <2>4, LeaveAlone DEF DeleteRow
      <3>2. row' = row
        BY <2>3, <2>4 DEF AuditTypeOK
      <3>3. VersionsGrow' /\ HandlersHold' /\ OneDeleter' /\ DeletedRows'
        BY <2>3, <3>1, <3>2, QuietStep
      <3>4. CurrentValueRecorded'
        BY <2>2, <2>3, <3>1, <3>2 DEF CurrentValueRecorded, Wrote
      <3> QED
        BY <3>3, <3>4
    <2>5. CASE row[r] # NoRow
      <3>1. handler' = [handler EXCEPT ![h].pc = "deleted"]
        BY <1>6, <2>5 DEF DeleteRow
      <3>2. /\ handler'[h] = [handler[h] EXCEPT !.pc = "deleted"]
            /\ \A k \in Handlers \ {h} : handler'[k] = handler[k]
        BY <3>1 DEF AuditTypeOK
      <3>3. /\ handler'[h].pc = "deleted" /\ handler'[h].row = r /\ handler'[h].wrote = NoRow
            /\ handler'[h] # NoHandler
        BY <2>1, <2>2, <3>2 DEF Busy, NoHandler
      <3>4. \A s \in Rows : row'[s] = IF s = r THEN NoRow ELSE row[s]
        BY <2>3 DEF AuditTypeOK
      <3>5. \A k \in Handlers \ {h} : handler[k].pc = "deleted" => handler[k].row # r
        BY <2>5, AtMeansBusy DEF HandlersHold, HandlerInv
      <3>6. deleteEntries[r] = 0
        BY <2>1, <2>5 DEF DeletedRows, AuditTypeOK
      <3>7. VersionsGrow'
        BY <2>3, <3>4, <1>0 DEF VersionsGrow, AuditTypeOK, NoRow
      <3>8. HandlersHold'
        <4>1. HandlerInv(handler'[h], row', writes', deleteEntries')
          BY <2>1, <2>3, <3>3, <3>4, <3>6 DEF HandlerInv, AuditTypeOK, NoRow
        <4>2. ASSUME NEW k \in Handlers \ {h}, handler[k] # NoHandler PROVE HandlerInv(handler[k], row', writes', deleteEntries')
          <5>1. HandlerInv(handler[k], row, writes, deleteEntries) /\ handler[k].row \in Rows
            BY <4>2, BusyHandler DEF HandlersHold, Busy
          <5> QED
            BY <2>3, <3>4, <5>1 DEF HandlerInv, NoRow
        <4> QED
          BY <3>2, <4>1, <4>2 DEF HandlersHold, HandlerInv
      <3>9. OneDeleter'
        <4>1. ASSUME NEW k \in Handlers \ {h}, handler'[k].pc = "deleted" PROVE handler'[k].row # r
          BY <3>2, <3>5, <4>1
        <4>2. ASSUME NEW k \in Handlers \ {h}, NEW l \in Handlers \ {h}, handler'[k].pc = "deleted",
                     handler'[l].pc = "deleted", handler'[k].row = handler'[l].row
              PROVE  k = l
          <5>1. handler'[k] = handler[k] /\ handler'[l] = handler[l]
            BY <3>2
          <5> QED
            BY <4>2, <5>1 DEF OneDeleter
        <4>3. handler'[h].row = r
          BY <3>3
        <4> QED
          BY <4>1, <4>2, <4>3 DEF OneDeleter
      <3>10. DeletedRows'
        BY <2>3, <3>4 DEF DeletedRows, AuditTypeOK
      <3>11. CurrentValueRecorded'
        BY <2>2, <2>3, <3>2, <3>3, <3>4 DEF CurrentValueRecorded, Wrote
      <3> QED
        BY <3>7, <3>8, <3>9, <3>10, <3>11
    <2> QED
      BY <2>4, <2>5
  <1>7. ASSUME NEW h \in Handlers, LogAudit(h) PROVE Goal
    <2> DEFINE r == handler[h].row
    <2>1. handler[h] \in Busy /\ handler[h] # NoHandler /\ HandlerInv(handler[h], row, writes, deleteEntries) /\ r \in Rows
      BY <1>7, BusyHandler, AtMeansBusy DEF LogAudit, HandlersHold, Busy
    <2>2. handler'[h] = NoHandler /\ \A k \in Handlers \ {h} : handler'[k] = handler[k]
      BY <1>7, LeaveAlone DEF LogAudit
    <2>3. UNCHANGED <<row, writes, unrecorded>> /\ trail \subseteq trail'
      BY <1>7 DEF LogAudit
    <2>4. CurrentValueRecorded'
      <3>1. ASSUME Wrote(h) = <<r, row[r]>>, row[r] # NoRow
            PROVE  \E e \in trail' : e.row = r /\ e.new = row[r]
        <4>1. handler[h].wrote = row[r]
          BY <3>1 DEF Wrote
        <4>2. CASE handler[h].pc = "inserted"
          <5>1. [row |-> r, action |-> "INSERT", old |-> NoRow, new |-> handler[h].wrote] \in trail'
            BY <1>7, <4>2 DEF LogAudit
          <5> QED
            BY <4>1, <5>1
        <4>3. CASE handler[h].pc = "reread"
          <5>1. handler[h].new = row[r]
            BY <2>1, <3>1, <4>1, <4>3 DEF HandlerInv
          <5>2. [row |-> r, action |-> "UPDATE", old |-> handler[h].old, new |-> handler[h].new] \in trail'
            BY <1>7, <4>3 DEF LogAudit
          <5> QED
            BY <5>1, <5>2
        <4>4. handler[h].pc # "deleted"
          BY <2>1, <3>1 DEF HandlerInv
        <4> QED
          BY <1>7, <4>2, <4>3, <4>4 DEF LogAudit
      <3> QED
        BY <2>2, <2>3, <3>1 DEF CurrentValueRecorded, Wrote
    <2>5. CASE handler[h].pc # "deleted"
      <3>1. deleteEntries' = deleteEntries
        BY <1>7, <2>5 DEF LogAudit
      <3> QED
        BY <2>2, <2>3, <2>4, <3>1, QuietStep
    <2>6. CASE handler[h].pc = "deleted"
      <3>1. deleteEntries' = [deleteEntries EXCEPT ![r] = @ + 1]
        BY <1>7, <2>6 DEF LogAudit
      <3>2. \A s \in Rows : deleteEntries'[s] = IF s = r THEN 1 ELSE deleteEntries[s]
        BY <2>1, <2>6, <3>1 DEF HandlerInv, AuditTypeOK
      <3>3. row[r] = NoRow /\ writes[r] > 0
        BY <2>1, <2>6 DEF HandlerInv
      <3>4. VersionsGrow' /\ DeletedRows'
        BY <2>3, <3>2, <3>3 DEF VersionsGrow, DeletedRows
      <3>5. HandlersHold'
        <4>1. ASSUME NEW k \in Handlers \ {h}, handler[k] # NoHandler PROVE HandlerInv(handler[k], row', writes', deleteEntries')
          <5>1. HandlerInv(handler[k], row, writes, deleteEntries) /\ handler[k].row \in Rows
            BY <4>1, BusyHandler DEF HandlersHold, Busy
          <5>2. handler[k].pc = "deleted" => handler[k].row # r
            BY <2>6 DEF OneDeleter
          <5> QED
            BY <2>3, <3>2, <5>1, <5>2 DEF HandlerInv
        <4> QED
          BY <2>2, <4>1 DEF HandlersHold, HandlerInv
      <3>6. OneDeleter'
        <4>1. handler'[h].pc # "deleted"
          BY <2>2 DEF NoHandler
        <4> QED
          BY <2>2, <4>1 DEF OneDeleter
      <3> QED
        BY <2>4, <3>4, <3>5, <3>6
    <2> QED
      BY <2>5, <2>6
  <1>8. ASSUME NEW h \in Handlers, HandlerEnds(h) PROVE Goal
    <2>1. handler'[h] = NoHandler /\ \A k \in Handlers \ {h} : handler'[k] = handler[k]
      BY <1>8, LeaveAlone DEF HandlerEnds
    <2>2. VersionsGrow' /\ HandlersHold' /\ OneDeleter' /\ DeletedRows'
      BY <1>8, <2>1, QuietStep DEF HandlerEnds
    <2>3. unrecorded \subseteq unrecorded' /\ (handler[h].wrote # NoRow => Wrote(h) \in unrecorded')
      BY <1>8 DEF HandlerEnds
    <2>4. CurrentValueRecorded'
      <3>1. \A s \in Rows : row[s] # NoRow /\ Wrote(h) = <<s, row[s]>> => <<s, row[s]>> \in unrecorded'
        BY <2>3 DEF Wrote
      <3>2. UNCHANGED <<row, trail>>
        BY <1>8 DEF HandlerEnds
      <3> QED
        BY <2>1, <2>3, <3>1, <3>2 DEF CurrentValueRecorded, Wrote
    <2> QED
      BY <2>2, <2>4
  <1>9. ASSUME NEW r \in ClientRows, DeactivateUnlogged(r) PROVE Goal
    <2>1. r \in Rows /\ row[r] # NoRow /\ WriteRow(r)
      BY <1>9 DEF DeactivateUnlogged, Rows
    <2>2. UNCHANGED <<trail, deleteEntries, handler>> /\ unrecorded' = unrecorded \cup {<<r, writes[r] + 1>>}
      BY <1>9 DEF DeactivateUnlogged
    <2>3. VersionsGrow'
      BY <2>1, WriteRowTypes DEF VersionsGrow, AuditTypeOK
    <2>4. HandlersHold'
      <3>1. ASSUME NEW k \in Handlers, handler[k] # NoHandler PROVE HandlerInv(handler[k], row', writes', deleteEntries')
        <4>1. handler[k] \in Busy /\ HandlerInv(handler[k], row, writes, deleteEntries)
          BY <3>1, BusyHandler DEF HandlersHold
        <4>2. handler[k].pc = "deleted" => handler[k].row # r
          BY <2>1, <4>1 DEF HandlerInv
        <4> QED
          BY <2>1, <2>2, <4>1, <4>2, WriteKeepsHandler
      <3> QED
        BY <2>2, <3>1 DEF HandlersHold, HandlerInv
    <2>5. OneDeleter'
      BY <2>2 DEF OneDeleter
    <2>6. DeletedRows'
      BY <2>1, <2>2, WriteRowTypes DEF DeletedRows, AuditTypeOK, NoRow
    <2>7. CurrentValueRecorded'
      BY <2>1, <2>2, WriteRowTypes DEF CurrentValueRecorded, Wrote
    <2> QED
      BY <2>3, <2>4, <2>5, <2>6, <2>7
  <1>10. CASE UNCHANGED auditVars
    BY <1>10 DEF auditVars, VersionsGrow, HandlersHold, HandlerInv, OneDeleter, DeletedRows,
       CurrentValueRecorded, Wrote
  <1>11. ASSUME NEW h \in Handlers, NEW r \in Rows, ReadToUpdate(h, r) PROVE Goal
    BY <1>2, <1>11 DEF ReadToUpdate
  <1>12. ASSUME NEW h \in Handlers, NEW r \in UserRows, ReadToDelete(h, r) PROVE Goal
    BY <1>2, <1>12 DEF ReadToDelete, Rows
  <1>13. ASSUME NEW r \in UserRows, RegisterUnlogged(r) PROVE Goal
    <2>1. r \in Rows /\ writes[r] = 0 /\ WriteRow(r)
      BY <1>13 DEF RegisterUnlogged, Rows
    <2>2. UNCHANGED <<trail, deleteEntries, handler>> /\ unrecorded' = unrecorded \cup {<<r, 1>>}
      BY <1>13 DEF RegisterUnlogged
    <2>3. VersionsGrow'
      BY <2>1, WriteRowTypes DEF VersionsGrow, AuditTypeOK
    <2>4. HandlersHold'
      <3>1. ASSUME NEW k \in Handlers, handler[k] # NoHandler PROVE HandlerInv(handler[k], row', writes', deleteEntries')
        <4>1. handler[k] \in Busy /\ HandlerInv(handler[k], row, writes, deleteEntries)
          BY <3>1, BusyHandler DEF HandlersHold
        <4>2. handler[k].row # r
          BY <2>1, <4>1 DEF HandlerInv
        <4> QED
          BY <2>1, <2>2, <4>1, <4>2, WriteKeepsHandler
      <3> QED
        BY <2>2, <3>1 DEF HandlersHold, HandlerInv
    <2>5. OneDeleter'
      BY <2>2 DEF OneDeleter
    <2>6. DeletedRows'
      BY <2>1, <2>2, WriteRowTypes DEF DeletedRows, AuditTypeOK, NoRow
    <2>7. CurrentValueRecorded'
      BY <2>1, <2>2, WriteRowTypes DEF CurrentValueRecorded, Wrote
    <2> QED
      BY <2>3, <2>4, <2>5, <2>6, <2>7
  <1> QED
    BY <1>1, <1>3, <1>4, <1>5, <1>6, <1>7, <1>8, <1>9, <1>10, <1>11, <1>12, <1>13 DEF AuditNext

LEMMA AuditInvInit == AuditInit => AuditInv
  BY AuditTypeInit DEF AuditInit, AuditInv, VersionsGrow, HandlersHold, HandlerInv, OneDeleter,
     DeletedRows, CurrentValueRecorded, NoHandler, NoRow

\* However many requests delete a row and in whatever order their statements
\* run, the log holds at most one deletion of it, and none while the row is there.
THEOREM OneDeletionLogged == AuditSpec => []DeletedOnce
  <1>1. AuditInv => DeletedOnce
    BY DEF AuditInv, DeletedRows, DeletedOnce
  <1> QED
    BY <1>1, AuditInvInit, AuditInvStep, PTL DEF AuditSpec

\* However the handlers of a row overlap, the value it holds is in the log or
\* still to be logged, unless the entry of the handler that wrote it was lost or
\* it was written by a registration or a deactivation, which log nothing.
THEOREM CurrentValueIsRecorded == AuditSpec => []CurrentValueRecorded
  <1>1. AuditInv => CurrentValueRecorded
    BY DEF AuditInv
  <1> QED
    BY <1>1, AuditInvInit, AuditInvStep, PTL DEF AuditSpec
=============================================================================
