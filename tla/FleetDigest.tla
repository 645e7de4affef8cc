---------------------------- MODULE FleetDigest -----------------------------
(***************************************************************************)
(* What the trays show of one machine: digest.json keeps a row per seat    *)
(* and the job of the machine's tile, beside the table of workers in       *)
(* queue.json that ACK and DONE keep.  The ears of the machine send merges *)
(* of their own view, the receiver serves reports one at a time, the chair *)
(* saves digest.json itself when it expires a seat, and a GET heals what   *)
(* it reads from the table without saving it.                              *)
(*                                                                         *)
(* A report is loaded and computed in one step and saved in a later one;   *)
(* the chair, which takes no lock, may save in between.  Times are left    *)
(* out: the tile's job is that of any busy seat instead of the newest.     *)
(***************************************************************************)
EXTENDS Integers, FiniteSets

CONSTANTS
    WorkSeat,       \* seats of the machine, named <machine>-<pid>
    Work,           \* jobs
    NoWork,
    NoRow,          \* no entry for a seat
    Unsaved         \* a writer with nothing to save

ASSUME DigestAssumption == NoWork \notin Work

VARIABLES
    table,          \* queue.json: workers
    digest,         \* digest.json: the machine's rows and tile
    unsaved         \* the document the receiver or the chair is about to save

digestVars == <<table, digest, unsaved>>

Writer == {"receiver", "chair"}

IdleRow == [state |-> "idle", work |-> NoWork]
BusyRow(w) == [state |-> "busy", work |-> w]
Row == [state : {"idle", "busy", "running"}, work : Work \cup {NoWork}]
Rows == [WorkSeat -> Row \cup {NoRow}]
MachineView == [rows : Rows, tile : Work \cup {NoWork}]

EmptyView == [rows |-> [s \in WorkSeat |-> NoRow], tile |-> NoWork]

DigestTypeOK ==
    /\ table \in Rows
    /\ digest \in MachineView
    /\ unsaved \in [Writer -> MachineView \cup {Unsaved}]

DigestInit ==
    /\ table = EmptyView.rows
    /\ digest = EmptyView
    /\ unsaved = [a \in Writer |-> Unsaved]

-----------------------------------------------------------------------------
(* The machine's view.                                                     *)

\* coerce_workers and nick_keyed_machine_workers: a row under a pid counts for
\* a seat that has none under its nick.
NickKeyed(byNick, byPid) == [s \in WorkSeat |-> IF byNick[s] # NoRow THEN byNick[s] ELSE byPid[s]]

BusyWith(rows) == {rows[s].work : s \in {t \in WorkSeat : rows[t] # NoRow /\ rows[t].state = "busy"}} \ {NoWork}

\* _refresh_machine_working_on
Tile(rows) == IF BusyWith(rows) = {} THEN NoWork ELSE CHOOSE w \in BusyWith(rows) : TRUE

\* The variant that leaves the tile alone.
MirroredRowOnly(mc, s, row) == [mc EXCEPT !.rows[s] = row]

\* mirror_top_worker_to_machine
Mirrored(mc, s, row) ==
    LET rows == [mc.rows EXCEPT ![s] = row]
    IN  [rows |-> rows, tile |-> Tile(rows)]

\* sync_all_top_workers_to_machines and the prune after it: rows of seats that
\* the table does not have stay.
Healed(mc) ==
    LET rows == [s \in WorkSeat |-> IF table[s] # NoRow THEN table[s] ELSE mc.rows[s]]
    IN  [rows |-> rows, tile |-> Tile(rows)]

\* apply_report with op merge: the rows an ear sends are added to those the
\* machine has, a row of its own pid only for a seat without one; its tile
\* counts when no seat is busy.
Merged(mc, byNick, byPid, own, tile) ==
    LET sent   == NickKeyed(byNick, byPid)
        rows   == NickKeyed(NickKeyed(sent, mc.rows), own)
        healed == Healed([mc EXCEPT !.rows = rows])
    IN  IF healed.tile = NoWork THEN [healed EXCEPT !.tile = tile] ELSE healed

\* What a GET answers (public_digest_snapshot).
Shown == Healed(digest)

-----------------------------------------------------------------------------
(* The chair.                                                              *)

\* The chair's own saves of the table: ACK, DONE, the heal of a seat that is
\* busy without a job, a release or a resync that drops the seat.
ChairSets(s, row) ==
    /\ unsaved["chair"] = Unsaved
    /\ table' = [table EXCEPT ![s] = row]
    /\ UNCHANGED <<digest, unsaved>>

\* expire_stale_workers: the seat is released, then digest.json is loaded.
Expire(s) ==
    /\ unsaved["chair"] = Unsaved
    /\ table[s] # NoRow
    /\ table' = [table EXCEPT ![s] = NoRow]
    /\ unsaved' = [unsaved EXCEPT !["chair"] = Mirrored(digest, s, NoRow)]
    /\ UNCHANGED digest

-----------------------------------------------------------------------------
(* The receiver.  Reports come from the chair, in time or late, from the   *)
(* ears and from worker_state_tool.                                        *)

Serve(mc) ==
    /\ unsaved["receiver"] = Unsaved
    /\ unsaved' = [unsaved EXCEPT !["receiver"] = mc]
    /\ UNCHANGED digest

\* worker_state, queue_accept and queue_done, which save the table first
ServeState(s, row) ==
    /\ Serve(Mirrored(digest, s, row))
    /\ table' = [table EXCEPT ![s] = row]

ServeMerge(byNick, byPid, own, tile) ==
    /\ Serve(Merged(digest, byNick, byPid, own, tile))
    /\ UNCHANGED table

ServeShopDown ==
    /\ Serve(EmptyView)
    /\ UNCHANGED table

\* delete-worker: the refreshed tile is overwritten with the one before.
ServeDelete(s) ==
    /\ Serve([digest EXCEPT !.rows[s] = NoRow])
    /\ table' = [table EXCEPT ![s] = NoRow]

\* An external report is kept beside the machines; the document is saved.
ServeExternal ==
    /\ Serve(digest)
    /\ UNCHANGED table

\* save_digest, after retries in vain or a crash nothing
SaveDigest(a) ==
    /\ unsaved[a] # Unsaved
    /\ digest' \in {digest, unsaved[a]}
    /\ unsaved' = [unsaved EXCEPT ![a] = Unsaved]
    /\ UNCHANGED table

ChairRows == {NoRow, IdleRow} \cup {BusyRow(w) : w \in Work}

\* What an ear sends of one seat.
EarRows == {[s \in WorkSeat |-> IF s = t THEN row ELSE NoRow] : t \in WorkSeat, row \in Row \cup {NoRow}}
NoneSent == EmptyView.rows

DigestNext ==
    \/ \E s \in WorkSeat : Expire(s) \/ ServeDelete(s) \/ \E row \in ChairRows : ChairSets(s, row)
    \/ \E s \in WorkSeat, row \in ChairRows \ {NoRow} : ServeState(s, row)
    \/ \E rows \in EarRows, tile \in Work \cup {NoWork} :
          \/ ServeMerge(rows, NoneSent, NoneSent, tile)
          \/ ServeMerge(NoneSent, rows, NoneSent, tile)
          \/ ServeMerge(NoneSent, NoneSent, rows, tile)
    \/ ServeShopDown
    \/ ServeExternal
    \/ \E a \in Writer : SaveDigest(a)

DigestSpec == DigestInit /\ [][DigestNext]_digestVars

-----------------------------------------------------------------------------
\* Busy and idle seats look it (K12, FR #159, FR #161): whatever heartbeats, late
\* reports and saves over a newer document have left in digest.json, a GET shows
\* every seat of the table as ACK and DONE left it and a job on the machine's
\* tile exactly while it shows a busy seat; and no saved document has a blank
\* tile over a busy seat.
TilesTrue ==
    /\ \A s \in WorkSeat : table[s] # NoRow => Shown.rows[s] = table[s]
    /\ Shown.tile = NoWork <=> BusyWith(Shown.rows) = {}
    /\ BusyWith(digest.rows) # {} => digest.tile # NoWork
=============================================================================
