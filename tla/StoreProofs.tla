---------------------------- MODULE StoreProofs -----------------------------
(***************************************************************************)
(* Proofs about the files the service keeps beside the queue, for every    *)
(* set of seats, jobs, items, submissions and lengths: the fleet digest    *)
(* (FleetDigest), the focus (Focus), the outbox of announcements (Outbox), *)
(* intake (Intake) and the line that announces a webhook (LengthSafe).     *)
(***************************************************************************)
EXTENDS FleetDigest, Focus, Outbox, Intake, LengthSafe, FiniteSetTheorems, SequenceTheorems, TLAPS

-----------------------------------------------------------------------------
(* The fleet digest.                                                       *)

\* A document of digest.json that may be saved: no blank tile over a busy seat.
TileStands(mc) == mc \in MachineView /\ (BusyWith(mc.rows) # {} => mc.tile # NoWork)

DigestInv ==
    /\ table \in Rows
    /\ TileStands(digest)
    /\ DOMAIN unsaved = Writer
    /\ \A a \in Writer : unsaved[a] # Unsaved => TileStands(unsaved[a])

\* The tile that is chosen is the job of a busy seat, and blank without one.
LEMMA TileIsBusy ==
    ASSUME NEW rows \in Rows
    PROVE  Tile(rows) \in Work \cup {NoWork} /\ (Tile(rows) = NoWork <=> BusyWith(rows) = {})
  <1>1. BusyWith(rows) \subseteq Work BY DEF BusyWith, Rows, Row
  <1>2. CASE BusyWith(rows) = {} BY <1>2 DEF Tile
  <1>3. CASE BusyWith(rows) # {}
    <2>1. Tile(rows) \in BusyWith(rows) BY <1>3 DEF Tile
    <2> QED BY <1>1, <1>3, <2>1, DigestAssumption
  <1> QED BY <1>2, <1>3

\* A document whose tile was refreshed stands.
LEMMA RefreshedStands ==
    ASSUME NEW rows \in Rows
    PROVE  TileStands([rows |-> rows, tile |-> Tile(rows)])
  BY TileIsBusy DEF TileStands, MachineView

\* What a machine shows after the mirror of one seat stands.
LEMMA MirroredStands ==
    ASSUME NEW mc, TileStands(mc), NEW s \in WorkSeat, NEW row \in Row \cup {NoRow}
    PROVE  TileStands(Mirrored(mc, s, row))
  <1>1. [mc.rows EXCEPT ![s] = row] \in Rows BY DEF TileStands, MachineView, Rows
  <1> QED BY <1>1, RefreshedStands DEF Mirrored

\* The heal shows the seats of the table as the table has them, and stands.
LEMMA HealedStands ==
    ASSUME table \in Rows, NEW mc, mc.rows \in Rows
    PROVE  /\ TileStands(Healed(mc))
           /\ Healed(mc).tile = NoWork <=> BusyWith(Healed(mc).rows) = {}
           /\ \A s \in WorkSeat : table[s] # NoRow => Healed(mc).rows[s] = table[s]
  <1> DEFINE rows == [s \in WorkSeat |-> IF table[s] # NoRow THEN table[s] ELSE mc.rows[s]]
  <1>1. rows \in Rows BY DEF Rows
  <1>2. Healed(mc) = [rows |-> rows, tile |-> Tile(rows)] BY DEF Healed
  <1>3. \A s \in WorkSeat : table[s] # NoRow => rows[s] = table[s] OBVIOUS
  <1> HIDE DEF rows
  <1> QED BY <1>1, <1>2, <1>3, RefreshedStands, TileIsBusy

\* A merge of what an ear sends stands, whatever rows and tile it sends.
LEMMA MergedStands ==
    ASSUME table \in Rows, NEW mc, TileStands(mc), NEW byNick \in Rows, NEW byPid \in Rows,
           NEW own \in Rows, NEW tile \in Work \cup {NoWork}
    PROVE  TileStands(Merged(mc, byNick, byPid, own, tile))
  <1>1. \A a, b \in Rows : NickKeyed(a, b) \in Rows BY DEF NickKeyed, Rows
  <1> DEFINE sent   == NickKeyed(byNick, byPid)
             rows   == NickKeyed(NickKeyed(sent, mc.rows), own)
             given  == [mc EXCEPT !.rows = rows]
             healed == Healed(given)
  <1>2. rows \in Rows BY <1>1 DEF TileStands, MachineView
  <1>3. given.rows = rows BY DEF TileStands, MachineView
  <1>4. Merged(mc, byNick, byPid, own, tile)
            = IF healed.tile = NoWork THEN [healed EXCEPT !.tile = tile] ELSE healed
    BY DEF Merged
  <1> HIDE DEF rows, given
  <1>5. TileStands(healed) /\ (healed.tile = NoWork <=> BusyWith(healed.rows) = {})
    BY <1>2, <1>3, HealedStands
  <1> HIDE DEF healed
  <1>6. CASE healed.tile = NoWork
    <2> DEFINE res == [healed EXCEPT !.tile = tile]
    <2>1. res.rows = healed.rows /\ res \in MachineView BY <1>5 DEF TileStands, MachineView
    <2>2. BusyWith(res.rows) = {} BY <1>5, <1>6, <2>1
    <2> QED BY <1>4, <1>6, <2>1, <2>2 DEF TileStands
  <1> QED BY <1>4, <1>5, <1>6

\* An empty view stands, and a view stands without one of its seats.
LEMMA EmptyStands ==
    /\ EmptyView.rows \in Rows /\ TileStands(EmptyView)
    /\ \A mc : TileStands(mc) =>
          \A s \in WorkSeat : TileStands([mc EXCEPT !.rows[s] = NoRow])
  <1>1. EmptyView.rows \in Rows /\ EmptyView \in MachineView BY DEF EmptyView, Rows, MachineView
  <1>2. BusyWith(EmptyView.rows) = {} BY DEF EmptyView, BusyWith
  <1>3. ASSUME NEW mc, TileStands(mc), NEW s \in WorkSeat
        PROVE  TileStands([mc EXCEPT !.rows[s] = NoRow])
    <2> DEFINE res == [mc EXCEPT !.rows[s] = NoRow]
    <2>1. res.rows = [mc.rows EXCEPT ![s] = NoRow] /\ res.tile = mc.tile
      BY <1>3 DEF TileStands, MachineView
    <2>2. res \in MachineView BY <1>3 DEF TileStands, MachineView, Rows
    <2>3. BusyWith(res.rows) \subseteq BusyWith(mc.rows)
      BY <1>3, <2>1 DEF BusyWith, TileStands, MachineView, Rows
    <2> QED BY <1>3, <2>1, <2>2, <2>3 DEF TileStands
  <1> QED BY <1>1, <1>2, <1>3 DEF TileStands

\* The invariant holds in an empty home.
LEMMA DigestInitially == DigestInit => DigestInv
  BY EmptyStands DEF DigestInit, DigestInv, Writer

\* A report that is served leaves the invariant, if what it computes stands.
LEMMA ServeKeeps ==
    ASSUME DigestInv, NEW mc, TileStands(mc), Serve(mc), table' \in Rows
    PROVE  DigestInv'
  BY DEF DigestInv, Serve

\* Every step keeps the invariant.
LEMMA DigestSteps == DigestInv /\ [DigestNext]_digestVars => DigestInv'
  <1> SUFFICES ASSUME DigestInv, [DigestNext]_digestVars PROVE DigestInv'
    OBVIOUS
  <1>1. ChairRows \subseteq Row \cup {NoRow} BY DEF ChairRows, Row, IdleRow, BusyRow
  <1>2. EarRows \subseteq Rows BY DEF EarRows, Rows
  <1>3. \A s \in WorkSeat, row \in Row \cup {NoRow} : [table EXCEPT ![s] = row] \in Rows
    BY DEF DigestInv, Rows
  <1>4. ASSUME NEW s \in WorkSeat, Expire(s) PROVE DigestInv'
    <2>1. TileStands(Mirrored(digest, s, NoRow)) BY MirroredStands DEF DigestInv
    <2> QED BY <1>3, <1>4, <2>1 DEF Expire, DigestInv
  <1>5. ASSUME NEW s \in WorkSeat, ServeDelete(s) PROVE DigestInv'
    BY <1>3, <1>5, EmptyStands, ServeKeeps DEF ServeDelete, DigestInv
  <1>6. ASSUME NEW s \in WorkSeat, NEW row \in ChairRows, ChairSets(s, row) PROVE DigestInv'
    BY <1>1, <1>3, <1>6 DEF ChairSets, DigestInv
  <1>7. ASSUME NEW s \in WorkSeat, NEW row \in ChairRows \ {NoRow}, ServeState(s, row)
        PROVE  DigestInv'
    <2>1. TileStands(Mirrored(digest, s, row)) BY <1>1, MirroredStands DEF DigestInv
    <2>2. table' \in Rows BY <1>1, <1>3, <1>7 DEF ServeState
    <2> QED BY <1>7, <2>1, <2>2, ServeKeeps DEF ServeState
  <1>8. ASSUME NEW byNick \in Rows, NEW byPid \in Rows, NEW own \in Rows,
               NEW tile \in Work \cup {NoWork}, ServeMerge(byNick, byPid, own, tile)
        PROVE  DigestInv'
    <2>1. TileStands(Merged(digest, byNick, byPid, own, tile)) BY MergedStands DEF DigestInv
    <2> QED BY <1>8, <2>1, ServeKeeps DEF ServeMerge, DigestInv
  <1>9. CASE ServeShopDown \/ ServeExternal
    BY <1>9, EmptyStands, ServeKeeps DEF ServeShopDown, ServeExternal, DigestInv
  <1>10. ASSUME NEW a \in Writer, SaveDigest(a) PROVE DigestInv'
    BY <1>10 DEF SaveDigest, DigestInv
  <1>11. CASE UNCHANGED digestVars BY <1>11 DEF digestVars, DigestInv
  <1>12. NoneSent \in Rows BY EmptyStands DEF NoneSent
  <1> QED BY <1>2, <1>4, <1>5, <1>6, <1>7, <1>8, <1>9, <1>10, <1>11, <1>12 DEF DigestNext

\* K12, FR #159, FR #161: for every set of seats and jobs a GET shows the seats
\* of the table as the table has them and a tile while a seat is busy, and no
\* document with a blank tile over a busy seat is saved.
THEOREM TilesStayTrue == DigestSpec => []TilesTrue
  <1>1. DigestInv => TilesTrue
    <2> SUFFICES ASSUME DigestInv PROVE TilesTrue OBVIOUS
    <2>1. digest.rows \in Rows BY DEF DigestInv, TileStands, MachineView
    <2> QED BY <2>1, HealedStands DEF DigestInv, TilesTrue, Shown, TileStands
  <1> QED BY <1>1, DigestInitially, DigestSteps, PTL DEF DigestSpec

-----------------------------------------------------------------------------
(* The focus.                                                              *)

\* A document of focus.json whose items without a rank of their own stand in
\* the order in which they were focused.
OrderedDoc(doc) ==
    /\ doc \in FocusDoc
    /\ \A i, j \in doc.counted :
          /\ doc.rank[i] \in 1 .. doc.seq
          /\ i # j => doc.rank[i] # doc.rank[j]

\* Every document that is saved, or that a thread is about to save, is ordered:
\* each is a change of a document that was.
FocusInv ==
    /\ OrderedDoc(focus)
    /\ DOMAIN edit = Thread
    /\ \A t \in Thread : edit[t] # NoEdit => OrderedDoc(edit[t])
    /\ moves \subseteq Item \X Item

\* The empty document is ordered, also with the counter of another one set to 0.
LEMMA EmptyOrdered ==
    /\ OrderedDoc(EmptyFocus)
    /\ \A doc \in FocusDoc : OrderedDoc([Without(doc, Item) EXCEPT !.seq = 0])
  <1>1. OrderedDoc(EmptyFocus) BY FocusAssumption DEF OrderedDoc, EmptyFocus, FocusDoc
  <1>2. ASSUME NEW doc \in FocusDoc PROVE OrderedDoc([Without(doc, Item) EXCEPT !.seq = 0])
    <2> DEFINE none == [i \in Item |-> 0]
               some == [i \in Item |-> IF i \in Item THEN 0 ELSE doc.rank[i]]
               left == doc.counted \ Item
    <2>1. some = none /\ left = {} BY <1>2 DEF FocusDoc
    <2>2. Without(doc, Item) = [rank |-> some, counted |-> left, seq |-> doc.seq]
      BY DEF Without
    <2>3. EmptyFocus = [rank |-> none, counted |-> {}, seq |-> 0] BY DEF EmptyFocus
    <2> HIDE DEF none, some, left
    <2>4. [Without(doc, Item) EXCEPT !.seq = 0] = EmptyFocus BY <2>1, <2>2, <2>3
    <2> QED BY <1>1, <2>4
  <1> QED BY <1>1, <1>2

\* Items that are taken out leave the order of the others.
LEMMA WithoutOrdered ==
    ASSUME NEW doc, OrderedDoc(doc), NEW items
    PROVE  OrderedDoc(Without(doc, items))
  <1> DEFINE res == Without(doc, items)
  <1>1. /\ res.rank = [i \in Item |-> IF i \in items THEN 0 ELSE doc.rank[i]]
        /\ res.counted = doc.counted \ items
        /\ res.seq = doc.seq
    BY DEF Without
  <1>2. res \in FocusDoc BY FocusAssumption DEF OrderedDoc, Without, FocusDoc
  <1>3. \A i \in res.counted : i \in doc.counted /\ res.rank[i] = doc.rank[i]
    BY <1>1 DEF OrderedDoc, FocusDoc
  <1> QED BY <1>1, <1>2, <1>3 DEF OrderedDoc

\* A rank that the owner named takes the item out of the count.
LEMMA NamedOrdered ==
    ASSUME NEW doc, OrderedDoc(doc), NEW i \in Item, NEW r \in 0 .. MaxFocusCmds
    PROVE  OrderedDoc(WithRank(doc, i, r, FALSE))
  <1> DEFINE res == WithRank(doc, i, r, FALSE)
  <1>1. /\ res.rank = [doc.rank EXCEPT ![i] = r]
        /\ res.counted = doc.counted \ {i}
        /\ res.seq = doc.seq
    BY DEF WithRank
  <1>2. res \in FocusDoc BY DEF OrderedDoc, WithRank, FocusDoc
  <1>3. \A j \in res.counted : j \in doc.counted /\ res.rank[j] = doc.rank[j]
    BY <1>1 DEF OrderedDoc, FocusDoc
  <1> QED BY <1>1, <1>2, <1>3 DEF OrderedDoc

\* An item that is focused without a rank comes after all that were.
LEMMA LastOrdered ==
    ASSUME NEW doc, OrderedDoc(doc), NEW i \in Item, doc.seq < MaxFocusCmds
    PROVE  OrderedDoc(Last(doc, i))
  <1> DEFINE rank == [doc.rank EXCEPT ![i] = doc.seq + 1]
             counted == doc.counted \cup {i}
             seq  == doc.seq + 1
             base == [rank |-> rank, counted |-> counted, seq |-> doc.seq]
             res  == Last(doc, i)
  <1>0. res = [base EXCEPT !.seq = seq] BY DEF Last, WithRank
  <1>1. res = [rank |-> rank, counted |-> counted, seq |-> seq]
    <2> HIDE DEF rank, counted, seq, res
    <2> QED BY <1>0
  <1>2. doc.seq \in 0 .. MaxFocusCmds /\ doc.seq + 1 \in 0 .. MaxFocusCmds
    BY FocusAssumption DEF OrderedDoc, FocusDoc
  <1>3. res \in FocusDoc BY <1>1, <1>2 DEF OrderedDoc, FocusDoc
  <1>4. res.rank[i] = doc.seq + 1 BY <1>1 DEF OrderedDoc, FocusDoc
  <1>5. \A j \in res.counted \ {i} : /\ res.rank[j] = doc.rank[j]
                                     /\ doc.rank[j] \in 1 .. doc.seq
    BY <1>1 DEF OrderedDoc, FocusDoc
  <1>6. res.seq = doc.seq + 1 BY <1>1
  <1>7. \A j \in res.counted : res.rank[j] \in 1 .. res.seq
    BY <1>2, <1>4, <1>5, <1>6
  <1>8. \A j, k \in res.counted : j # k => res.rank[j] # res.rank[k]
    <2> SUFFICES ASSUME NEW j \in res.counted, NEW k \in res.counted, j # k
                 PROVE  res.rank[j] # res.rank[k]
      OBVIOUS
    <2>1. CASE j = i BY <1>2, <1>4, <1>5, <2>1
    <2>2. CASE k = i BY <1>2, <1>4, <1>5, <2>2
    <2>3. CASE j # i /\ k # i BY <1>1, <1>5, <2>3 DEF OrderedDoc
    <2> QED BY <2>1, <2>2, <2>3
  <1> QED BY <1>3, <1>7, <1>8 DEF OrderedDoc

\* The pull request takes the place of the issue it closes, and its own place
\* is given up.
LEMMA MovedOrdered ==
    ASSUME NEW doc, OrderedDoc(doc), NEW old \in Item, NEW new \in Item
    PROVE  OrderedDoc(Moved(doc, old, new))
  <1> DEFINE res == Moved(doc, old, new)
  <1>1. doc \in FocusDoc /\ doc.rank[old] \in 0 .. MaxFocusCmds BY DEF OrderedDoc, FocusDoc
  <1>2. CASE old \notin doc.counted
    <2>1. OrderedDoc(Without(doc, {old})) BY WithoutOrdered
    <2>2. OrderedDoc(WithRank(Without(doc, {old}), new, doc.rank[old], FALSE))
      BY <1>1, <2>1, NamedOrdered
    <2> QED BY <1>2, <2>2 DEF Moved, WithRank
  <1>3. CASE old \in doc.counted
    <2>1. /\ res.rank = [[i \in Item |-> IF i \in {old} THEN 0 ELSE doc.rank[i]]
                            EXCEPT ![new] = doc.rank[old]]
          /\ res.counted = (doc.counted \ {old}) \cup {new}
          /\ res.seq = doc.seq
      BY <1>3 DEF Moved, WithRank, Without
    <2>2. res \in FocusDoc
      BY <1>1, <1>3, FocusAssumption DEF Moved, WithRank, Without, FocusDoc
    <2>3. res.rank[new] = doc.rank[old] BY <2>1
    <2>4. \A j \in res.counted \ {new} : /\ j \in doc.counted /\ j # old
                                         /\ res.rank[j] = doc.rank[j]
      BY <1>1, <2>1 DEF FocusDoc
    <2> QED BY <1>3, <2>1, <2>2, <2>3, <2>4 DEF OrderedDoc
  <1> QED BY <1>2, <1>3

\* The invariant holds in an empty home.
LEMMA FocusInitially == FocusInit => FocusInv
  BY EmptyOrdered DEF FocusInit, FocusInv, Thread

\* A thread that loads a document and computes an ordered one keeps the invariant.
LEMMA LoadKeeps ==
    ASSUME FocusInv, NEW t \in Thread, NEW doc, OrderedDoc(doc), Load(t, doc),
           UNCHANGED focus, moves' \subseteq moves
    PROVE  FocusInv'
  BY DEF FocusInv, Load

\* Every step keeps the invariant.
LEMMA FocusSteps == FocusInv /\ [FocusNext]_focusVars => FocusInv'
  <1> SUFFICES ASSUME FocusInv, [FocusNext]_focusVars PROVE FocusInv'
    OBVIOUS
  <1>1. OrderedDoc(focus) /\ "chair" \in Thread /\ "receiver" \in Thread
    BY DEF FocusInv, Thread
  <1>2. ASSUME NEW i \in Item, SetItem(i) PROVE FocusInv'
    <2>1. CASE focus.seq < MaxFocusCmds /\ Load("chair", Last(focus, i))
      BY <1>1, <1>2, <2>1, LastOrdered, LoadKeeps DEF SetItem
    <2>2. ASSUME NEW r \in 1 .. MaxFocusCmds, Load("chair", WithRank(focus, i, r, FALSE))
          PROVE  FocusInv'
      <3>1. r \in 0 .. MaxFocusCmds BY FocusAssumption
      <3> QED BY <1>1, <1>2, <2>2, <3>1, NamedOrdered, LoadKeeps DEF SetItem
    <2> QED BY <1>2, <2>1, <2>2 DEF SetItem
  <1>3. ASSUME NEW i \in Item, UnfocusItem(i) PROVE FocusInv'
    BY <1>1, <1>3, WithoutOrdered, LoadKeeps DEF UnfocusItem
  <1>4. CASE SetRepoOrStrict \/ UnfocusAll
    BY <1>1, <1>4, LoadKeeps DEF SetRepoOrStrict, UnfocusAll
  <1>5. CASE ClearItems
    <2>1. OrderedDoc([Without(focus, Item) EXCEPT !.seq = 0])
      BY <1>1, EmptyOrdered DEF OrderedDoc
    <2> QED BY <1>1, <1>5, <2>1, LoadKeeps DEF ClearItems
  <1>6. ASSUME NEW t \in Thread, Save(t) PROVE FocusInv'
    BY <1>6 DEF Save, FocusInv
  <1>7. ASSUME NEW t \in Thread, Purge(t) PROVE FocusInv'
    BY <1>1, <1>7, WithoutOrdered, LoadKeeps DEF Purge
  <1>8. ASSUME NEW i \in Item, RowComes(i) \/ RowDone(i) PROVE FocusInv'
    BY <1>8 DEF RowComes, RowDone, FocusInv
  <1>9. ASSUME NEW p \in Item, PullComes(p) PROVE FocusInv'
    <2>1. moves' \subseteq Item \X Item BY <1>9, FocusAssumption DEF PullComes
    <2> QED BY <1>9, <2>1 DEF PullComes, FocusInv
  <1>10. ASSUME NEW m \in moves, Retarget(m[1], m[2]) PROVE FocusInv'
    <2>1. m[1] \in Item /\ m[2] \in Item BY DEF FocusInv
    <2>2. UNCHANGED focus /\ moves' \subseteq moves BY <1>10 DEF Retarget
    <2>3. CASE UNCHANGED edit BY <2>2, <2>3 DEF FocusInv
    <2>4. CASE Load("receiver", Moved(focus, m[1], m[2]))
      BY <1>1, <2>1, <2>2, <2>4, MovedOrdered, LoadKeeps
    <2> QED BY <1>10, <2>3, <2>4 DEF Retarget
  <1>11. CASE UNCHANGED focusVars BY <1>11 DEF focusVars, FocusInv
  <1> QED BY <1>2, <1>3, <1>4, <1>5, <1>6, <1>7, <1>8, <1>9, <1>10, <1>11
          DEF FocusNext, FocusCommand

\* For every set of items: whatever the two threads overwrite, no two of the
\* items that were focused without a rank have the same one, and the next comes
\* after them all.
THEOREM RanksStayInOrder == FocusSpec => []RanksInOrder
  <1>1. FocusInv => RanksInOrder BY DEF FocusInv, OrderedDoc, RanksInOrder
  <1> QED BY <1>1, FocusInitially, FocusSteps, PTL DEF FocusSpec

-----------------------------------------------------------------------------
(* The outbox.                                                             *)

\* The numbers of the outbox; the offset in the pos file is one of the file.
OutboxTyped ==
    /\ outboxLen \in Nat /\ readLen \in Nat /\ nextLine \in Nat /\ settled \in Nat
    /\ posFile \in {NoOffset} \cup 0 .. outboxLen
    /\ legacyPos \in Offset
    /\ firstLen \in {NoOffset} \cup Nat
    /\ flood \in Seq(Nat)
    /\ torn \in BOOLEAN /\ replay \in BOOLEAN

\* Before the first start nothing is saved; after it the home has an offset
\* unless a failed save tore it.
OffsetIsKnown ==
    IF firstLen = NoOffset
    THEN drain = "off" /\ posFile = NoOffset /\ settled = 0 /\ ~torn
    ELSE torn \/ posFile # NoOffset

\* A drain is between the offset it read and the end of what it read.
DrainIsWithin ==
    drain = "putting" =>
        /\ readLen <= outboxLen
        /\ nextLine <= readLen + 1
        /\ posFile # NoOffset => posFile < nextLine

\* What was saved once is not before the offset, nor before the drain, unless
\* the offset of the program used before is read again.
SavedIsBehind ==
    ~(torn /\ legacyPos # NoOffset) =>
        /\ settled <= outboxLen
        /\ posFile # NoOffset => settled <= posFile
        /\ drain = "putting" => settled < nextLine

OutboxInv == OutboxTyped /\ OffsetIsKnown /\ DrainIsWithin /\ SavedIsBehind /\ LinesAccounted

\* resolve_outbox_start answers an offset of the file: the one that was saved,
\* when there is one; without any, the end or, for a replay, the start.
LEMMA ResolvedIsWithin ==
    ASSUME OutboxTyped, NEW again \in BOOLEAN
    PROVE  /\ Resolved(outboxLen, again) \in 0 .. outboxLen
           /\ posFile # NoOffset => Resolved(outboxLen, again) = posFile
           /\ posFile = NoOffset /\ legacyPos = NoOffset =>
                 Resolved(outboxLen, again) = IF again THEN 0 ELSE outboxLen
  <1> DEFINE saved == IF posFile # NoOffset THEN posFile ELSE legacyPos
  <1>1. Resolved(outboxLen, again)
            = IF saved = NoOffset \/ saved < 0 THEN (IF again THEN 0 ELSE outboxLen)
              ELSE IF saved > outboxLen THEN outboxLen
              ELSE saved
    BY DEF Resolved
  <1>2. outboxLen \in Nat /\ NoOffset \notin Int BY OutboxAssumption DEF OutboxTyped
  <1>3. saved = NoOffset \/ saved \in Int BY DEF OutboxTyped, Offset
  <1>4. posFile # NoOffset => saved = posFile /\ posFile \in 0 .. outboxLen BY DEF OutboxTyped
  <1>5. posFile = NoOffset /\ legacyPos = NoOffset => saved = NoOffset OBVIOUS
  <1> HIDE DEF saved
  <1>6. CASE saved = NoOffset \/ saved < 0
    <2>1. Resolved(outboxLen, again) = IF again THEN 0 ELSE outboxLen BY <1>1, <1>6
    <2>2. posFile = NoOffset BY <1>2, <1>4, <1>6
    <2>3. Resolved(outboxLen, again) \in 0 .. outboxLen BY <1>2, <2>1
    <2> QED BY <2>1, <2>2, <2>3
  <1>7. CASE saved # NoOffset /\ ~(saved < 0)
    <2>1. Resolved(outboxLen, again) = IF saved > outboxLen THEN outboxLen ELSE saved
      BY <1>1, <1>7
    <2>2. saved \in Nat BY <1>3, <1>7
    <2> QED BY <1>2, <1>4, <1>5, <1>7, <2>1, <2>2
  <1> QED BY <1>6, <1>7

\* A line that is put at the end of the flood queue is in it, with all before it;
\* the queue without its head has all the others.
LEMMA FloodLines ==
    ASSUME NEW f \in Seq(Nat)
    PROVE  /\ \A n \in Nat : /\ Append(f, n) \in Seq(Nat)
                             /\ Append(f, n)[Len(f) + 1] = n
                             /\ Len(f) + 1 \in DOMAIN Append(f, n)
                             /\ \A k \in DOMAIN f : k \in DOMAIN Append(f, n) /\ Append(f, n)[k] = f[k]
           /\ f # << >> => /\ Tail(f) \in Seq(Nat)
                           /\ Len(Tail(f)) < Len(f)
                           /\ \A k \in DOMAIN f : k = 1 \/ (k - 1 \in DOMAIN Tail(f) /\ Tail(f)[k - 1] = f[k])
                           /\ Head(f) = f[1]
  <1>1. ASSUME NEW n \in Nat
        PROVE  /\ Append(f, n) \in Seq(Nat)
               /\ Append(f, n)[Len(f) + 1] = n
               /\ Len(f) + 1 \in DOMAIN Append(f, n)
               /\ \A k \in DOMAIN f : k \in DOMAIN Append(f, n) /\ Append(f, n)[k] = f[k]
    OBVIOUS
  <1>2. ASSUME f # << >>
        PROVE  /\ Tail(f) \in Seq(Nat)
               /\ Len(Tail(f)) < Len(f)
               /\ \A k \in DOMAIN f : k = 1 \/ (k - 1 \in DOMAIN Tail(f) /\ Tail(f)[k - 1] = f[k])
               /\ Head(f) = f[1]
    BY <1>2
  <1> QED BY <1>1, <1>2

\* The invariant holds in an empty home.
LEMMA OutboxInitially == OutboxInit => OutboxInv
  <1> SUFFICES ASSUME OutboxInit PROVE OutboxInv OBVIOUS
  <1> USE DEF OutboxInit
  <1>1. OutboxTyped
    <2>1. outboxLen \in Nat /\ readLen \in Nat /\ nextLine \in Nat /\ settled \in Nat OBVIOUS
    <2>2. posFile \in {NoOffset} \cup 0 .. outboxLen /\ legacyPos \in Offset BY DEF Offset
    <2>3. firstLen \in {NoOffset} \cup Nat /\ torn \in BOOLEAN /\ replay \in BOOLEAN OBVIOUS
    <2>4. flood \in Seq(Nat) OBVIOUS
    <2> QED BY <2>1, <2>2, <2>3, <2>4 DEF OutboxTyped
  <1>2. OffsetIsKnown /\ DrainIsWithin BY DEF OffsetIsKnown, DrainIsWithin
  <1>3. SavedIsBehind /\ LinesAccounted BY DEF SavedIsBehind, LinesAccounted
  <1> QED BY <1>1, <1>2, <1>3 DEF OutboxInv

\* A start resolves the offset: it is the one saved, or one that nothing is before.
LEMMA OutboxStarts ==
    ASSUME OutboxInv, NEW again \in BOOLEAN, StartOutbox(again)
    PROVE  OutboxInv'
  <1> USE DEF OutboxInv, OutboxTyped, OffsetIsKnown, DrainIsWithin, SavedIsBehind
  <1> DEFINE n == Resolved(outboxLen, again)
  <1>1. /\ n \in 0 .. outboxLen
        /\ posFile # NoOffset => n = posFile
        /\ posFile = NoOffset /\ legacyPos = NoOffset => n = IF again THEN 0 ELSE outboxLen
    BY ResolvedIsWithin
  <1> HIDE DEF n
  <1>2. outboxLen # NoOffset /\ n # NoOffset /\ firstLen' # NoOffset /\ firstLen' \in Nat
    BY <1>1, OutboxAssumption DEF StartOutbox
  <1>3. CASE SaveOffset(n, again) /\ UNCHANGED <<torn, outboxFaults>>
    <2>1. posFile' = n /\ settled' \in Nat /\ (settled' = n \/ (settled' = settled /\ n <= settled))
      BY <1>1, <1>3 DEF SaveOffset
    <2>2. OutboxTyped' BY <1>1, <1>2, <1>3, <2>1 DEF StartOutbox
    <2>3. OffsetIsKnown' BY <1>2, <2>1
    <2>4. DrainIsWithin' BY DEF StartOutbox
    <2>5. SavedIsBehind'
      <3> SUFFICES ASSUME ~(torn /\ legacyPos # NoOffset) PROVE settled' <= n
        BY <1>1, <1>2, <1>3, <2>1 DEF StartOutbox
      <3>1. CASE posFile # NoOffset BY <1>1, <2>1, <3>1
      <3>2. CASE posFile = NoOffset /\ firstLen = NoOffset BY <1>1, <2>1, <3>2
      <3>3. CASE posFile = NoOffset /\ firstLen # NoOffset
        <4>1. legacyPos = NoOffset BY <3>3
        <4>2. CASE again BY <1>1, <1>3, <2>1, <3>3, <4>1, <4>2 DEF SaveOffset
        <4>3. CASE ~again BY <1>1, <2>1, <3>3, <4>1, <4>3
        <4> QED BY <4>2, <4>3
      <3> QED BY <3>1, <3>2, <3>3
    <2>6. LinesAccounted'
      <3>1. CASE firstLen = NoOffset
        <4>1. firstLen' = outboxLen /\ outboxLen' = outboxLen BY <3>1 DEF StartOutbox
        <4> QED BY <4>1 DEF LinesAccounted
      <3>2. CASE firstLen # NoOffset /\ ~torn
        <4>1. posFile' = posFile /\ drain # "putting" /\ drain' # "putting" /\ firstLen' = firstLen
          BY <1>1, <2>1, <3>2 DEF StartOutbox
        <4> QED BY <3>2, <4>1 DEF LinesAccounted, StartOutbox
      <3>3. CASE torn BY <1>3, <3>3 DEF LinesAccounted
      <3> QED BY <3>1, <3>2, <3>3
    <2> QED BY <2>2, <2>3, <2>4, <2>5, <2>6
  <1>4. CASE SaveFails /\ UNCHANGED settled
    <2>1. /\ posFile' = posFile \/ posFile' = NoOffset
          /\ torn' = (torn \/ posFile' = NoOffset)
      BY <1>4 DEF SaveFails
    <2>2. OutboxTyped' BY <1>2, <1>4, <2>1 DEF StartOutbox
    <2>3. OffsetIsKnown' BY <1>2, <2>1
    <2>4. DrainIsWithin' BY DEF StartOutbox
    <2>5. SavedIsBehind' BY <1>4, <2>1 DEF StartOutbox
    <2>6. LinesAccounted'
      <3> SUFFICES ASSUME ~torn' PROVE LinesAccounted' BY DEF LinesAccounted
      <3>1. posFile' = posFile /\ posFile # NoOffset /\ firstLen # NoOffset /\ ~torn
        BY <2>1
      <3>2. firstLen' = firstLen /\ drain # "putting" /\ drain' # "putting"
        BY <3>1 DEF StartOutbox
      <3> QED BY <3>1, <3>2 DEF LinesAccounted, StartOutbox
    <2> QED BY <2>2, <2>3, <2>4, <2>5, <2>6
  <1> QED BY <1>3, <1>4 DEF StartOutbox, n

\* A drain begins at the offset, behind all that was saved.
LEMMA OutboxReads ==
    ASSUME OutboxInv, ReadOutbox
    PROVE  OutboxInv'
  <1> USE DEF OutboxInv, OutboxTyped, OffsetIsKnown, DrainIsWithin, SavedIsBehind
  <1> DEFINE n == Resolved(outboxLen, replay)
  <1>1. /\ n \in 0 .. outboxLen
        /\ posFile # NoOffset => n = posFile
        /\ posFile = NoOffset /\ legacyPos = NoOffset => n = IF replay THEN 0 ELSE outboxLen
    BY ResolvedIsWithin
  <1>2. posFile' = n /\ nextLine' = n + 1 /\ settled' = IF n > settled \/ replay THEN n ELSE settled
    BY DEF ReadOutbox, SaveOffset
  <1> HIDE DEF n
  <1>3. n # NoOffset /\ firstLen # NoOffset BY <1>1, OutboxAssumption DEF ReadOutbox
  <1>4. OutboxTyped' BY <1>1, <1>2 DEF ReadOutbox
  <1>5. OffsetIsKnown' BY <1>2, <1>3 DEF ReadOutbox
  <1>6. DrainIsWithin' BY <1>1, <1>2 DEF ReadOutbox
  <1>7. SavedIsBehind'
    <2> SUFFICES ASSUME ~(torn /\ legacyPos # NoOffset) PROVE settled' <= n
      BY <1>1, <1>2, <1>4 DEF ReadOutbox
    <2>1. CASE posFile # NoOffset BY <1>1, <1>2, <2>1
    <2>2. CASE posFile = NoOffset
      <3>1. legacyPos = NoOffset BY <1>3, <2>2
      <3> QED BY <1>1, <1>2, <2>2, <3>1
    <2> QED BY <2>1, <2>2
  <1>8. LinesAccounted'
    <2> SUFFICES ASSUME ~torn PROVE LinesAccounted' BY DEF LinesAccounted, ReadOutbox
    <2>1. posFile # NoOffset /\ nextLine' = posFile + 1 /\ drain = "idle" /\ drain' = "putting"
      BY <1>1, <1>2, <1>3 DEF ReadOutbox
    <2>2. \A l \in Nat : l > posFile => l >= nextLine' BY <2>1
    <2> QED BY <1>3, <2>1, <2>2 DEF LinesAccounted, ReadOutbox
  <1> QED BY <1>4, <1>5, <1>6, <1>7, <1>8

\* The line that is put is in the flood queue.
LEMMA OutboxPuts ==
    ASSUME OutboxInv, PutLine
    PROVE  OutboxInv'
  <1> USE DEF OutboxInv, OutboxTyped, OffsetIsKnown, DrainIsWithin, SavedIsBehind
  <1>1. OutboxTyped' BY FloodLines DEF PutLine
  <1>2. OffsetIsKnown' /\ DrainIsWithin' /\ SavedIsBehind' BY OutboxAssumption DEF PutLine
  <1>3. LinesAccounted'
    <2> SUFFICES ASSUME firstLen # NoOffset, ~torn, NEW l \in firstLen + 1 .. outboxLen
                 PROVE  \/ l \in announced \cup dropped
                        \/ \E k \in DOMAIN flood' : flood'[k] = l
                        \/ l >= nextLine'
      BY DEF LinesAccounted, PutLine
    <2>1. CASE l = nextLine BY <2>1, FloodLines DEF PutLine
    <2>2. CASE \E k \in DOMAIN flood : flood[k] = l BY <2>2, FloodLines DEF PutLine
    <2>3. CASE l >= nextLine /\ l # nextLine BY <2>3 DEF PutLine
    <2>4. CASE l \in announced \cup dropped BY <2>4
    <2> QED BY <2>1, <2>2, <2>3, <2>4 DEF LinesAccounted, PutLine
  <1> QED BY <1>1, <1>2, <1>3

\* A drain ends with the size of what it read, or with the offset it began at.
LEMMA OutboxEnds ==
    ASSUME OutboxInv, EndDrain
    PROVE  OutboxInv'
  <1> USE DEF OutboxInv, OutboxTyped, OffsetIsKnown, DrainIsWithin, SavedIsBehind
  <1>1. nextLine = readLen + 1 /\ drain' = "idle" /\ readLen \in 0 .. outboxLen BY DEF EndDrain
  <1>2. readLen # NoOffset /\ firstLen # NoOffset BY OutboxAssumption DEF EndDrain
  <1>3. CASE SaveOffset(readLen, replay) /\ UNCHANGED <<torn, outboxFaults>>
    <2>1. posFile' = readLen /\ settled' = IF readLen > settled \/ replay THEN readLen ELSE settled
      BY <1>3 DEF SaveOffset
    <2>2. OutboxTyped' /\ OffsetIsKnown' /\ DrainIsWithin' BY <1>1, <1>2, <1>3, <2>1 DEF EndDrain
    <2>3. SavedIsBehind' BY <1>1, <1>2, <1>3, <2>1 DEF EndDrain
    <2>4. LinesAccounted' BY <1>1, <1>3, <2>1 DEF EndDrain, LinesAccounted
    <2> QED BY <2>2, <2>3, <2>4
  <1>4. CASE SaveFails /\ UNCHANGED settled
    <2>1. /\ posFile' = posFile \/ posFile' = NoOffset
          /\ torn' = (torn \/ posFile' = NoOffset)
      BY <1>4 DEF SaveFails
    <2>2. OutboxTyped' /\ OffsetIsKnown' /\ DrainIsWithin' BY <1>1, <1>2, <1>4, <2>1 DEF EndDrain
    <2>3. SavedIsBehind' BY <1>1, <1>2, <1>4, <2>1 DEF EndDrain
    <2>4. LinesAccounted'
      <3> SUFFICES ASSUME ~torn' PROVE LinesAccounted' BY DEF LinesAccounted
      <3>1. posFile' = posFile /\ ~torn BY <2>1, Zenon
      <3>2. posFile # NoOffset BY <1>2, <3>1
      <3>3. posFile < nextLine /\ posFile \in Nat BY <3>2 DEF EndDrain
      <3>4. \A l \in Nat : l >= nextLine => l > posFile BY <3>3
      <3> QED BY <1>1, <1>2, <3>1, <3>4 DEF EndDrain, LinesAccounted
    <2> QED BY <2>2, <2>3, <2>4
  <1> QED BY <1>3, <1>4 DEF EndDrain

\* A line that leaves the flood queue is announced or dropped, and so are all
\* that a crash takes with it.
LEMMA OutboxSends ==
    ASSUME OutboxInv, SendLine \/ CrashOutbox
    PROVE  OutboxInv'
  <1> USE DEF OutboxInv, OutboxTyped, OffsetIsKnown, DrainIsWithin, SavedIsBehind
  <1>1. CASE SendLine
    <2>1. OutboxTyped' /\ OffsetIsKnown' /\ DrainIsWithin' /\ SavedIsBehind'
      BY <1>1, FloodLines DEF SendLine
    <2>2. announced' \cup dropped' = announced \cup dropped \cup {Head(flood)} BY <1>1 DEF SendLine
    <2>3. \A l : (\E k \in DOMAIN flood : flood[k] = l) =>
                    l = Head(flood) \/ \E k \in DOMAIN flood' : flood'[k] = l
      <3>1. flood # << >> /\ flood' = Tail(flood) BY <1>1 DEF SendLine
      <3> SUFFICES ASSUME NEW k \in DOMAIN flood
                   PROVE  flood[k] = Head(flood) \/ \E j \in DOMAIN flood' : flood'[j] = flood[k]
        OBVIOUS
      <3>2. k = 1 \/ (k - 1 \in DOMAIN Tail(flood) /\ Tail(flood)[k - 1] = flood[k])
        BY <3>1, FloodLines
      <3>3. Head(flood) = flood[1] BY <3>1, FloodLines
      <3> QED BY <3>1, <3>2, <3>3
    <2>4. LinesAccounted' BY <1>1, <2>2, <2>3 DEF SendLine, LinesAccounted
    <2> QED BY <2>1, <2>4
  <1>2. CASE CrashOutbox
    <2>1. /\ posFile' = posFile \/ posFile' = NoOffset
          /\ torn' = (torn \/ posFile' = NoOffset)
          /\ drain # "off" /\ drain' = "off" /\ flood' = << >>
          /\ UNCHANGED <<outboxLen, legacyPos, replay, readLen, nextLine, settled, firstLen>>
      BY <1>2 DEF CrashOutbox
    <2>2. OutboxTyped' BY <2>1
    <2>5. firstLen # NoOffset BY <2>1
    <2>6. OffsetIsKnown' BY <2>1, <2>5
    <2>7. DrainIsWithin' /\ SavedIsBehind' BY <2>1
    <2>3. \A l : (\E k \in DOMAIN flood : flood[k] = l) => l \in dropped' BY <1>2 DEF CrashOutbox
    <2>4. LinesAccounted'
      <3> SUFFICES ASSUME ~torn', firstLen # NoOffset PROVE LinesAccounted'
        BY <2>1 DEF LinesAccounted
      <3>1. posFile' = posFile /\ ~torn BY <2>1, Zenon
      <3>2. \A l \in Nat : drain = "putting" /\ l >= nextLine => l > posFile BY <3>1
      <3>3. announced' = announced /\ dropped \subseteq dropped' BY <1>2 DEF CrashOutbox
      <3> QED BY <2>1, <2>3, <3>1, <3>2, <3>3 DEF LinesAccounted
    <2> QED BY <2>2, <2>4, <2>6, <2>7
  <1> QED BY <1>1, <1>2

\* Every step keeps the invariant.
LEMMA OutboxSteps == OutboxInv /\ [OutboxNext]_outboxVars => OutboxInv'
  <1> SUFFICES ASSUME OutboxInv, [OutboxNext]_outboxVars PROVE OutboxInv'
    OBVIOUS
  <1>1. ASSUME NEW n \in 1 .. MaxLines, NEW offset \in {NoOffset, -1} \cup 0 .. MaxLines,
               Cutover(n, offset)
        PROVE  OutboxInv'
    BY <1>1, OutboxAssumption
    DEF Cutover, OutboxInv, OutboxTyped, OffsetIsKnown, DrainIsWithin, SavedIsBehind,
        LinesAccounted, Offset
  <1>2. CASE AppendLine
    <2> USE DEF OutboxInv, OutboxTyped, OffsetIsKnown, DrainIsWithin, SavedIsBehind
    <2>1. OutboxTyped' /\ OffsetIsKnown' /\ DrainIsWithin' /\ SavedIsBehind' BY <1>2 DEF AppendLine
    <2>2. LinesAccounted'
      <3> SUFFICES ASSUME firstLen # NoOffset, ~torn, NEW l \in firstLen + 1 .. outboxLen + 1
                   PROVE  \/ l \in announced \cup dropped
                          \/ \E k \in DOMAIN flood : flood[k] = l
                          \/ IF drain = "putting" THEN l >= nextLine ELSE posFile = NoOffset \/ l > posFile
        BY <1>2 DEF AppendLine, LinesAccounted
      <3>1. CASE l = outboxLen + 1 BY <3>1
      <3>2. CASE l \in firstLen + 1 .. outboxLen BY <3>2 DEF LinesAccounted
      <3> QED BY <3>1, <3>2
    <2> QED BY <2>1, <2>2
  <1>3. CASE LinkChanges
    BY <1>3 DEF LinkChanges, OutboxInv, OutboxTyped, OffsetIsKnown, DrainIsWithin,
                SavedIsBehind, LinesAccounted
  <1>4. CASE UNCHANGED outboxVars
    BY <1>4 DEF outboxVars, OutboxInv, OutboxTyped, OffsetIsKnown, DrainIsWithin,
                SavedIsBehind, LinesAccounted
  <1> QED BY <1>1, <1>2, <1>3, <1>4, OutboxStarts, OutboxReads, OutboxPuts, OutboxEnds, OutboxSends
          DEF OutboxNext

\* For every number of lines and of faults: unless a failed save left the home
\* without an offset, no line that came after the first start is passed over.
THEOREM LinesStayAccounted == OutboxSpec => []LinesAccounted
  <1>1. OutboxInv => LinesAccounted BY DEF OutboxInv
  <1> QED BY <1>1, OutboxInitially, OutboxSteps, PTL DEF OutboxSpec

\* For every number of lines and of faults: what was put into the flood queue
\* before a saved offset is put there again only after a replay was asked for, or
\* where the offset of the program used before is read a second time.
THEOREM LinesAreNotReplayed == OutboxSpec => NoReplay
  <1>1. OutboxInv /\ [OutboxNext]_outboxVars
            => [Requeues => torn /\ legacyPos # NoOffset]_outboxVars
    <2> SUFFICES ASSUME OutboxInv, OutboxNext, Requeues PROVE torn /\ legacyPos # NoOffset
      BY DEF outboxVars
    <2> USE DEF OutboxInv, OutboxTyped, Requeues
    <2>1. CASE PutLine BY <2>1 DEF PutLine, SavedIsBehind
    <2>2. ~SendLine BY FloodLines DEF SendLine
    <2>3. ~CrashOutbox BY DEF CrashOutbox
    <2>4. ~UNCHANGED flood BY DEF Requeues
    <2> QED BY <2>1, <2>2, <2>3, <2>4
            DEF OutboxNext, Cutover, AppendLine, StartOutbox, ReadOutbox, EndDrain, LinkChanges
  <1> QED BY <1>1, OutboxInitially, OutboxSteps, PTL DEF OutboxSpec, NoReplay

-----------------------------------------------------------------------------
(* Intake.                                                                 *)

\* A submission that is on GitHub, waits in the outbox or had its entry cut off
\* stays so: nothing else takes an entry away.
Held(i) == made[i] > 0 \/ i \in outboxed \cup cutOff

IntakeTyped ==
    /\ desks \in [Clerk -> Desk \cup {NoDesk}]
    /\ taken \in 0 .. MaxSubmissions
    /\ made \in [IntakeId -> Nat]
    /\ recordOf \in [IntakeId -> {"none", "queued", "filed"}]
    /\ idemOf \in [IdemKey -> 0 .. MaxSubmissions]
    /\ outboxed \subseteq IntakeId
    /\ told \subseteq IntakeId

\* What a clerk writes down has happened: a submission it calls filed is on
\* GitHub, and one it calls queued is held.
ClerkIsRight(d) ==
    /\ d.at = "outbox" => d.outcome = "queued"
    /\ d.at \in {"record", "idem", "end"} =>
          /\ Held(d.id)
          /\ d.outcome = "filed" => made[d.id] > 0

IntakeInv ==
    /\ IntakeTyped
    /\ \A t \in Clerk : desks[t] # NoDesk => ClerkIsRight(desks[t])
    /\ \A i \in IntakeId : recordOf[i] # "none" => Held(i)
    /\ \A i \in told : Held(i)

Outcomes == {"filed", "queued"}
DeskSteps == {"pull", "issue", "outbox", "record", "idem", "end"}

\* A clerk goes on with its submission; the other one stays where it is.
LEMMA ClerkGoesOn ==
    ASSUME desks \in [Clerk -> Desk \cup {NoDesk}], NEW t \in Clerk, desks[t] # NoDesk,
           NEW step \in DeskSteps, NEW outcome \in Outcomes,
           \/ desks' = [desks EXCEPT ![t].at = step, ![t].outcome = outcome]
           \/ desks' = [desks EXCEPT ![t].at = step] /\ outcome = desks[t].outcome
    PROVE  /\ desks' \in [Clerk -> Desk \cup {NoDesk}]
           /\ desks'[t].at = step /\ desks'[t].outcome = outcome /\ desks'[t].id = desks[t].id
           /\ \A u \in Clerk \ {t} : desks'[u] = desks[u]
           /\ desks'[t] # NoDesk
  <1> DEFINE d == desks[t]
             both == [[d EXCEPT !.at = step] EXCEPT !.outcome = outcome]
             one  == [d EXCEPT !.at = step]
             e    == desks'[t]
  <1>1. d \in Desk OBVIOUS
  <1>2. e = both \/ (e = one /\ outcome = d.outcome) OBVIOUS
  <1>3. \A u \in Clerk \ {t} : desks'[u] = desks[u] OBVIOUS
  <1>4. DOMAIN desks' = Clerk /\ desks' = [u \in Clerk |-> desks'[u]] OBVIOUS
  <1> HIDE DEF d
  <1>5. both \in Desk /\ both.at = step /\ both.outcome = outcome /\ both.id = d.id
    BY <1>1 DEF Desk, DeskSteps, Outcomes
  <1>6. one \in Desk /\ one.at = step /\ one.outcome = d.outcome /\ one.id = d.id
    BY <1>1 DEF Desk, DeskSteps, Outcomes
  <1>7. e \in Desk /\ e.at = step /\ e.outcome = outcome /\ e.id = d.id
    <2> HIDE DEF both, one, e
    <2> QED BY <1>2, <1>5, <1>6
  <1>8. desks' \in [Clerk -> Desk \cup {NoDesk}] BY <1>3, <1>4, <1>7
  <1> QED BY <1>3, <1>7, <1>8, IntakeAssumption DEF d

\* A step that takes nothing away that is held.
HeldGrows ==
    \A i \in IntakeId : /\ made[i] > 0 => made'[i] > 0
                        /\ Held(i) => Held(i)'

\* What a step of one clerk has to show for the invariant.
LEMMA ClerkKeeps ==
    ASSUME IntakeInv, IntakeTyped', HeldGrows, NEW t \in Clerk,
           \A u \in Clerk \ {t} : desks'[u] = desks[u],
           desks'[t] # NoDesk => ClerkIsRight(desks[t])',
           \A i \in told' \ told : Held(i)',
           \A i \in IntakeId : recordOf'[i] = recordOf[i] \/ Held(i)'
    PROVE  IntakeInv'
  <1>1. ASSUME NEW u \in Clerk \ {t}, desks'[u] # NoDesk PROVE ClerkIsRight(desks[u])'
    <2>1. desks[u] \in Desk /\ desks[u].id \in IntakeId /\ ClerkIsRight(desks[u])
      BY <1>1 DEF IntakeInv, IntakeTyped, Desk
    <2>2. desks'[u] = desks[u] OBVIOUS
    <2> QED BY <2>1, <2>2 DEF ClerkIsRight, HeldGrows
  <1>2. \A i \in IntakeId : recordOf'[i] # "none" => Held(i)' BY DEF IntakeInv, HeldGrows
  <1>3. \A i \in told' : Held(i)' BY DEF IntakeInv, IntakeTyped, HeldGrows
  <1> QED BY <1>1, <1>2, <1>3 DEF IntakeInv

\* GitHub makes it, or is down, or makes it and does not say so.
LEMMA CreateKeeps ==
    ASSUME IntakeInv, NEW t \in Clerk, NEW next \in {"issue", "outbox"}, desks[t] # NoDesk,
           Create(t, next),
           UNCHANGED <<taken, keyOf, harvest, fileVars, told, cutOff>>
    PROVE  IntakeInv'
  <1> DEFINE i == desks[t].id
  <1>1. desks \in [Clerk -> Desk \cup {NoDesk}] /\ i \in IntakeId /\ made \in [IntakeId -> Nat]
    BY DEF IntakeInv, IntakeTyped, Desk
  <1>2. made' = made \/ made' = [made EXCEPT ![i] = @ + 1] BY DEF Create
  <1>3. \/ /\ made' = [made EXCEPT ![i] = @ + 1]
           /\ desks' = [desks EXCEPT ![t].at = "record", ![t].outcome = "filed"]
        \/ desks' = [desks EXCEPT ![t].at = next, ![t].outcome = "queued"]
    BY DEF Create
  <1>4. HeldGrows BY <1>1, <1>2 DEF HeldGrows, Held, fileVars
  <1>5. made' \in [IntakeId -> Nat] BY <1>1, <1>2
  <1>6. CASE /\ made' = [made EXCEPT ![i] = @ + 1]
             /\ desks' = [desks EXCEPT ![t].at = "record", ![t].outcome = "filed"]
    <2>1. /\ desks' \in [Clerk -> Desk \cup {NoDesk}]
          /\ desks'[t].at = "record" /\ desks'[t].outcome = "filed" /\ desks'[t].id = i
          /\ \A u \in Clerk \ {t} : desks'[u] = desks[u]
      BY <1>1, <1>6, ClerkGoesOn DEF DeskSteps, Outcomes
    <2>2. IntakeTyped' BY <1>5, <2>1 DEF IntakeInv, IntakeTyped, fileVars
    <2>3. made'[i] > 0 BY <1>1, <1>6
    <2>4. ClerkIsRight(desks[t])' BY <2>1, <2>3 DEF ClerkIsRight, Held
    <2> QED BY <1>4, <2>1, <2>2, <2>4, ClerkKeeps, SMTT(30) DEF fileVars
  <1>7. CASE desks' = [desks EXCEPT ![t].at = next, ![t].outcome = "queued"]
    <2>1. /\ desks' \in [Clerk -> Desk \cup {NoDesk}]
          /\ desks'[t].at = next /\ desks'[t].outcome = "queued"
          /\ \A u \in Clerk \ {t} : desks'[u] = desks[u]
      BY <1>1, <1>7, ClerkGoesOn DEF DeskSteps, Outcomes
    <2>2. IntakeTyped' BY <1>5, <2>1 DEF IntakeInv, IntakeTyped, fileVars
    <2>3. ClerkIsRight(desks[t])' BY <2>1 DEF ClerkIsRight
    <2> QED BY <1>4, <2>1, <2>2, <2>3, ClerkKeeps, SMTT(30) DEF fileVars
  <1> QED BY <1>3, <1>6, <1>7

\* A clerk begins with a submission, or stops: it has written nothing down.
LEMMA ClerkStarts ==
    ASSUME IntakeInv, NEW t \in Clerk, NEW i \in IntakeId, NEW asPull \in BOOLEAN,
           desks' = [desks EXCEPT ![t] = FirstStep(i, asPull)],
           taken' \in 0 .. MaxSubmissions,
           UNCHANGED <<made, fileVars, told, cutOff>>
    PROVE  IntakeInv'
  <1>1. FirstStep(i, asPull) \in Desk BY DEF FirstStep, Desk
  <1>2. FirstStep(i, asPull).at \in {"pull", "issue"} BY DEF FirstStep
  <1>3. /\ desks' \in [Clerk -> Desk \cup {NoDesk}]
        /\ desks'[t] = FirstStep(i, asPull)
        /\ \A u \in Clerk \ {t} : desks'[u] = desks[u]
    BY <1>1 DEF IntakeInv, IntakeTyped
  <1>4. IntakeTyped' BY <1>3 DEF IntakeInv, IntakeTyped, fileVars
  <1>5. HeldGrows BY DEF HeldGrows, Held, fileVars
  <1>6. ClerkIsRight(desks[t])' BY <1>2, <1>3 DEF ClerkIsRight
  <1> QED BY <1>3, <1>4, <1>5, <1>6, ClerkKeeps DEF fileVars

\* A clerk that stops.
LEMMA ClerkStops ==
    ASSUME IntakeInv, NEW t \in Clerk, desks' = [desks EXCEPT ![t] = NoDesk],
           HeldGrows, IntakeTyped', \A i \in told' \ told : Held(i)', UNCHANGED recordOf
    PROVE  IntakeInv'
  <1>1. desks'[t] = NoDesk /\ \A u \in Clerk \ {t} : desks'[u] = desks[u]
    BY DEF IntakeInv, IntakeTyped
  <1> QED BY <1>1, ClerkKeeps

\* Every file a clerk writes, and every crash over one, keeps what is held.
LEMMA ClerkWrites ==
    ASSUME IntakeInv, NEW t \in Clerk, WriteEntry(t) \/ WriteRecord(t) \/ WriteIdem(t)
    PROVE  IntakeInv'
  <1> DEFINE d == desks[t]
             i == d.id
  <1>1. /\ desks \in [Clerk -> Desk \cup {NoDesk}] /\ d # NoDesk /\ d \in Desk
        /\ i \in IntakeId /\ d.outcome \in Outcomes /\ ClerkIsRight(d)
    BY DEF IntakeInv, IntakeTyped, Desk, Outcomes, WriteEntry, WriteRecord, WriteIdem, At
  <1>2. CASE WriteEntry(t)
    <2>1. /\ desks' \in [Clerk -> Desk \cup {NoDesk}]
          /\ desks'[t].at = "record" /\ desks'[t].outcome = d.outcome /\ desks'[t].id = i
          /\ \A u \in Clerk \ {t} : desks'[u] = desks[u]
      BY <1>1, <1>2, ClerkGoesOn, ZenonT(40) DEF WriteEntry, DeskSteps
    <2>2. HeldGrows BY <1>2 DEF WriteEntry, HeldGrows, Held
    <2>3. IntakeTyped' BY <1>1, <1>2, <2>1 DEF WriteEntry, IntakeInv, IntakeTyped
    <2>4. ClerkIsRight(desks[t])' BY <1>1, <1>2, <2>1 DEF WriteEntry, At, ClerkIsRight, Held
    <2> QED BY <1>2, <2>1, <2>2, <2>3, <2>4, ClerkKeeps DEF WriteEntry
  <1>3. CASE WriteRecord(t)
    <2>1. /\ desks' \in [Clerk -> Desk \cup {NoDesk}]
          /\ desks'[t].at = "idem" /\ desks'[t].outcome = d.outcome /\ desks'[t].id = i
          /\ \A u \in Clerk \ {t} : desks'[u] = desks[u]
      BY <1>1, <1>3, ClerkGoesOn, ZenonT(40) DEF WriteRecord, DeskSteps
    <2>2. HeldGrows BY <1>3 DEF WriteRecord, HeldGrows, Held
    <2>3. IntakeTyped' BY <1>1, <1>3, <2>1 DEF WriteRecord, IntakeInv, IntakeTyped, Outcomes
    <2>4. ClerkIsRight(desks[t])' BY <1>1, <1>3, <2>1 DEF WriteRecord, At, ClerkIsRight, Held
    <2>5. \A j \in IntakeId : recordOf'[j] = recordOf[j] \/ Held(j)'
      BY <1>1, <1>3 DEF WriteRecord, At, ClerkIsRight, Held, IntakeInv, IntakeTyped
    <2> QED BY <1>3, <2>1, <2>2, <2>3, <2>4, <2>5, ClerkKeeps DEF WriteRecord
  <1>4. CASE WriteIdem(t)
    <2>1. /\ desks' \in [Clerk -> Desk \cup {NoDesk}]
          /\ desks'[t].at = "end" /\ desks'[t].outcome = d.outcome /\ desks'[t].id = i
          /\ \A u \in Clerk \ {t} : desks'[u] = desks[u]
      BY <1>1, <1>4, ClerkGoesOn DEF WriteIdem, DeskSteps
    <2>2. HeldGrows BY <1>4 DEF WriteIdem, HeldGrows, Held
    <2>3. i \in 0 .. MaxSubmissions BY <1>1, IntakeAssumption DEF IntakeId
    <2>4. idemOf' \in [IdemKey -> 0 .. MaxSubmissions]
      BY <1>4, <2>3 DEF WriteIdem, IntakeInv, IntakeTyped
    <2>5. IntakeTyped' BY <1>4, <2>1, <2>4 DEF WriteIdem, IntakeInv, IntakeTyped
    <2>6. ClerkIsRight(desks[t])' BY <1>1, <1>4, <2>1 DEF WriteIdem, At, ClerkIsRight, Held
    <2> QED BY <1>4, <2>1, <2>2, <2>5, <2>6, ClerkKeeps DEF WriteIdem
  <1> QED BY <1>2, <1>3, <1>4

\* The invariant holds before the first submission.
LEMMA IntakeInitially == IntakeInit => IntakeInv
  BY IntakeAssumption DEF IntakeInit, IntakeInv, IntakeTyped

\* The invariant holds after every step.
LEMMA IntakeSteps == IntakeInv /\ [IntakeNext]_intakeVars => IntakeInv'
  <1> SUFFICES ASSUME IntakeInv, [IntakeNext]_intakeVars PROVE IntakeInv'
    OBVIOUS
  <1> "post" \in Clerk /\ "drain" \in Clerk BY DEF Clerk
  <1>1. ASSUME NEW k \in IdemKey, AnswerDuplicate(k) PROVE IntakeInv'
    <2>1. idemOf[k] \in IntakeId /\ Held(idemOf[k])
      BY <1>1, IntakeAssumption DEF AnswerDuplicate, Known, IntakeInv, IntakeTyped, IntakeId
    <2>2. IntakeTyped' BY <1>1, <2>1 DEF AnswerDuplicate, IntakeInv, IntakeTyped, fileVars
    <2>3. HeldGrows /\ \A i \in told' \ told : Held(i)'
      BY <1>1, <2>1 DEF AnswerDuplicate, HeldGrows, Held, fileVars
    <2>4. desks'["post"] = NoDesk /\ desks' = desks BY <1>1 DEF AnswerDuplicate
    <2> QED BY <1>1, <2>2, <2>3, <2>4, ClerkKeeps DEF AnswerDuplicate, fileVars
  <1>2. ASSUME NEW k \in IdemKey \cup {NoIdem}, NEW asPull \in BOOLEAN, Post(k, asPull)
        PROVE  IntakeInv'
    <2>1. taken + 1 \in IntakeId /\ taken' \in 0 .. MaxSubmissions
      BY <1>2, IntakeAssumption DEF Post, IntakeInv, IntakeTyped, IntakeId
    <2>2. desks' = [desks EXCEPT !["post"] = FirstStep(taken + 1, asPull)]
          /\ UNCHANGED <<made, fileVars, told, cutOff>>
      BY <1>2 DEF Post
    <2> QED BY <2>1, <2>2, ClerkStarts
  <1>3. ASSUME NEW i \in outboxed, TakeFromOutbox(i) PROVE IntakeInv'
    <2>1. i \in IntakeId /\ taken' \in 0 .. MaxSubmissions
      BY <1>3 DEF TakeFromOutbox, IntakeInv, IntakeTyped
    <2>2. (i \in harvest) \in BOOLEAN OBVIOUS
    <2>3. desks' = [desks EXCEPT !["drain"] = FirstStep(i, i \in harvest)]
          /\ UNCHANGED <<made, fileVars, told, cutOff>>
      BY <1>3 DEF TakeFromOutbox
    <2> QED BY <2>1, <2>2, <2>3, ClerkStarts
  <1>4. ASSUME NEW t \in Clerk, CreatePull(t) \/ CreateIssue(t) PROVE IntakeInv'
    BY <1>4, CreateKeeps DEF CreatePull, CreateIssue, At
  <1>5. ASSUME NEW t \in Clerk, WriteEntry(t) \/ WriteRecord(t) \/ WriteIdem(t) PROVE IntakeInv'
    BY <1>5, ClerkWrites
  <1>6. ASSUME NEW t \in Clerk, CrashIntake(t) PROVE IntakeInv'
    <2>1. desks[t] \in Desk /\ desks[t].id \in IntakeId
      BY <1>6 DEF CrashIntake, IntakeInv, IntakeTyped, Desk
    <2>2. idemOf' \in [IdemKey -> 0 .. MaxSubmissions]
      BY <1>6, IntakeAssumption DEF CrashIntake, IntakeInv, IntakeTyped
    <2>3. desks' = [desks EXCEPT ![t] = NoDesk] /\ UNCHANGED <<taken, made, recordOf, told>>
      BY <1>6 DEF CrashIntake
    <2>4. outboxed' \subseteq outboxed /\ cutOff \subseteq cutOff' /\ outboxed \subseteq outboxed' \cup cutOff'
      BY <1>6 DEF CrashIntake
    <2>5. IntakeTyped' BY <2>2, <2>3, <2>4 DEF IntakeInv, IntakeTyped
    <2>6. HeldGrows BY <2>3, <2>4 DEF HeldGrows, Held
    <2> QED BY <2>3, <2>5, <2>6, ClerkStops
  <1>7. CASE Answer
    <2>1. desks["post"] \in Desk /\ desks["post"].id \in IntakeId /\ Held(desks["post"].id)
      BY <1>7 DEF Answer, At, IntakeInv, IntakeTyped, Desk, ClerkIsRight
    <2>2. IntakeTyped' BY <1>7, <2>1 DEF Answer, IntakeInv, IntakeTyped, fileVars
    <2>3. HeldGrows /\ \A i \in told' \ told : Held(i)'
      BY <1>7, <2>1 DEF Answer, HeldGrows, Held, fileVars
    <2> QED BY <1>7, <2>2, <2>3, ClerkStops DEF Answer, fileVars
  <1>8. CASE Unlink
    <2>1. \A i \in Drained : made[i] > 0
      BY <1>8 DEF Unlink, At, Drained, IntakeInv, ClerkIsRight
    <2>2. IntakeTyped' BY <1>8 DEF Unlink, IntakeInv, IntakeTyped
    <2>3. HeldGrows BY <1>8, <2>1 DEF Unlink, HeldGrows, Held
    <2> QED BY <1>8, <2>2, <2>3, ClerkStops DEF Unlink
  <1>9. CASE UNCHANGED intakeVars
    BY <1>9 DEF intakeVars, fileVars, IntakeInv, IntakeTyped, ClerkIsRight, Held
  <1> QED BY <1>1, <1>2, <1>3, <1>4, <1>5, <1>6, <1>7, <1>8, <1>9 DEF IntakeNext

\* For every number of submissions, crashes and lost answers: what a client was
\* given an id for is on GitHub or in the outbox, or its entry was cut off.
THEOREM ToldStaysKept == IntakeSpec => []ToldIsKept
  <1>1. IntakeInv => ToldIsKept BY DEF IntakeInv, ToldIsKept, Held
  <1> QED BY <1>1, IntakeInitially, IntakeSteps, PTL DEF IntakeSpec

-----------------------------------------------------------------------------
(* What is made of a submission.  A ledger per key: what GitHub has, and     *)
(* what may still be made without a further fault.                         *)

On(t, steps) == desks[t] # NoDesk /\ desks[t].at \in steps

Filing == {"pull", "issue", "outbox"}
Noting == {"record", "idem", "end"}

\* The entry that the drain has filed and will unlink.
Settled == IF On("drain", Noting) /\ desks["drain"].outcome = "filed"
           THEN {desks["drain"].id} ELSE {}

\* The new submission that is neither filed nor in the outbox yet.
InHand == IF On("post", Filing) THEN {desks["post"].id} ELSE {}

\* The key whose file the post that is being served will write.
Awaited == IF On("post", Filing \cup {"record", "idem"}) THEN {keyOf[desks["post"].id]} ELSE {}

\* What may still be made under a key: the entries that wait, the submission in
\* hand, and (as 0) one that would be taken for new.
Owed(k) ==
    {i \in (outboxed \ Settled) \cup InHand : keyOf[i] = k}
        \cup (IF idemOf[k] = 0 /\ k \notin Awaited THEN {0} ELSE {})

\* The submission of a desk has its number.
DesksNumbered == \A t \in Clerk : desks[t] # NoDesk => desks[t].id \in 1 .. taken

\* What the desks and the files know of each other.
BooksAgree ==
    /\ DesksNumbered
    /\ \A t \in Clerk : On(t, {"idem", "end"}) => recordOf[desks[t].id] # "none"
    /\ InHand \cap outboxed = {}
    /\ desks["drain"] # NoDesk => desks["drain"].id \in outboxed
    /\ \A i \in IntakeId : i > taken => made[i] = 0
    /\ \A k \in IdemKey : idemOf[k] # 0 => recordOf[idemOf[k]] # "none"

Balanced(k) ==
    /\ IsFiniteSet(GitHubHas(k)) /\ IsFiniteSet(Owed(k))
    /\ Cardinality(GitHubHas(k)) + Cardinality(Owed(k)) <= 1 + 2 * intakeFaults

LedgerInv ==
    /\ IntakeInv
    /\ IntakeTypeOK
    /\ BooksAgree
    /\ \A k \in IdemKey : Balanced(k)

\* One element more counts for at most one more, and one less for one less.
LEMMA OneMore ==
    ASSUME NEW S, IsFiniteSet(S), NEW x
    PROVE  /\ IsFiniteSet(S \cup {x}) /\ Cardinality(S \cup {x}) \in Nat
           /\ Cardinality(S \cup {x}) <= Cardinality(S) + 1
           /\ Cardinality(S) \in Nat
           /\ IsFiniteSet(S \ {x})
           /\ x \in S => Cardinality(S \ {x}) = Cardinality(S) - 1
           /\ \A T \in SUBSET S : IsFiniteSet(T) /\ Cardinality(T) \in Nat
                                  /\ Cardinality(T) <= Cardinality(S)
  <1>1. Cardinality(S) \in Nat /\ IsFiniteSet(S \cup {x}) BY FS_CardinalityType, FS_AddElement
  <1>2. Cardinality(S \cup {x}) <= Cardinality(S) + 1 BY <1>1, FS_AddElement
  <1>3. IsFiniteSet(S \ {x}) /\ (x \in S => Cardinality(S \ {x}) = Cardinality(S) - 1)
    BY FS_RemoveElement
  <1>4. ASSUME NEW T \in SUBSET S
        PROVE  IsFiniteSet(T) /\ Cardinality(T) \in Nat /\ Cardinality(T) <= Cardinality(S)
    BY <1>4, FS_Subset, FS_CardinalityType
  <1>5. Cardinality(S \cup {x}) \in Nat BY <1>1, FS_CardinalityType
  <1> QED BY <1>1, <1>2, <1>3, <1>4, <1>5

\* What a step may do to the two columns has and owed of a ledger, and to the
\* number of faults.
Shift(has, owed, f, has2, owed2, f2) ==
    \/ has2 = has /\ owed2 \subseteq owed /\ f2 = f
    \/ /\ \E x : has2 = has \cup {x}
       /\ \E i \in owed : owed2 \subseteq owed \ {i}
       /\ f2 = f
    \/ (\E x : has2 = has \cup {x}) /\ owed2 \subseteq owed /\ f2 = f + 1
    \/ has2 = has /\ (\E a, b : owed2 \subseteq owed \cup {a, b}) /\ f2 = f + 1
    \/ has2 = has /\ (\E a \in owed : \E b : owed2 \subseteq (owed \ {a}) \cup {b}) /\ f2 = f

\* How a shift is recognised.
LEMMA ShiftRules ==
    ASSUME NEW has, NEW owed, NEW f, NEW has2, NEW owed2, NEW f2
    PROVE  /\ has2 = has /\ owed2 \subseteq owed /\ f2 = f => Shift(has, owed, f, has2, owed2, f2)
           /\ \A x, i : has2 = has \cup {x} /\ i \in owed /\ owed2 \subseteq owed \ {i} /\ f2 = f
                  => Shift(has, owed, f, has2, owed2, f2)
           /\ \A x : has2 = has \cup {x} /\ owed2 \subseteq owed /\ f2 = f + 1
                  => Shift(has, owed, f, has2, owed2, f2)
           /\ \A a, b : has2 = has /\ owed2 \subseteq owed \cup {a, b} /\ f2 = f + 1
                  => Shift(has, owed, f, has2, owed2, f2)
           /\ \A a, b : has2 = has /\ a \in owed /\ owed2 \subseteq (owed \ {a}) \cup {b} /\ f2 = f
                  => Shift(has, owed, f, has2, owed2, f2)
  BY Zenon DEF Shift

\* Each of these keeps a ledger balanced.
LEMMA ShiftBalances ==
    ASSUME NEW has, NEW owed, NEW f \in Nat, IsFiniteSet(has), IsFiniteSet(owed),
           Cardinality(has) + Cardinality(owed) <= 1 + 2 * f,
           NEW has2, NEW owed2, NEW f2, Shift(has, owed, f, has2, owed2, f2)
    PROVE  /\ IsFiniteSet(has2) /\ IsFiniteSet(owed2)
           /\ Cardinality(has2) + Cardinality(owed2) <= 1 + 2 * f2
  <1>0. Cardinality(has) \in Nat /\ Cardinality(owed) \in Nat BY FS_CardinalityType
  <1>1. CASE has2 = has /\ owed2 \subseteq owed /\ f2 = f
    <2>1. IsFiniteSet(owed2) /\ Cardinality(owed2) \in Nat /\ Cardinality(owed2) <= Cardinality(owed)
      BY <1>1, OneMore
    <2> QED BY <1>0, <1>1, <2>1
  <1>2. ASSUME NEW x, has2 = has \cup {x}
        PROVE  IsFiniteSet(has2) /\ Cardinality(has2) \in Nat /\ Cardinality(has2) <= Cardinality(has) + 1
    BY <1>2, OneMore
  <1>3. ASSUME NEW x, has2 = has \cup {x}, NEW i \in owed, owed2 \subseteq owed \ {i}, f2 = f
        PROVE  /\ IsFiniteSet(has2) /\ IsFiniteSet(owed2)
               /\ Cardinality(has2) + Cardinality(owed2) <= 1 + 2 * f2
    <2>1. IsFiniteSet(owed \ {i}) /\ Cardinality(owed \ {i}) = Cardinality(owed) - 1 BY OneMore
    <2>2. /\ IsFiniteSet(owed2) /\ Cardinality(owed2) \in Nat
          /\ Cardinality(owed2) <= Cardinality(owed) - 1
      BY <1>3, <2>1, OneMore
    <2>3. /\ IsFiniteSet(has2) /\ Cardinality(has2) \in Nat
          /\ Cardinality(has2) <= Cardinality(has) + 1
      BY <1>2, <1>3, Zenon
    <2> QED BY <1>0, <1>3, <2>2, <2>3
  <1>4. ASSUME NEW x, has2 = has \cup {x}, owed2 \subseteq owed, f2 = f + 1
        PROVE  /\ IsFiniteSet(has2) /\ IsFiniteSet(owed2)
               /\ Cardinality(has2) + Cardinality(owed2) <= 1 + 2 * f2
    <2>1. IsFiniteSet(owed2) /\ Cardinality(owed2) \in Nat /\ Cardinality(owed2) <= Cardinality(owed)
      BY <1>4, OneMore
    <2>2. /\ IsFiniteSet(has2) /\ Cardinality(has2) \in Nat
          /\ Cardinality(has2) <= Cardinality(has) + 1
      BY <1>2, <1>4, Zenon
    <2> QED BY <1>0, <1>4, <2>1, <2>2
  <1>5. ASSUME has2 = has, NEW a, NEW b, owed2 \subseteq owed \cup {a, b}, f2 = f + 1
        PROVE  /\ IsFiniteSet(has2) /\ IsFiniteSet(owed2)
               /\ Cardinality(has2) + Cardinality(owed2) <= 1 + 2 * f2
    <2> DEFINE one == owed \cup {a}
               two == one \cup {b}
    <2>1. IsFiniteSet(one) /\ Cardinality(one) \in Nat /\ Cardinality(one) <= Cardinality(owed) + 1
      BY OneMore
    <2> HIDE DEF one
    <2>2. IsFiniteSet(two) /\ Cardinality(two) \in Nat /\ Cardinality(two) <= Cardinality(one) + 1
      BY <2>1, OneMore
    <2>3. owed2 \subseteq two BY <1>5 DEF one
    <2> HIDE DEF two
    <2>4. IsFiniteSet(owed2) /\ Cardinality(owed2) \in Nat /\ Cardinality(owed2) <= Cardinality(two)
      BY <2>2, <2>3, OneMore
    <2> QED BY <1>0, <1>5, <2>1, <2>2, <2>4
  <1>6. ASSUME has2 = has, NEW a \in owed, NEW b, owed2 \subseteq (owed \ {a}) \cup {b}, f2 = f
        PROVE  /\ IsFiniteSet(has2) /\ IsFiniteSet(owed2)
               /\ Cardinality(has2) + Cardinality(owed2) <= 1 + 2 * f2
    <2> DEFINE less == owed \ {a}
               same == less \cup {b}
    <2>1. IsFiniteSet(less) /\ Cardinality(less) = Cardinality(owed) - 1 BY OneMore
    <2> HIDE DEF less
    <2>2. IsFiniteSet(same) /\ Cardinality(same) \in Nat /\ Cardinality(same) <= Cardinality(less) + 1
      BY <2>1, OneMore
    <2>3. owed2 \subseteq same BY <1>6 DEF less
    <2> HIDE DEF same
    <2>4. IsFiniteSet(owed2) /\ Cardinality(owed2) \in Nat /\ Cardinality(owed2) <= Cardinality(same)
      BY <2>2, <2>3, OneMore
    <2> QED BY <1>0, <1>6, <2>1, <2>2, <2>4
  <1> QED BY <1>1, <1>3, <1>4, <1>5, <1>6, Zenon DEF Shift

\* GitHub has something new under a key when something is made of a submission
\* of it, and only then.
LEMMA MakesOne ==
    ASSUME made \in [IntakeId -> Nat], NEW i \in IntakeId, NEW k \in IdemKey,
           made' = [made EXCEPT ![i] = @ + 1], keyOf' = keyOf
    PROVE  /\ keyOf[i] = k => \E x : GitHubHas(k)' = GitHubHas(k) \cup {x}
           /\ keyOf[i] # k => GitHubHas(k)' = GitHubHas(k)
  <1>1. made'[i] = made[i] + 1 /\ made[i] \in Nat
        /\ \A j \in IntakeId \ {i} : made'[j] = made[j]
    OBVIOUS
  <1>2. 1 .. made'[i] = (1 .. made[i]) \cup {made[i] + 1} BY <1>1
  <1>3. CASE keyOf[i] # k BY <1>1, <1>3 DEF GitHubHas
  <1>4. CASE keyOf[i] = k
    <2> DEFINE x == <<i, made[i] + 1>>
    <2>1. x \in GitHubHas(k)'
      <3>1. x \in {i} \X (1 .. made'[i]) BY <1>2
      <3> QED BY <1>4, <3>1 DEF GitHubHas
    <2>2. GitHubHas(k) \subseteq GitHubHas(k)' BY <1>1, <1>2 DEF GitHubHas
    <2>3. ASSUME NEW p \in GitHubHas(k)', p # x PROVE p \in GitHubHas(k)
      <3>1. PICK j \in IntakeId : keyOf[j] = k /\ p \in {j} \X (1 .. made'[j])
        BY <2>3 DEF GitHubHas
      <3>2. p \in {j} \X (1 .. made[j]) BY <1>1, <1>2, <2>3, <3>1
      <3> QED BY <3>1, <3>2 DEF GitHubHas
    <2> HIDE DEF x
    <2>4. GitHubHas(k)' = GitHubHas(k) \cup {x} BY <2>1, <2>2, <2>3
    <2> QED BY <1>4, <2>4
  <1> QED BY <1>3, <1>4

\* The parts of the types that a step of a clerk cannot take for granted.
Numbered ==
    /\ taken \in 0 .. MaxSubmissions
    /\ keyOf \in [IntakeId -> IdemKey \cup {NoIdem}]
    /\ harvest \subseteq IntakeId
    /\ outboxed \subseteq 1 .. taken
    /\ idemOf \in [IdemKey -> 0 .. taken]
    /\ told \subseteq 1 .. taken /\ cutOff \subseteq 1 .. taken
    /\ intakeFaults \in 0 .. MaxIntakeFaults

\* Every step keeps the numbers.
LEMMA NumberSteps ==
    IntakeTyped /\ Numbered /\ DesksNumbered /\ [IntakeNext]_intakeVars => Numbered'
  <1> SUFFICES ASSUME IntakeTyped, Numbered, DesksNumbered, [IntakeNext]_intakeVars
               PROVE  Numbered'
    OBVIOUS
  <1> "post" \in Clerk /\ "drain" \in Clerk BY DEF Clerk
  <1>a. IntakeFault => intakeFaults' \in 0 .. MaxIntakeFaults
    BY IntakeAssumption DEF IntakeFault, Numbered
  <1>1. ASSUME NEW k \in IdemKey, AnswerDuplicate(k) PROVE Numbered'
    <2>1. idemOf[k] \in 1 .. taken BY <1>1 DEF AnswerDuplicate, Known, Numbered
    <2> QED BY <1>1, <2>1 DEF AnswerDuplicate, Numbered, fileVars
  <1>2. ASSUME NEW k \in IdemKey \cup {NoIdem}, NEW asPull \in BOOLEAN, Post(k, asPull)
        PROVE  Numbered'
    <2>1. /\ taken' = taken + 1 /\ taken + 1 \in IntakeId /\ taken' \in 0 .. MaxSubmissions
          /\ 1 .. taken \subseteq 1 .. taken' /\ 0 .. taken \subseteq 0 .. taken'
      BY <1>2, IntakeAssumption DEF Post, Numbered, IntakeId
    <2>2. keyOf' \in [IntakeId -> IdemKey \cup {NoIdem}] BY <1>2 DEF Post, Numbered
    <2>3. harvest' \subseteq IntakeId BY <1>2, <2>1 DEF Post, Numbered
    <2>4. UNCHANGED <<outboxed, idemOf, told, cutOff, intakeFaults>> BY <1>2 DEF Post, fileVars
    <2>5. idemOf' \in [IdemKey -> 0 .. taken'] BY <2>1, <2>4 DEF Numbered
    <2> QED BY <2>1, <2>2, <2>3, <2>4, <2>5 DEF Numbered
  <1>3. ASSUME NEW i \in outboxed, TakeFromOutbox(i) PROVE Numbered'
    BY <1>3 DEF TakeFromOutbox, Numbered, fileVars
  <1>4. ASSUME NEW t \in Clerk, CreatePull(t) \/ CreateIssue(t) PROVE Numbered'
    <2>1. IntakeFault \/ UNCHANGED intakeFaults BY <1>4 DEF CreatePull, CreateIssue, Create
    <2>2. UNCHANGED <<taken, keyOf, harvest, fileVars, told, cutOff>>
      BY <1>4 DEF CreatePull, CreateIssue
    <2> QED BY <1>a, <2>1, <2>2 DEF Numbered, fileVars
  <1>5. ASSUME NEW t \in Clerk, WriteEntry(t) \/ WriteRecord(t) \/ WriteIdem(t) PROVE Numbered'
    <2>1. desks[t].id \in 1 .. taken /\ desks[t].id \in 0 .. taken
      BY <1>5 DEF WriteEntry, WriteRecord, WriteIdem, At, DesksNumbered, Numbered
    <2> QED BY <1>5, <2>1 DEF WriteEntry, WriteRecord, WriteIdem, Numbered
  <1>6. ASSUME NEW t \in Clerk, CrashIntake(t) PROVE Numbered'
    <2>1. desks[t].id \in 1 .. taken BY <1>6 DEF CrashIntake, DesksNumbered
    <2>2. idemOf' \in [IdemKey -> 0 .. taken] BY <1>6 DEF CrashIntake, Numbered
    <2>3. outboxed' \subseteq outboxed /\ cutOff' \subseteq cutOff \cup {desks[t].id}
      BY <1>6 DEF CrashIntake
    <2> QED BY <1>6, <1>a, <2>1, <2>2, <2>3 DEF CrashIntake, Numbered
  <1>7. CASE Answer BY <1>7 DEF Answer, At, DesksNumbered, Numbered, fileVars
  <1>8. CASE Unlink BY <1>8 DEF Unlink, Numbered
  <1>9. CASE UNCHANGED intakeVars BY <1>9 DEF intakeVars, fileVars, Numbered
  <1> QED BY <1>1, <1>2, <1>3, <1>4, <1>5, <1>6, <1>7, <1>8, <1>9 DEF IntakeNext

\* What a step has to show for the ledgers.
LedgersShift ==
    \A k \in IdemKey : Shift(GitHubHas(k), Owed(k), intakeFaults,
                            GitHubHas(k)', Owed(k)', intakeFaults')

\* A step that makes nothing, and after which no more is owed.
LEMMA QuietLedgers ==
    ASSUME UNCHANGED <<made, keyOf, intakeFaults>>,
           (outboxed' \ Settled') \cup InHand' \subseteq (outboxed \ Settled) \cup InHand,
           \A k \in IdemKey : idemOf'[k] = 0 /\ k \notin Awaited' => idemOf[k] = 0 /\ k \notin Awaited
    PROVE  LedgersShift
  <1> SUFFICES ASSUME NEW k \in IdemKey
               PROVE  GitHubHas(k)' = GitHubHas(k) /\ Owed(k)' \subseteq Owed(k)
    BY DEF LedgersShift, Shift
  <1>1. GitHubHas(k)' = GitHubHas(k) BY DEF GitHubHas
  <1>2. Owed(k)' \subseteq Owed(k) BY DEF Owed
  <1> QED BY <1>1, <1>2

\* The step of one desk, and what the other one has at hand.
LEMMA OtherDesk ==
    ASSUME NEW t \in Clerk, \A u \in Clerk \ {t} : desks'[u] = desks[u], keyOf' = keyOf
    PROVE  /\ t = "drain" => InHand' = InHand /\ Awaited' = Awaited
           /\ t = "post" => Settled' = Settled
  BY DEF Clerk, InHand, Awaited, Settled, On

\* GitHub makes it, or is down, or makes it and does not say so.
LEMMA CreateShifts ==
    ASSUME LedgerInv, NEW t \in Clerk, NEW next \in {"issue", "outbox"},
           At(t, "pull") \/ At(t, "issue"), Create(t, next),
           UNCHANGED <<taken, keyOf, harvest, fileVars, told, cutOff>>
    PROVE  BooksAgree' /\ LedgersShift
  <1> DEFINE i == desks[t].id
  <1>1. /\ desks \in [Clerk -> Desk \cup {NoDesk}] /\ desks[t] # NoDesk
        /\ i \in 1 .. taken /\ i \in IntakeId /\ made \in [IntakeId -> Nat]
        /\ desks[t].at \in {"pull", "issue"} /\ intakeFaults \in Nat
    BY IntakeAssumption DEF LedgerInv, IntakeTypeOK, BooksAgree, DesksNumbered, At, IntakeId
  <1>2. PICK step \in {"record", "issue", "outbox"}, outcome \in Outcomes :
            /\ desks' = [desks EXCEPT ![t].at = step, ![t].outcome = outcome]
            /\ \/ /\ step = "record" /\ outcome = "filed"
                  /\ made' = [made EXCEPT ![i] = @ + 1] /\ UNCHANGED intakeFaults
               \/ /\ step # "record" /\ outcome = "queued"
                  /\ \/ UNCHANGED <<made, intakeFaults>>
                     \/ IntakeFault /\ made' = [made EXCEPT ![i] = @ + 1]
    BY SMTT(30) DEF Create, Outcomes
  <1>3. /\ desks' \in [Clerk -> Desk \cup {NoDesk}]
        /\ desks'[t].at = step /\ desks'[t].outcome = outcome /\ desks'[t].id = i
        /\ \A u \in Clerk \ {t} : desks'[u] = desks[u]
        /\ desks'[t] # NoDesk
    BY <1>1, <1>2, ClerkGoesOn, ZenonT(40) DEF DeskSteps
  <1>4. UNCHANGED <<taken, outboxed, recordOf, idemOf, keyOf>> BY DEF fileVars
  <1>5. \A j \in IntakeId : made'[j] = made[j] \/ j = i BY <1>1, <1>2
  <1>6. t \in {"post", "drain"} BY DEF Clerk
  <1>7. t = "post" => InHand = {i} /\ Awaited = {keyOf[i]} BY <1>1 DEF InHand, Awaited, On, Filing
  <1>8. t = "drain" => Settled = {} BY <1>1 DEF Settled, On, Noting
  <1>9. t = "drain" => i \in outboxed BY <1>1 DEF LedgerInv, BooksAgree
  <1>10. t = "post" => /\ InHand' = (IF step = "record" THEN {} ELSE {i})
                       /\ Awaited' = Awaited
    BY <1>3, <1>4, <1>7 DEF InHand, Awaited, On, Filing
  <1>11. t = "drain" => Settled' = (IF step = "record" /\ outcome = "filed" THEN {i} ELSE {})
    BY <1>3 DEF Settled, On, Noting
  <1>12. /\ t = "drain" => InHand' = InHand /\ Awaited' = Awaited
         /\ t = "post" => Settled' = Settled
    BY <1>3, <1>4, OtherDesk
  <1>13. InHand \cap outboxed = {} /\ InHand' \subseteq InHand /\ Awaited' = Awaited
    BY <1>6, <1>7, <1>10, <1>12 DEF LedgerInv, BooksAgree
  <1>14. BooksAgree'
    <2>0. DesksNumbered BY DEF LedgerInv, BooksAgree
    <2>1. DesksNumbered' BY <1>1, <1>3, <1>4, <2>0 DEF DesksNumbered
    <2>2. \A u \in Clerk : On(u, {"idem", "end"})' => recordOf'[desks'[u].id] # "none"
      BY <1>3, <1>4 DEF LedgerInv, BooksAgree, On
    <2>3. desks'["drain"] # NoDesk => desks'["drain"].id \in outboxed'
      BY <1>1, <1>3, <1>4, <1>6 DEF LedgerInv, BooksAgree, Clerk
    <2>4. \A j \in IntakeId : j > taken' => made'[j] = 0
      BY <1>1, <1>4, <1>5 DEF LedgerInv, BooksAgree, IntakeTypeOK, IntakeId
    <2> QED BY <1>4, <1>13, <2>1, <2>2, <2>3, <2>4 DEF LedgerInv, BooksAgree
  <1> DEFINE P == (outboxed \ Settled) \cup InHand
  <1>15. i \in P /\ P' = IF step = "record" THEN P \ {i} ELSE P
    BY <1>2, <1>4, <1>6, <1>7, <1>8, <1>9, <1>10, <1>11, <1>12, <1>13
  <1>16. ASSUME NEW k \in IdemKey
         PROVE  Shift(GitHubHas(k), Owed(k), intakeFaults, GitHubHas(k)', Owed(k)', intakeFaults')
    <2> DEFINE has   == GitHubHas(k)
               owed  == Owed(k)
               has2  == GitHubHas(k)'
               owed2 == Owed(k)'
    <2>0. /\ owed2 \subseteq owed
          /\ keyOf[i] = k => i \in owed
          /\ step = "record" => owed2 \subseteq owed \ {i}
      BY <1>1, <1>4, <1>13, <1>15 DEF Owed
    <2>1. UNCHANGED made => has2 = has BY <1>4 DEF GitHubHas
    <2>2. made' = [made EXCEPT ![i] = @ + 1] =>
              /\ keyOf[i] = k => \E x : has2 = has \cup {x}
              /\ keyOf[i] # k => has2 = has
      BY <1>1, <1>4, MakesOne
    <2> HIDE DEF has, owed, has2, owed2
    <2>3. CASE intakeFaults' = intakeFaults /\ has2 = has
      <3>1. Shift(has, owed, intakeFaults, has2, owed2, intakeFaults') BY <2>0, <2>3, ShiftRules, Zenon
      <3> QED BY <3>1 DEF has, owed, has2, owed2
    <2>4. CASE /\ intakeFaults' = intakeFaults /\ step = "record" /\ keyOf[i] = k
               /\ \E x : has2 = has \cup {x}
      <3>1. Shift(has, owed, intakeFaults, has2, owed2, intakeFaults') BY <2>0, <2>4, ShiftRules, Zenon
      <3> QED BY <3>1 DEF has, owed, has2, owed2
    <2>5. CASE intakeFaults' = intakeFaults + 1 /\ \E x : has2 = has \cup {x}
      <3>1. Shift(has, owed, intakeFaults, has2, owed2, intakeFaults') BY <2>0, <2>5, ShiftRules, Zenon
      <3> QED BY <3>1 DEF has, owed, has2, owed2
    <2>6. CASE intakeFaults' = intakeFaults + 1 /\ has2 = has
      <3>1. owed2 \subseteq owed \cup {0, 0} BY <2>0
      <3>2. Shift(has, owed, intakeFaults, has2, owed2, intakeFaults') BY <3>1, <2>6, ShiftRules, Zenon
      <3> QED BY <3>2 DEF has, owed, has2, owed2
    <2>7. \/ UNCHANGED made /\ intakeFaults' = intakeFaults
          \/ /\ made' = [made EXCEPT ![i] = @ + 1] 
             /\ intakeFaults' = intakeFaults + 1 \/ (intakeFaults' = intakeFaults /\ step = "record")
      BY <1>2 DEF IntakeFault
    <2> QED BY <2>1, <2>2, <2>3, <2>4, <2>5, <2>6, <2>7, Zenon
  <1> QED BY <1>14, <1>16 DEF LedgersShift

\* A post begins only when its key is not known; the new number is in no file.
LEMMA PostShifts ==
    ASSUME LedgerInv, NEW key \in IdemKey \cup {NoIdem}, NEW asPull \in BOOLEAN, Post(key, asPull)
    PROVE  BooksAgree' /\ LedgersShift
  <1> DEFINE i == taken + 1
  <1>1. /\ desks["post"] = NoDesk /\ i \in IntakeId /\ taken' = i /\ i \notin outboxed
        /\ 1 .. taken \subseteq 1 .. i
        /\ made \in [IntakeId -> Nat] /\ made[i] = 0
        /\ keyOf' = [keyOf EXCEPT ![i] = key] /\ keyOf \in [IntakeId -> IdemKey \cup {NoIdem}]
        /\ outboxed \subseteq IntakeId \ {i}
    BY IntakeAssumption DEF Post, LedgerInv, IntakeTypeOK, BooksAgree, IntakeId
  <1>2. /\ desks'["post"] = FirstStep(i, asPull) /\ desks'["drain"] = desks["drain"]
        /\ DOMAIN desks' = Clerk
    BY DEF Post, LedgerInv, IntakeTypeOK, Clerk
  <1>3. FirstStep(i, asPull) \in Desk BY <1>1 DEF FirstStep, Desk
  <1>4. /\ FirstStep(i, asPull).at \in {"pull", "issue"} /\ FirstStep(i, asPull).id = i
        /\ FirstStep(i, asPull) # NoDesk
    BY <1>3, IntakeAssumption DEF FirstStep
  <1>5. UNCHANGED <<made, outboxed, recordOf, idemOf, intakeFaults>> BY DEF Post, fileVars
  <1>6. InHand = {} /\ Awaited = {} BY <1>1 DEF InHand, Awaited, On
  <1>7. keyOf'[i] = key /\ \A j \in IntakeId \ {i} : keyOf'[j] = keyOf[j] BY <1>1
  <1>8. InHand' = {i} /\ Awaited' = {key}
    BY <1>2, <1>4, <1>7 DEF InHand, Awaited, On, Filing
  <1>9. Settled' = Settled BY <1>2 DEF Settled, On
  <1>10. BooksAgree'
    <2>0. DesksNumbered BY DEF LedgerInv, BooksAgree
    <2>a. i \in 1 .. taken' BY <1>1 DEF IntakeId
    <2>b. desks["drain"] # NoDesk => desks["drain"].id \in 1 .. taken'
      BY <1>1, <2>0 DEF DesksNumbered, Clerk
    <2>1. DesksNumbered' BY <1>2, <1>4, <2>a, <2>b DEF DesksNumbered, Clerk
    <2>2. \A u \in Clerk : On(u, {"idem", "end"})' => recordOf'[desks'[u].id] # "none"
      BY <1>2, <1>4, <1>5 DEF LedgerInv, BooksAgree, On, Clerk
    <2>3. desks'["drain"] # NoDesk => desks'["drain"].id \in outboxed'
      BY <1>2, <1>5 DEF LedgerInv, BooksAgree
    <2>4. \A j \in IntakeId : j > taken' => made'[j] = 0
      BY <1>1, <1>5 DEF LedgerInv, BooksAgree, IntakeTypeOK, IntakeId
    <2>5. InHand' \cap outboxed' = {} BY <1>1, <1>5, <1>8
    <2>6. \A k \in IdemKey : idemOf'[k] # 0 => recordOf'[idemOf'[k]] # "none"
      BY <1>5 DEF LedgerInv, BooksAgree
    <2> QED BY <2>1, <2>2, <2>3, <2>4, <2>5, <2>6 DEF BooksAgree
  <1>11. ASSUME NEW k \in IdemKey
         PROVE  Shift(GitHubHas(k), Owed(k), intakeFaults, GitHubHas(k)', Owed(k)', intakeFaults')
    <2> DEFINE has   == GitHubHas(k)
               owed  == Owed(k)
               has2  == GitHubHas(k)'
               owed2 == Owed(k)'
    <2>1. has2 = has
      <3>1. {i} \X (1 .. made[i]) = {} BY <1>1
      <3>2. \A p : p \in has2 <=> \E j \in IntakeId : keyOf'[j] = k /\ p \in {j} \X (1 .. made[j])
        BY <1>5 DEF GitHubHas
      <3>3. \A p : p \in has <=> \E j \in IntakeId : keyOf[j] = k /\ p \in {j} \X (1 .. made[j])
        BY DEF GitHubHas
      <3> HIDE DEF has, has2
      <3>4. \A p : p \in has2 <=> p \in has BY <1>7, <3>1, <3>2, <3>3
      <3> QED BY <3>4
    <2>2. k # key => owed2 \subseteq owed
      BY <1>1, <1>5, <1>6, <1>7, <1>8, <1>9 DEF Owed
    <2>3. k = key => 0 \in owed /\ owed2 \subseteq (owed \ {0}) \cup {i}
      <3>1. k = key => idemOf[k] = 0
        <4>1. idemOf[k] # 0 => recordOf[idemOf[k]] \in {"filed", "queued"}
          <5>1. idemOf[k] \in 0 .. taken /\ taken \in 0 .. MaxSubmissions
            BY DEF LedgerInv, IntakeTypeOK
          <5>2. idemOf[k] # 0 => idemOf[k] \in IntakeId /\ recordOf[idemOf[k]] # "none"
            BY <5>1, IntakeAssumption DEF LedgerInv, BooksAgree, IntakeId
          <5> QED BY <5>2 DEF LedgerInv, IntakeTypeOK
        <4> QED BY <4>1, IntakeAssumption DEF Post, Known
      <3>2. 0 \notin IntakeId BY DEF IntakeId
      <3> QED BY <1>1, <1>5, <1>6, <1>7, <1>8, <1>9, <3>1, <3>2 DEF Owed
    <2>4. intakeFaults' = intakeFaults BY <1>5
    <2> HIDE DEF has, owed, has2, owed2
    <2>5. CASE k = key
      <3>1. Shift(has, owed, intakeFaults, has2, owed2, intakeFaults')
        BY <2>1, <2>3, <2>4, <2>5, ShiftRules, Zenon
      <3> QED BY <3>1 DEF has, owed, has2, owed2
    <2>6. CASE k # key
      <3>1. Shift(has, owed, intakeFaults, has2, owed2, intakeFaults')
        BY <2>1, <2>2, <2>4, <2>6, ShiftRules, Zenon
      <3> QED BY <3>1 DEF has, owed, has2, owed2
    <2> QED BY <2>5, <2>6
  <1> QED BY <1>10, <1>11 DEF LedgersShift

\* A desk writes a file: what it owed is in the file now, or noted.
LEMMA WriteShifts ==
    ASSUME LedgerInv, NEW t \in Clerk, WriteEntry(t) \/ WriteRecord(t) \/ WriteIdem(t)
    PROVE  BooksAgree' /\ LedgersShift
  <1> DEFINE d == desks[t]
             i == d.id
  <1>1. /\ desks \in [Clerk -> Desk \cup {NoDesk}] /\ d # NoDesk /\ d \in Desk
        /\ i \in 1 .. taken /\ i \in IntakeId /\ d.outcome \in Outcomes
        /\ d.at \in {"outbox", "record", "idem"} /\ t \in {"post", "drain"}
        /\ d.at = "outbox" => d.outcome = "queued"
        /\ InHand \cap outboxed = {} /\ (t = "drain" => i \in outboxed)
    BY DEF LedgerInv, IntakeInv, ClerkIsRight, IntakeTypeOK, BooksAgree, DesksNumbered, Desk,
       Outcomes, WriteEntry, WriteRecord, WriteIdem, At, Clerk
  <1>2. PICK step \in {"record", "idem", "end"} :
            /\ desks' = [desks EXCEPT ![t].at = step]
            /\ \/ step = "record" /\ WriteEntry(t)
               \/ step = "idem" /\ WriteRecord(t)
               \/ step = "end" /\ WriteIdem(t)
    BY DEF WriteEntry, WriteRecord, WriteIdem
  <1>3. /\ desks' \in [Clerk -> Desk \cup {NoDesk}]
        /\ desks'[t].at = step /\ desks'[t].outcome = d.outcome /\ desks'[t].id = i
        /\ \A u \in Clerk \ {t} : desks'[u] = desks[u]
        /\ desks'[t] # NoDesk
    BY <1>1, <1>2, ClerkGoesOn, ZenonT(40) DEF DeskSteps
  <1>4. UNCHANGED <<made, keyOf, intakeFaults, taken>>
    BY DEF WriteEntry, WriteRecord, WriteIdem
  <1>5. /\ step = "record" => d.at = "outbox" /\ outboxed' = outboxed \cup {i}
        /\ step # "record" => d.at \in {"record", "idem"} /\ outboxed' = outboxed
    BY <1>2 DEF WriteEntry, WriteRecord, WriteIdem, At
  <1>6. /\ t = "drain" => InHand' = InHand /\ Awaited' = Awaited
        /\ t = "post" => Settled' = Settled
    BY <1>3, <1>4, OtherDesk
  <1>7. t = "post" => InHand = (IF step = "record" THEN {i} ELSE {}) /\ InHand' = {}
    BY <1>1, <1>3, <1>5 DEF InHand, On, Filing
  <1>8. t = "drain" => Settled' = Settled
    BY <1>1, <1>3, <1>5 DEF Settled, On, Noting
  <1>9. Settled \subseteq outboxed BY DEF Settled, On, LedgerInv, BooksAgree
  <1>10. (outboxed' \ Settled') \cup InHand' \subseteq (outboxed \ Settled) \cup InHand
    BY <1>1, <1>5, <1>6, <1>7, <1>8
  <1>11. InHand' \cap outboxed' = {} BY <1>1, <1>5, <1>6, <1>7
  <1>12. \A j \in IntakeId : recordOf[j] # "none" => recordOf'[j] # "none"
    BY <1>1, <1>2 DEF WriteEntry, WriteRecord, WriteIdem, LedgerInv, IntakeTypeOK, Outcomes
  <1>13. step \in {"idem", "end"} => recordOf'[i] # "none"
    <2>1. CASE step = "idem"
      BY <1>1, <1>2, <2>1 DEF WriteEntry, WriteRecord, WriteIdem, LedgerInv, IntakeTypeOK, Outcomes
    <2>2. CASE step = "end"
      BY <1>1, <1>2, <2>2 DEF WriteEntry, WriteRecord, WriteIdem, LedgerInv, BooksAgree, On, At
    <2> QED BY <2>1, <2>2
  <1>14. ASSUME NEW k \in IdemKey
         PROVE  /\ idemOf'[k] # 0 => recordOf'[idemOf'[k]] # "none"
                /\ idemOf'[k] = 0 => idemOf[k] = 0
                /\ idemOf'[k] = 0 /\ step = "end" => keyOf[i] # k
    <2>1. idemOf \in [IdemKey -> 0 .. taken] /\ taken \in 0 .. MaxSubmissions
      BY DEF LedgerInv, IntakeTypeOK
    <2>2. idemOf[k] = 0 \/ (idemOf[k] \in IntakeId /\ recordOf[idemOf[k]] # "none")
      BY <2>1, IntakeAssumption DEF LedgerInv, BooksAgree, IntakeId
    <2>3. CASE step # "end"
      <3>1. idemOf' = idemOf BY <1>2, <2>3 DEF WriteEntry, WriteRecord, WriteIdem
      <3> QED BY <1>12, <2>2, <2>3, <3>1
    <2>4. CASE step = "end"
      <3>1. idemOf'[k] = IF keyOf[i] = k THEN i ELSE idemOf[k]
        BY <1>2, <2>1, <2>4, IntakeAssumption DEF WriteEntry, WriteRecord, WriteIdem
      <3> QED BY <1>1, <1>12, <1>13, <2>2, <2>4, <3>1
    <2> QED BY <2>3, <2>4
  <1>15. t = "post" => Awaited = {keyOf[i]} /\ Awaited' = (IF step = "end" THEN {} ELSE {keyOf[i]})
    BY <1>1, <1>3, <1>4, <1>5 DEF Awaited, On, Filing
  <1>16. \A k \in IdemKey : idemOf'[k] = 0 /\ k \notin Awaited' => idemOf[k] = 0 /\ k \notin Awaited
    BY <1>1, <1>6, <1>14, <1>15
  <1>17. LedgersShift BY <1>4, <1>10, <1>16, QuietLedgers
  <1>18. BooksAgree'
    <2>0. DesksNumbered BY DEF LedgerInv, BooksAgree
    <2>1. DesksNumbered' BY <1>1, <1>3, <1>4, <2>0 DEF DesksNumbered
    <2>2. ASSUME NEW u \in Clerk, On(u, {"idem", "end"})' PROVE recordOf'[desks'[u].id] # "none"
      <3>1. CASE u = t BY <1>3, <1>13, <2>2, <3>1 DEF On
      <3>2. CASE u # t
        <4>1. desks'[u] = desks[u] /\ desks[u] \in Desk /\ desks[u].id \in IntakeId
          BY <1>1, <1>3, <2>2, <3>2 DEF On, Desk
        <4> QED BY <1>12, <2>2, <4>1 DEF On, LedgerInv, BooksAgree
      <3> QED BY <3>1, <3>2
    <2>3. desks'["drain"] # NoDesk => desks'["drain"].id \in outboxed'
      BY <1>1, <1>3, <1>5 DEF LedgerInv, BooksAgree, Clerk
    <2>4. \A j \in IntakeId : j > taken' => made'[j] = 0
      BY <1>4 DEF LedgerInv, BooksAgree
    <2> QED BY <1>11, <1>14, <2>1, <2>2, <2>3, <2>4 DEF BooksAgree
  <1> QED BY <1>17, <1>18

\* A crash leaves the submission and its key as they were filed, at worst: the
\* entry that stays is filed again, and a key that is forgotten once more.
LEMMA CrashShifts ==
    ASSUME LedgerInv, NEW t \in Clerk, CrashIntake(t)
    PROVE  BooksAgree' /\ LedgersShift
  <1> DEFINE d == desks[t]
             i == d.id
  <1>1. /\ desks' = [desks EXCEPT ![t] = NoDesk] /\ d # NoDesk /\ t \in {"post", "drain"}
        /\ desks \in [Clerk -> Desk \cup {NoDesk}] /\ d \in Desk /\ i \in IntakeId
        /\ intakeFaults' = intakeFaults + 1
        /\ UNCHANGED <<taken, keyOf, made, recordOf>>
    BY DEF CrashIntake, IntakeFault, Clerk, LedgerInv, IntakeTypeOK, Desk
  <1>2. /\ outboxed' = outboxed \/ (At(t, "outbox") /\ outboxed' = outboxed \ {i})
        /\ idemOf' = idemOf \/ idemOf' = [idemOf EXCEPT ![keyOf[i]] = 0]
    BY DEF CrashIntake
  <1>3. desks'[t] = NoDesk /\ \A u \in Clerk \ {t} : desks'[u] = desks[u] BY <1>1
  <1>4. /\ t = "drain" => InHand' = InHand /\ Awaited' = Awaited
        /\ t = "post" => Settled' = Settled
    BY <1>1, <1>3, OtherDesk
  <1>5. (t = "post" => InHand' = {}) /\ (t = "drain" => Settled' = {} /\ Settled \subseteq {i})
    BY <1>3 DEF InHand, Settled, On
  <1>6. \A k \in IdemKey : idemOf'[k] = idemOf[k] \/ idemOf'[k] = 0
    BY <1>2 DEF LedgerInv, IntakeTypeOK
  <1>7. BooksAgree'
    <2>0. DesksNumbered BY DEF LedgerInv, BooksAgree
    <2>1. DesksNumbered' BY <1>1, <1>3, <2>0 DEF DesksNumbered
    <2>2. ASSUME NEW u \in Clerk, On(u, {"idem", "end"})' PROVE recordOf'[desks'[u].id] # "none"
      <3>1. u # t /\ desks'[u] = desks[u] BY <1>3, <2>2 DEF On
      <3> QED BY <1>1, <2>2, <3>1 DEF On, LedgerInv, BooksAgree
    <2>3. ASSUME desks'["drain"] # NoDesk PROVE desks'["drain"].id \in outboxed'
      <3>1. t = "post" /\ desks'["drain"] = desks["drain"] BY <1>1, <1>3, <2>3 DEF Clerk
      <3>2. desks["drain"].id \in outboxed BY <2>3, <3>1 DEF LedgerInv, BooksAgree
      <3>3. At(t, "outbox") => InHand = {i} BY <3>1 DEF At, InHand, On, Filing
      <3>4. At(t, "outbox") => i \notin outboxed BY <3>3 DEF LedgerInv, BooksAgree
      <3> QED BY <1>2, <3>1, <3>2, <3>4
    <2>4. \A j \in IntakeId : j > taken' => made'[j] = 0
      BY <1>1 DEF LedgerInv, BooksAgree
    <2>5. InHand' \cap outboxed' = {}
      BY <1>1, <1>2, <1>4, <1>5 DEF LedgerInv, BooksAgree
    <2>6. \A k \in IdemKey : idemOf'[k] # 0 => recordOf'[idemOf'[k]] # "none"
      BY <1>1, <1>6 DEF LedgerInv, BooksAgree
    <2> QED BY <2>1, <2>2, <2>3, <2>4, <2>5, <2>6 DEF BooksAgree
  <1>8. ASSUME NEW k \in IdemKey
        PROVE  Shift(GitHubHas(k), Owed(k), intakeFaults, GitHubHas(k)', Owed(k)', intakeFaults')
    <2> DEFINE has   == GitHubHas(k)
               owed  == Owed(k)
               has2  == GitHubHas(k)'
               owed2 == Owed(k)'
    <2>1. has2 = has BY <1>1 DEF GitHubHas
    <2>2. (outboxed' \ Settled') \cup InHand' \subseteq (outboxed \ Settled) \cup InHand \cup {i}
      BY <1>1, <1>2, <1>4, <1>5
    <2>3. owed2 \subseteq owed \cup {i, 0} BY <1>1, <2>2 DEF Owed
    <2> HIDE DEF has, owed, has2, owed2
    <2>4. Shift(has, owed, intakeFaults, has2, owed2, intakeFaults')
      BY <1>1, <2>1, <2>3, ShiftRules, Zenon
    <2> QED BY <2>4 DEF has, owed, has2, owed2
  <1> QED BY <1>7, <1>8 DEF LedgersShift

\* The post answers, the drain begins and ends, and neither makes anything.
LEMMA PlainShifts ==
    ASSUME LedgerInv, \/ \E k \in IdemKey : AnswerDuplicate(k)
                      \/ \E i \in outboxed : TakeFromOutbox(i)
                      \/ Answer
                      \/ Unlink
                      \/ UNCHANGED intakeVars
    PROVE  BooksAgree' /\ LedgersShift
  <1>1. UNCHANGED <<made, keyOf, intakeFaults, taken, recordOf, idemOf>>
    BY DEF AnswerDuplicate, TakeFromOutbox, Answer, Unlink, intakeVars, fileVars
  <1>2. DesksNumbered /\ desks \in [Clerk -> Desk \cup {NoDesk}] /\ Clerk = {"post", "drain"}
    BY DEF LedgerInv, BooksAgree, IntakeTypeOK, Clerk
  <1>3. /\ \A u \in Clerk : \/ desks'[u] = desks[u]
                           \/ desks'[u] = NoDesk
                           \/ /\ u = "drain" /\ desks'[u].at \in {"pull", "issue"}
                              /\ desks'[u].id \in outboxed
        /\ outboxed' = outboxed \/ (Unlink /\ outboxed' = outboxed \ Drained)
    BY <1>2 DEF AnswerDuplicate, TakeFromOutbox, FirstStep, Answer, Unlink, intakeVars, fileVars
  <1>4. InHand' \subseteq InHand BY <1>1, <1>2, <1>3 DEF InHand, On, Filing
  <1>5. Awaited' = Awaited
    <2>1. Answer \/ desks'["post"] = desks["post"]
      BY <1>2 DEF AnswerDuplicate, TakeFromOutbox, Unlink, intakeVars
    <2>2. Answer => Awaited = {} /\ Awaited' = {} BY <1>2 DEF Answer, At, Awaited, On, Filing
    <2>3. desks'["post"] = desks["post"] => Awaited' = Awaited BY <1>1 DEF Awaited, On
    <2> QED BY <2>1, <2>2, <2>3
  <1>6. outboxed' \ Settled' \subseteq outboxed \ Settled
    <2>1. CASE Unlink
      <3>1. Settled = Drained /\ outboxed' = outboxed \ Drained
        BY <2>1 DEF Unlink, Settled, Drained, At, On, Noting
      <3> QED BY <3>1
    <2>2. CASE ~Unlink /\ desks'["drain"] = desks["drain"]
      BY <1>3, <2>2 DEF Settled, On
    <2>3. CASE \E i \in outboxed : TakeFromOutbox(i)
      <3>1. Settled = {} BY <2>3 DEF TakeFromOutbox, Settled, On
      <3>2. outboxed' = outboxed BY <2>3 DEF TakeFromOutbox, fileVars
      <3> QED BY <3>1, <3>2
    <2> QED BY <1>2, <2>1, <2>2, <2>3 DEF AnswerDuplicate, Answer, intakeVars
  <1>7. LedgersShift BY <1>1, <1>4, <1>5, <1>6, QuietLedgers
  <1>8. BooksAgree'
    <2>1. DesksNumbered'
      <3>1. outboxed \subseteq 1 .. taken BY DEF LedgerInv, IntakeTypeOK
      <3> QED BY <1>1, <1>2, <1>3, <3>1 DEF DesksNumbered
    <2>2. \A u \in Clerk : On(u, {"idem", "end"})' => recordOf'[desks'[u].id] # "none"
      BY <1>1, <1>2, <1>3 DEF On, LedgerInv, BooksAgree
    <2>3. ASSUME desks'["drain"] # NoDesk PROVE desks'["drain"].id \in outboxed'
      <3>1. ~Unlink BY <1>2, <2>3 DEF Unlink
      <3> QED BY <1>2, <1>3, <2>3, <3>1 DEF LedgerInv, BooksAgree
    <2>4. outboxed' \subseteq outboxed BY <1>3
    <2>5. InHand' \cap outboxed' = {} BY <1>4, <2>4 DEF LedgerInv, BooksAgree
    <2>6. \A j \in IntakeId : j > taken' => made'[j] = 0
      BY <1>1 DEF LedgerInv, BooksAgree
    <2>7. \A k \in IdemKey : idemOf'[k] # 0 => recordOf'[idemOf'[k]] # "none"
      BY <1>1 DEF LedgerInv, BooksAgree
    <2> QED BY <2>1, <2>2, <2>3, <2>5, <2>6, <2>7 DEF BooksAgree
  <1> QED BY <1>7, <1>8

\* The ledgers balance before the first submission: each key owes one.
LEMMA LedgerInitially == IntakeInit => LedgerInv
  <1> SUFFICES ASSUME IntakeInit PROVE LedgerInv
    OBVIOUS
  <1>1. IntakeInv BY IntakeInitially
  <1>2. IntakeTypeOK BY IntakeAssumption DEF IntakeInit, IntakeTypeOK
  <1>3. Settled = {} /\ InHand = {} /\ Awaited = {} BY DEF IntakeInit, Settled, InHand, Awaited, On, Clerk
  <1>4. BooksAgree BY <1>3 DEF IntakeInit, BooksAgree, DesksNumbered, On, Clerk
  <1>5. ASSUME NEW k \in IdemKey PROVE Balanced(k)
    <2>1. \A j \in IntakeId : 1 .. made[j] = {} BY DEF IntakeInit
    <2>2. GitHubHas(k) = {} BY <2>1 DEF GitHubHas
    <2>3. Owed(k) = {0} BY <1>3 DEF Owed, IntakeInit
    <2>4. intakeFaults = 0 BY DEF IntakeInit
    <2>5. IsFiniteSet({}) /\ Cardinality({}) = 0 BY FS_EmptySet
    <2>6. IsFiniteSet({0}) /\ Cardinality({0}) = 1 BY FS_Singleton
    <2> QED BY <2>2, <2>3, <2>4, <2>5, <2>6 DEF Balanced
  <1> QED BY <1>1, <1>2, <1>4, <1>5 DEF LedgerInv

\* Every step keeps the ledgers balanced.
LEMMA LedgerSteps == LedgerInv /\ [IntakeNext]_intakeVars => LedgerInv'
  <1> SUFFICES ASSUME LedgerInv, [IntakeNext]_intakeVars PROVE LedgerInv'
    OBVIOUS
  <1>1. IntakeInv' BY IntakeSteps DEF LedgerInv
  <1>2. Numbered'
    <2>1. Numbered /\ IntakeTyped /\ DesksNumbered
      BY DEF LedgerInv, IntakeTypeOK, Numbered, IntakeInv, BooksAgree
    <2> QED BY <2>1, NumberSteps
  <1>3. IntakeTypeOK' BY <1>1, <1>2 DEF IntakeInv, IntakeTyped, Numbered, IntakeTypeOK
  <1>4. BooksAgree' /\ LedgersShift
    <2>1. ASSUME NEW t \in Clerk, CreatePull(t) PROVE BooksAgree' /\ LedgersShift
      BY <2>1, CreateShifts DEF CreatePull
    <2>2. ASSUME NEW t \in Clerk, CreateIssue(t) PROVE BooksAgree' /\ LedgersShift
      BY <2>2, CreateShifts DEF CreateIssue
    <2> QED BY <2>1, <2>2, PostShifts, WriteShifts, CrashShifts, PlainShifts DEF IntakeNext
  <1>5. ASSUME NEW k \in IdemKey PROVE Balanced(k)'
    <2>1. intakeFaults \in Nat BY IntakeAssumption DEF LedgerInv, IntakeTypeOK
    <2>2. Balanced(k) BY DEF LedgerInv
    <2>3. Shift(GitHubHas(k), Owed(k), intakeFaults, GitHubHas(k)', Owed(k)', intakeFaults')
      BY <1>4 DEF LedgersShift
    <2> QED BY <2>1, <2>2, <2>3, ShiftBalances DEF Balanced
  <1> QED BY <1>1, <1>3, <1>4, <1>5 DEF LedgerInv

\* Submissions, desks and files keep their types.
THEOREM IntakeTypes == IntakeSpec => []IntakeTypeOK
  <1>1. LedgerInv => IntakeTypeOK BY DEF LedgerInv
  <1> QED BY <1>1, LedgerInitially, LedgerSteps, PTL DEF IntakeSpec

\* For every number of submissions, keys, crashes and lost answers: a submission
\* that is posted again and again under its key is made once on GitHub, and at
\* most twice more for each crash or lost answer (process_intake, _find_idempotent,
\* drain_intake_outbox).
THEOREM SubmissionsMadeOnce == IntakeSpec => []MadeOnce
  <1>1. LedgerInv => MadeOnce
    <2> SUFFICES ASSUME LedgerInv, NEW k \in IdemKey
                 PROVE  Cardinality(GitHubHas(k)) <= 1 + 2 * intakeFaults
      BY DEF MadeOnce
    <2>1. /\ Cardinality(GitHubHas(k)) \in Nat /\ Cardinality(Owed(k)) \in Nat
          /\ Cardinality(GitHubHas(k)) + Cardinality(Owed(k)) <= 1 + 2 * intakeFaults
          /\ intakeFaults \in Nat
      BY IntakeAssumption, FS_CardinalityType DEF LedgerInv, Balanced, IntakeTypeOK
    <2> QED BY <2>1
  <1> QED BY <1>1, LedgerInitially, LedgerSteps, PTL DEF IntakeSpec

-----------------------------------------------------------------------------
(* The line of a webhook.                                                  *)

\* f counts the bytes of a line, token by token, with a space after each.
CountOf(f, s) == f = [i \in 0 .. Len(s) |-> IF i = 0 THEN 0 ELSE f[i - 1] + s[i].n + 1]

\* The tokens of the line take b bytes with a space after each.
Takes(s, b) ==
    /\ s \in Seq(Word) /\ b \in Nat
    /\ \E f : CountOf(f, s)
    /\ \A f : CountOf(f, s) => f[Len(s)] = b

\* f holds what the parser has read after each token from the ref on.
ReadOf(f, s, at, r) == f = [i \in 0 .. Len(s) |-> IF i <= at THEN r ELSE ReadToken(f[i - 1], s[i])]

\* From r after the token at, the parser comes to q at the end of the line.
Reads(s, at, r, q) ==
    /\ s \in Seq(Word) /\ at \in Nat /\ at <= Len(s)
    /\ \E f : ReadOf(f, s, at, r)
    /\ \A f : ReadOf(f, s, at, r) => f[Len(s)] = q

\* A token at the end adds its bytes and a space.
LEMMA TakesMore ==
    ASSUME NEW s, NEW b, Takes(s, b), NEW t \in Word
    PROVE  Takes(Append(s, t), b + t.n + 1)
  <1> DEFINE L == Len(s)
             long == Append(s, t)
             Cut0(f) == [i \in 0 .. L |-> f[i]]
  <1>0. s \in Seq(Word) /\ L \in Nat /\ t.n \in Nat /\ b \in Nat BY DEF Takes, Word
  <1>1. /\ long \in Seq(Word) /\ Len(long) = L + 1 /\ long[L + 1] = t
        /\ \A i \in 1 .. L : long[i] = s[i]
    BY <1>0
  <1> HIDE DEF long, L
  <1>2. ASSUME NEW f, CountOf(f, long) PROVE f[L + 1] = b + t.n + 1
    <2>1. CountOf(Cut0(f), s)
      <3>1. f = [i \in 0 .. L + 1 |-> IF i = 0 THEN 0 ELSE f[i - 1] + long[i].n + 1]
        BY <1>1, <1>2 DEF CountOf
      <3>2. ASSUME NEW i \in 0 .. L
            PROVE  Cut0(f)[i] = IF i = 0 THEN 0 ELSE Cut0(f)[i - 1] + s[i].n + 1
        <4>1. i \in 0 .. L + 1 BY <1>0
        <4>2. f[i] = IF i = 0 THEN 0 ELSE f[i - 1] + long[i].n + 1 BY <3>1, <4>1
        <4>3. i # 0 => i - 1 \in 0 .. L /\ i \in 1 .. L BY <1>0
        <4> QED BY <1>1, <4>2, <4>3
      <3> QED BY <3>2 DEF CountOf, L
    <2>2. Cut0(f)[L] = b BY <2>1 DEF Takes, L
    <2>3. f[L] = b BY <1>0, <2>2
    <2>4. f = [i \in 0 .. L + 1 |-> IF i = 0 THEN 0 ELSE f[i - 1] + long[i].n + 1]
      BY <1>1, <1>2 DEF CountOf
    <2>5. ASSUME NEW k, k = L + 1 PROVE f[k] = b + t.n + 1
      <3>1. k \in 0 .. L + 1 /\ k # 0 /\ k - 1 = L BY <1>0, <2>5
      <3>2. f[k] = IF k = 0 THEN 0 ELSE f[k - 1] + long[k].n + 1 BY <2>4, <3>1
      <3> QED BY <1>1, <2>3, <2>5, <3>1, <3>2
    <2> QED BY <2>5
  <1>3. \E f : CountOf(f, long)
    <2>1. PICK f : CountOf(f, s) BY DEF Takes
    <2> DEFINE g == [i \in 0 .. L + 1 |-> IF i = L + 1 THEN f[L] + t.n + 1 ELSE f[i]]
    <2>2. f = [i \in 0 .. L |-> IF i = 0 THEN 0 ELSE f[i - 1] + s[i].n + 1]
      BY <2>1 DEF CountOf, L
    <2>3. ASSUME NEW i \in 0 .. L + 1
          PROVE  g[i] = IF i = 0 THEN 0 ELSE g[i - 1] + long[i].n + 1
      <3>1. CASE i = L + 1
        <4>1. i - 1 = L /\ L \in 0 .. L + 1 /\ L # L + 1 /\ i # 0 BY <1>0, <3>1
        <4>2. g[i] = f[L] + t.n + 1 /\ g[L] = f[L] BY <3>1, <4>1
        <4> QED BY <1>1, <3>1, <4>1, <4>2
      <3>2. CASE i # L + 1
        <4>1. i \in 0 .. L BY <1>0, <3>2
        <4>2. f[i] = IF i = 0 THEN 0 ELSE f[i - 1] + s[i].n + 1 BY <2>2, <4>1
        <4>3. i # 0 => i - 1 \in 0 .. L + 1 /\ i - 1 # L + 1 /\ i \in 1 .. L BY <1>0, <4>1
        <4> QED BY <1>1, <3>2, <4>2, <4>3
      <3> QED BY <3>1, <3>2
    <2>4. g = [i \in 0 .. L + 1 |-> IF i = 0 THEN 0 ELSE g[i - 1] + long[i].n + 1]
      BY <2>3
    <2> HIDE DEF g
    <2>5. CountOf(g, long) BY <1>1, <2>4 DEF CountOf
    <2> QED BY <2>5
  <1>4. b + t.n + 1 \in Nat BY <1>0
  <1> QED BY <1>1, <1>2, <1>3, <1>4 DEF Takes, long

\* The empty line takes nothing.
LEMMA TakesNone == Takes(<< >>, 0)
  <1>1. << >> \in Seq(Word) /\ Len(<< >>) = 0 /\ 0 .. 0 = {0} /\ 0 \in Nat OBVIOUS
  <1>2. CountOf([i \in {0} |-> 0], << >>) BY <1>1 DEF CountOf
  <1>3. ASSUME NEW f, CountOf(f, << >>) PROVE f[0] = 0 BY <1>1, <1>3 DEF CountOf
  <1> QED BY <1>1, <1>2, <1>3 DEF Takes

\* There is no space after the last token.
LEMMA BytesTaken ==
    ASSUME NEW s, NEW b, Takes(s, b)
    PROVE  Bytes(s) = b - 1
  <1> DEFINE f == CHOOSE h : CountOf(h, s)
  <1>1. CountOf(f, s) BY DEF Takes
  <1>2. f[Len(s)] = b
    <2> HIDE DEF f
    <2> QED BY <1>1 DEF Takes
  <1>3. Bytes(s) = f[Len(s)] - 1 BY DEF Bytes, CountOf
  <1> QED BY <1>2, <1>3

\* A token at the end is read after the others.
LEMMA ReadsMore ==
    ASSUME NEW s, NEW at, NEW r, NEW q, Reads(s, at, r, q), NEW t \in Word
    PROVE  Reads(Append(s, t), at, r, ReadToken(q, t))
  <1> DEFINE L == Len(s)
             long == Append(s, t)
             Cut0(f) == [i \in 0 .. L |-> f[i]]
  <1>0. s \in Seq(Word) /\ L \in Nat /\ at \in Nat /\ at <= L BY DEF Reads
  <1>1. /\ long \in Seq(Word) /\ Len(long) = L + 1 /\ long[L + 1] = t
        /\ \A i \in 1 .. L : long[i] = s[i]
    BY <1>0
  <1> HIDE DEF long, L
  <1>2. ASSUME NEW f, ReadOf(f, long, at, r) PROVE f[L + 1] = ReadToken(q, t)
    <2>0. f = [i \in 0 .. L + 1 |-> IF i <= at THEN r ELSE ReadToken(f[i - 1], long[i])]
      BY <1>1, <1>2 DEF ReadOf
    <2>1. ReadOf(Cut0(f), s, at, r)
      <3>2. ASSUME NEW i \in 0 .. L
            PROVE  Cut0(f)[i] = IF i <= at THEN r ELSE ReadToken(Cut0(f)[i - 1], s[i])
        <4>1. i \in 0 .. L + 1 BY <1>0
        <4>2. f[i] = IF i <= at THEN r ELSE ReadToken(f[i - 1], long[i]) BY <2>0, <4>1
        <4>3. ~(i <= at) => i - 1 \in 0 .. L /\ i \in 1 .. L BY <1>0
        <4> QED BY <1>1, <4>2, <4>3
      <3> QED BY <3>2 DEF ReadOf, L
    <2>2. Cut0(f)[L] = q BY <2>1 DEF Reads, L
    <2>3. f[L] = q BY <1>0, <2>2
    <2>4. ASSUME NEW k, k = L + 1 PROVE f[k] = ReadToken(q, t)
      <3>1. k \in 0 .. L + 1 /\ ~(k <= at) /\ k - 1 = L BY <1>0, <2>4
      <3>2. f[k] = IF k <= at THEN r ELSE ReadToken(f[k - 1], long[k]) BY <2>0, <3>1
      <3>3. f[k] = ReadToken(f[k - 1], long[k]) BY <3>1, <3>2
      <3> QED BY <1>1, <2>3, <2>4, <3>1, <3>3
    <2> QED BY <2>4
  <1>3. \E f : ReadOf(f, long, at, r)
    <2>1. PICK f : ReadOf(f, s, at, r) BY DEF Reads
    <2> DEFINE g == [i \in 0 .. L + 1 |-> IF i = L + 1 THEN ReadToken(f[L], t) ELSE f[i]]
    <2>2. f = [i \in 0 .. L |-> IF i <= at THEN r ELSE ReadToken(f[i - 1], s[i])]
      BY <2>1 DEF ReadOf, L
    <2>3. ASSUME NEW i \in 0 .. L + 1
          PROVE  g[i] = IF i <= at THEN r ELSE ReadToken(g[i - 1], long[i])
      <3>1. CASE i = L + 1
        <4>1. i - 1 = L /\ L \in 0 .. L + 1 /\ L # L + 1 /\ ~(i <= at) BY <1>0, <3>1
        <4>2. g[i] = ReadToken(f[L], t) /\ g[L] = f[L] BY <3>1, <4>1
        <4> QED BY <1>1, <3>1, <4>1, <4>2
      <3>2. CASE i # L + 1
        <4>1. i \in 0 .. L BY <1>0, <3>2
        <4>2. f[i] = IF i <= at THEN r ELSE ReadToken(f[i - 1], s[i]) BY <2>2, <4>1
        <4>3. ~(i <= at) => i - 1 \in 0 .. L + 1 /\ i - 1 # L + 1 /\ i \in 1 .. L BY <1>0, <4>1
        <4> QED BY <1>1, <3>2, <4>2, <4>3
      <3> QED BY <3>1, <3>2
    <2>4. g = [i \in 0 .. L + 1 |-> IF i <= at THEN r ELSE ReadToken(g[i - 1], long[i])]
      BY <2>3
    <2> HIDE DEF g
    <2>5. ReadOf(g, long, at, r) BY <1>1, <2>4 DEF ReadOf
    <2> QED BY <2>5
  <1>4. at <= Len(long) BY <1>0, <1>1
  <1>5. Len(long) = L + 1 BY <1>1
  <1>6. \A f : ReadOf(f, long, at, r) => f[Len(long)] = ReadToken(q, t) BY <1>2, <1>5
  <1> QED BY <1>0, <1>1, <1>3, <1>4, <1>6 DEF Reads, long

\* A line that ends with the ref leaves the parser where it starts.
LEMMA ReadsNone ==
    ASSUME NEW s \in Seq(Word), NEW r
    PROVE  Reads(s, Len(s), r, r)
  <1> DEFINE L == Len(s)
             f == [i \in 0 .. L |-> r]
  <1>1. L \in Nat /\ \A i \in 0 .. L : i <= L OBVIOUS
  <1>2. ReadOf(f, s, L, r) BY <1>1 DEF ReadOf
  <1>3. ASSUME NEW g, ReadOf(g, s, L, r) PROVE g[L] = r BY <1>1, <1>3 DEF ReadOf
  <1> QED BY <1>1, <1>2, <1>3 DEF Reads

\* The parser starts with the two tokens before it, and nothing else.
StartsAt(line, at) ==
    [task |-> line[at - 1], ref |-> line[at], action |-> NoToken, url |-> NoToken,
     fixes |-> NoToken, head |-> NoToken, inTitle |-> FALSE]

\* What the parser reads from a line is what it comes to at its end.
LEMMA ParseReads ==
    ASSUME NEW s, NEW at, at = IF IsFull(s) THEN 4 ELSE 3,
           NEW q, Reads(s, at, StartsAt(s, at), q)
    PROVE  Parse(s) = q
  <1> DEFINE f == CHOOSE h : ReadOf(h, s, at, StartsAt(s, at))
  <1>1. ReadOf(f, s, at, StartsAt(s, at)) BY DEF Reads
  <1>2. f[Len(s)] = q
    <2> HIDE DEF f
    <2> QED BY <1>1 DEF Reads
  <1>3. Parse(s) = f[Len(s)]
    <2>1. Parse(s) = (CHOOSE h : h = [i \in 0 .. Len(s) |->
                         IF i <= at THEN StartsAt(s, at) ELSE ReadToken(h[i - 1], s[i])])[Len(s)]
      BY Zenon DEF Parse, StartsAt
    <2> QED BY <2>1 DEF ReadOf
  <1> QED BY <1>2, <1>3

\* Neither the first tokens nor the kind of a line change when a token is added.
LEMMA StartStays ==
    ASSUME NEW s \in Seq(Word), NEW t \in Word, NEW at \in 2 .. Len(s)
    PROVE  /\ StartsAt(Append(s, t), at) = StartsAt(s, at)
           /\ IsFull(Append(s, t)) <=> IsFull(s)
  <1>1. /\ at - 1 \in 1 .. Len(s) /\ at \in 1 .. Len(s) /\ 2 \in 1 .. Len(s)
    OBVIOUS
  <1>2. \A i \in 1 .. Len(s) : Append(s, t)[i] = s[i] OBVIOUS
  <1>3. Append(s, t)[at - 1] = s[at - 1] /\ Append(s, t)[at] = s[at] /\ Append(s, t)[2] = s[2]
    BY <1>1, <1>2
  <1> QED BY <1>3 DEF StartsAt, IsFull

\* A line: the bytes it takes, where the parser starts in it, with what, and
\* what the parser has at its end.
LineTo(s, b, at, r, q) ==
    /\ Takes(s, b) /\ Reads(s, at, r, q)
    /\ at \in 2 .. Len(s) /\ at = (IF IsFull(s) THEN 4 ELSE 3) /\ r = StartsAt(s, at)

\* Adding a token.
LEMMA LineGrows ==
    ASSUME NEW s, NEW b, NEW at, NEW r, NEW q, LineTo(s, b, at, r, q), NEW t \in Word
    PROVE  LineTo(Append(s, t), b + t.n + 1, at, r, ReadToken(q, t))
  <1>0. Takes(s, b) /\ Reads(s, at, r, q) /\ s \in Seq(Word) BY DEF LineTo, Takes
  <1>1. Takes(Append(s, t), b + t.n + 1) BY <1>0, TakesMore
  <1>2. Reads(Append(s, t), at, r, ReadToken(q, t)) BY <1>0, ReadsMore
  <1>3. at \in 2 .. Len(s) /\ at = (IF IsFull(s) THEN 4 ELSE 3) /\ r = StartsAt(s, at)
    BY DEF LineTo
  <1>4. StartsAt(Append(s, t), at) = StartsAt(s, at) /\ (IsFull(Append(s, t)) <=> IsFull(s))
    BY <1>0, <1>3, StartStays
  <1>5. Len(Append(s, t)) = Len(s) + 1 /\ Len(s) \in Nat BY <1>0
  <1>6. at \in 2 .. Len(Append(s, t)) BY <1>3, <1>5
  <1> QED BY <1>1, <1>2, <1>3, <1>4, <1>6 DEF LineTo

\* The length of a line and what the workers read from it.
LEMMA LineIs ==
    ASSUME NEW s, NEW b, NEW at, NEW r, NEW q, LineTo(s, b, at, r, q)
    PROVE  s \in Seq(Word) /\ b \in Nat /\ Bytes(s) = b - 1 /\ Parse(s) = q
  <1>1. Takes(s, b) /\ Reads(s, at, r, q) /\ at = (IF IsFull(s) THEN 4 ELSE 3) /\ r = StartsAt(s, at)
    BY DEF LineTo
  <1>2. s \in Seq(Word) /\ b \in Nat BY <1>1 DEF Takes
  <1>3. Parse(s) = q BY <1>1, ParseReads
  <1> QED BY <1>1, <1>2, <1>3, BytesTaken

\* Every token is a word of a line.
LEMMA TokenWord ==
    ASSUME NEW kind \in TokenKind, NEW n \in Nat, NEW own \in BOOLEAN
    PROVE  Token(kind, n, own) \in Word /\ Token(kind, n, own).n = n
                /\ Token(kind, n, own).kind = kind /\ Token(kind, n, own).own = own
  BY DEF Token, Word

\* A line of one token, with one more.
LEMMA AppendToOne ==
    ASSUME NEW a \in Word, NEW b \in Word
    PROVE  Append(<<a>>, b) = <<a, b>>
  <1> DEFINE s == Append(<<a>>, b)
             t == <<a, b>>
  <1>1. s \in Seq(Word) /\ t \in Seq(Word) /\ Len(s) = 2 /\ Len(t) = 2 OBVIOUS
  <1>2. s[1] = t[1] /\ s[2] = t[2] OBVIOUS
  <1> HIDE DEF s, t
  <1>3. \A i \in 1 .. 2 : s[i] = t[i] BY <1>2
  <1>4. s = t BY <1>1, <1>3, SeqEqual
  <1> QED BY <1>4 DEF s, t

\* A line of two tokens, with one more.
LEMMA AppendToTwo ==
    ASSUME NEW a \in Word, NEW b \in Word, NEW c \in Word
    PROVE  Append(<<a, b>>, c) = <<a, b, c>>
  <1> DEFINE s == Append(<<a, b>>, c)
             t == <<a, b, c>>
  <1>1. s \in Seq(Word) /\ t \in Seq(Word) /\ Len(s) = 3 /\ Len(t) = 3 OBVIOUS
  <1>2. s[1] = t[1] /\ s[2] = t[2] /\ s[3] = t[3] OBVIOUS
  <1> HIDE DEF s, t
  <1>3. \A i \in 1 .. 3 : s[i] = t[i] BY <1>2
  <1>4. s = t BY <1>1, <1>3, SeqEqual
  <1> QED BY <1>4 DEF s, t

\* A line of three tokens, with one more.
LEMMA AppendToThree ==
    ASSUME NEW a \in Word, NEW b \in Word, NEW c \in Word, NEW d \in Word
    PROVE  Append(<<a, b, c>>, d) = <<a, b, c, d>>
  <1> DEFINE s == Append(<<a, b, c>>, d)
             t == <<a, b, c, d>>
  <1>1. s \in Seq(Word) /\ t \in Seq(Word) /\ Len(s) = 4 /\ Len(t) = 4 OBVIOUS
  <1>2. s[1] = t[1] /\ s[2] = t[2] /\ s[3] = t[3] /\ s[4] = t[4] OBVIOUS
  <1> HIDE DEF s, t
  <1>3. \A i \in 1 .. 4 : s[i] = t[i] BY <1>2
  <1>4. s = t BY <1>1, <1>3, SeqEqual
  <1> QED BY <1>4 DEF s, t

\* A line of four tokens, with one more.
LEMMA AppendToFour ==
    ASSUME NEW a \in Word, NEW b \in Word, NEW c \in Word, NEW d \in Word, NEW e \in Word
    PROVE  Append(<<a, b, c, d>>, e) = <<a, b, c, d, e>>
  <1> DEFINE s == Append(<<a, b, c, d>>, e)
             t == <<a, b, c, d, e>>
  <1>1. s \in Seq(Word) /\ t \in Seq(Word) /\ Len(s) = 5 /\ Len(t) = 5 OBVIOUS
  <1>2. s[1] = t[1] /\ s[2] = t[2] /\ s[3] = t[3] /\ s[4] = t[4] /\ s[5] = t[5] OBVIOUS
  <1> HIDE DEF s, t
  <1>3. \A i \in 1 .. 5 : s[i] = t[i] BY <1>2
  <1>4. s = t BY <1>1, <1>3, SeqEqual
  <1> QED BY <1>4 DEF s, t

\* An empty field is left out.
LEMMA FieldAdds ==
    ASSUME NEW s \in Seq(Word), NEW kind \in TokenKind, NEW n \in Nat, NEW mark \in Nat
    PROVE  /\ n = 0 => s \o Field(kind, n, mark) = s
           /\ n # 0 => s \o Field(kind, n, mark) = Append(s, Token(kind, mark + n, TRUE))
  <1>1. CASE n = 0
    <2>1. Field(kind, n, mark) = << >> BY <1>1 DEF Field
    <2>2. s \o << >> = s OBVIOUS
    <2> QED BY <1>1, <2>1, <2>2
  <1>2. CASE n # 0
    <2> DEFINE t == Token(kind, mark + n, TRUE)
    <2>1. Field(kind, n, mark) = <<t>> BY <1>2 DEF Field
    <2>2. t \in Word
      <3>1. mark + n \in Nat /\ TRUE \in BOOLEAN OBVIOUS
      <3> QED BY <3>1, TokenWord
    <2> HIDE DEF t
    <2>3. s \o <<t>> = Append(s, t) BY <2>2
    <2> QED BY <1>2, <2>1, <2>3 DEF t
  <1> QED BY <1>1, <1>2

\* What the parser has of a webhook.
Progress(w, action, url, fixes, head, inTitle) ==
    [task |-> Token("task", 3, TRUE), ref |-> Token("ref", w.ref, TRUE), action |-> action,
     url |-> url, fixes |-> fixes, head |-> head, inTitle |-> inTitle]

\* Once in the title, nothing more is read.
LEMMA TitleStays ==
    ASSUME NEW w, NEW a, NEW u, NEW f, NEW h, NEW t
    PROVE  ReadToken(Progress(w, a, u, f, h, TRUE), t) = Progress(w, a, u, f, h, TRUE)
  <1>1. Progress(w, a, u, f, h, TRUE).inTitle = TRUE BY DEF Progress
  <1>2. ASSUME NEW r, r.inTitle = TRUE PROVE ReadToken(r, t) = r BY <1>2 DEF ReadToken
  <1> QED BY <1>1, <1>2

\* With an action a word begins the title, and with a url another one.
LEMMA TitleBegins ==
    ASSUME NEW w, NEW a, NEW u, NEW f, NEW h, NEW t,
           (t.kind = "word" /\ a # NoToken) \/ (t.kind = "url" /\ u # NoToken)
    PROVE  ReadToken(Progress(w, a, u, f, h, FALSE), t) = Progress(w, a, u, f, h, TRUE)
  <1>1. CASE t.kind = "word" /\ a # NoToken BY <1>1 DEF ReadToken, Progress
  <1>2. CASE t.kind = "url" /\ u # NoToken BY <1>2 DEF ReadToken, Progress
  <1> QED BY <1>1, <1>2

\* The lengths of a webhook's fields.
LEMMA WebhookTypes ==
    ASSUME NEW w \in Webhooks
    PROVE  /\ w.ref \in Nat /\ w.url \in Nat /\ w.fixes \in Nat /\ w.head \in Nat
           /\ w.title \in Nat /\ w.actor \in Nat /\ w.lead \in Lead
           /\ w.ref + UrlMax + 9 <= TextBudget /\ w.url > 8
  <1>1. /\ w.ref \in RefBytes /\ w.url \in UrlBytes /\ w.fixes \in FixesBytes
        /\ w.head \in HeadBytes /\ w.title \in TitleBytes /\ w.actor \in ActorBytes /\ w.lead \in Lead
    BY DEF Webhooks
  <1>2. /\ RefBytes \subseteq Nat /\ UrlBytes \subseteq Nat /\ FixesBytes \subseteq Nat
        /\ HeadBytes \subseteq Nat /\ TitleBytes \subseteq Nat /\ ActorBytes \subseteq Nat
    BY LengthAssumption
  <1>3. (\A n \in RefBytes : n + UrlMax + 9 <= TextBudget) /\ \A n \in UrlBytes : n > 8
    BY LengthAssumption
  <1>4. w.ref + UrlMax + 9 <= TextBudget /\ w.url > 8 BY <1>1, <1>3
  <1> QED BY <1>1, <1>2, <1>4

\* What the parser starts with.
Start(w) == Progress(w, NoToken, NoToken, NoToken, NoToken, FALSE)

\* The whole webhook, read.
Got(w, inTitle) ==
    Progress(w, Token("action", 16, TRUE), Token("url", w.url, TRUE),
             Want("fixes", w.fixes, 6), Want("head", w.head, 5), inTitle)

\* The line up to the ref, in its full and in its compact form.
LEMMA LineStarts ==
    ASSUME NEW w \in Webhooks, NEW n \in Nat
    PROVE  /\ \E b : LineTo(<<Token("git", 3, TRUE), Token("event", n, TRUE), Token("task", 3, TRUE),
                              Token("ref", w.ref, TRUE)>>, b, 4, Start(w), Start(w))
           /\ LineTo(<<Token("git", 3, TRUE), Token("task", 3, TRUE), Token("ref", w.ref, TRUE)>>,
                     w.ref + 9, 3, Start(w), Start(w))
  <1> DEFINE git == Token("git", 3, TRUE)
             event == Token("event", n, TRUE)
             task == Token("task", 3, TRUE)
             ref == Token("ref", w.ref, TRUE)
  <1>0. w.ref \in Nat BY WebhookTypes
  <1>1. /\ git \in Word /\ event \in Word /\ task \in Word /\ ref \in Word
        /\ git.n = 3 /\ event.n = n /\ task.n = 3 /\ ref.n = w.ref
        /\ event.kind = "event" /\ task.kind = "task"
    BY <1>0 DEF Token, Word, TokenKind
  <1>2. Start(w) = [task |-> task, ref |-> ref, action |-> NoToken, url |-> NoToken,
                    fixes |-> NoToken, head |-> NoToken, inTitle |-> FALSE]
    BY DEF Start, Progress
  <1> HIDE DEF git, event, task, ref
  <1>3. Takes(<<git>>, 4)
    <2>1. <<git>> = Append(<< >>, git) /\ 0 + git.n + 1 = 4 BY <1>1
    <2> QED BY <1>1, <2>1, TakesNone, TakesMore
  <1>4. \E b : LineTo(<<git, event, task, ref>>, b, 4, Start(w), Start(w))
    <2> DEFINE s2 == Append(<<git>>, event)
               s3 == Append(s2, task)
               s4 == Append(s3, ref)
    <2>1. /\ s4 = <<git, event, task, ref>> /\ s4 \in Seq(Word) /\ Len(s4) = 4
          /\ s4[2] = event /\ s4[3] = task /\ s4[4] = ref
      <3>1. s2 = <<git, event>> BY <1>1, AppendToOne
      <3>2. Append(<<git, event>>, task) = <<git, event, task>> BY <1>1, AppendToTwo
      <3>3. Append(<<git, event, task>>, ref) = <<git, event, task, ref>> BY <1>1, AppendToThree
      <3>4. s4 = <<git, event, task, ref>> BY <3>1, <3>2, <3>3, Zenon
      <3> HIDE DEF s4
      <3> QED BY <1>1, <3>4
    <2>2. Takes(s2, 4 + event.n + 1) BY <1>1, <1>3, TakesMore
    <2>3. PICK b3 : Takes(s3, b3)
      <3> HIDE DEF s2
      <3> QED BY <1>1, <2>2, TakesMore
    <2>4. PICK b : Takes(s4, b)
      <3> HIDE DEF s3
      <3> QED BY <1>1, <2>3, TakesMore
    <2> HIDE DEF s4
    <2>5. IsFull(s4) /\ StartsAt(s4, 4) = Start(w) BY <1>1, <1>2, <2>1 DEF IsFull, StartsAt
    <2>6. Reads(s4, 4, Start(w), Start(w)) BY <2>1, ReadsNone
    <2>7. LineTo(s4, b, 4, Start(w), Start(w)) BY <2>1, <2>4, <2>5, <2>6 DEF LineTo
    <2> QED BY <2>1, <2>7
  <1>5. LineTo(<<git, task, ref>>, w.ref + 9, 3, Start(w), Start(w))
    <2> DEFINE s2 == Append(<<git>>, task)
               s3 == Append(s2, ref)
    <2>1. /\ s3 = <<git, task, ref>> /\ s3 \in Seq(Word) /\ Len(s3) = 3
          /\ s3[2] = task /\ s3[3] = ref
      <3>1. s2 = <<git, task>> BY <1>1, AppendToOne
      <3>2. Append(<<git, task>>, ref) = <<git, task, ref>> BY <1>1, AppendToTwo
      <3>3. s3 = <<git, task, ref>> BY <3>1, <3>2, Zenon
      <3> HIDE DEF s3
      <3> QED BY <1>1, <3>3
    <2>2. Takes(s2, 4 + task.n + 1) BY <1>1, <1>3, TakesMore
    <2>3. Takes(s3, 8 + ref.n + 1)
      <3>1. 4 + task.n + 1 = 8 BY <1>1
      <3> HIDE DEF s2
      <3> QED BY <1>1, <2>2, <3>1, TakesMore
    <2>4. 8 + ref.n + 1 = w.ref + 9 BY <1>0, <1>1
    <2> HIDE DEF s3
    <2>5. ~IsFull(s3) /\ StartsAt(s3, 3) = Start(w) BY <1>1, <1>2, <2>1 DEF IsFull, StartsAt
    <2>6. Reads(s3, 3, Start(w), Start(w)) BY <2>1, ReadsNone
    <2>7. LineTo(s3, w.ref + 9, 3, Start(w), Start(w))
      BY <2>1, <2>3, <2>4, <2>5, <2>6 DEF LineTo
    <2> QED BY <2>1, <2>7
  <1> QED BY <1>4, <1>5 DEF git, event, task, ref

\* The fields of a webhook, read one after the other.
LEMMA CoreReads ==
    ASSUME NEW w \in Webhooks
    PROVE  \E b : LineTo(Core(w), b, 4, Start(w), Got(w, FALSE))
  <1> DEFINE n == IF w.event = "issues" THEN 6 ELSE 12
             s4 == <<Token("git", 3, TRUE), Token("event", n, TRUE), Token("task", 3, TRUE),
                     Token("ref", w.ref, TRUE)>>
             action == Token("action", 16, TRUE)
             url == Token("url", w.url, TRUE)
             s5 == Append(s4, action)
             s6 == s5 \o Field("url", w.url, 0)
             s7 == s6 \o Field("fixes", w.fixes, 6)
             s8 == s7 \o Field("head", w.head, 5)
             fixes == Want("fixes", w.fixes, 6)
             head == Want("head", w.head, 5)
  <1>1. n \in Nat /\ TRUE \in BOOLEAN OBVIOUS
  <1>2. PICK b4 : LineTo(s4, b4, 4, Start(w), Start(w))
    <2> HIDE DEF n
    <2> QED BY <1>1, LineStarts
  <1>3. action \in Word /\ action.kind = "action" BY DEF Token, Word, TokenKind
  <1>4. PICK b5 : LineTo(s5, b5, 4, Start(w), Progress(w, action, NoToken, NoToken, NoToken, FALSE))
    <2>1. ReadToken(Start(w), action) = Progress(w, action, NoToken, NoToken, NoToken, FALSE)
      <3> HIDE DEF action
      <3> QED BY <1>3 DEF Start, Progress, ReadToken
    <2> HIDE DEF s4, action
    <2>2. LineTo(Append(s4, action), b4 + action.n + 1, 4, Start(w), ReadToken(Start(w), action))
      BY <1>2, <1>3, LineGrows
    <2> QED BY <2>1, <2>2
  <1>5. Core(w) = s8
    <2>1. s5 = <<Token("git", 3, TRUE), Token("event", n, TRUE), Token("task", 3, TRUE),
                 Token("ref", w.ref, TRUE), action>>
      <3> DEFINE t1 == Token("git", 3, TRUE)
                 t2 == Token("event", n, TRUE)
                 t3 == Token("task", 3, TRUE)
                 t4 == Token("ref", w.ref, TRUE)
      <3>1. t1 \in Word /\ t2 \in Word /\ t3 \in Word /\ t4 \in Word
        BY <1>1, WebhookTypes DEF Token, Word, TokenKind
      <3> HIDE DEF t1, t2, t3, t4, action
      <3>2. Append(<<t1, t2, t3, t4>>, action) = <<t1, t2, t3, t4, action>>
        BY <1>3, <3>1, AppendToFour
      <3> QED BY <3>2 DEF t1, t2, t3, t4
    <2> QED BY <2>1 DEF Core
  <1>6. /\ w.url \in Nat /\ w.url # 0 /\ w.fixes \in Nat /\ w.head \in Nat
        /\ 0 \in Nat /\ 5 \in Nat /\ 6 \in Nat /\ 0 + w.url = w.url
        /\ 6 + w.fixes \in Nat /\ 5 + w.head \in Nat
    BY WebhookTypes
  <1>7. PICK b6 : LineTo(s6, b6, 4, Start(w), Progress(w, action, url, NoToken, NoToken, FALSE))
    <2>1. url \in Word /\ url.kind = "url" BY <1>6 DEF Token, Word, TokenKind
    <2>2. s5 \in Seq(Word) BY <1>4, LineIs
    <2> HIDE DEF s4, s5
    <2>3. s6 = Append(s5, url)
      <3>1. "url" \in TokenKind /\ 0 \in Nat BY DEF TokenKind
      <3>2. ASSUME NEW s \in Seq(Word), NEW m \in Nat, m # 0
            PROVE  s \o Field("url", m, 0) = Append(s, Token("url", 0 + m, TRUE))
        BY <3>1, <3>2, FieldAdds, Zenon
      <3>3. s6 = Append(s5, Token("url", 0 + w.url, TRUE)) BY <1>6, <2>2, <3>2
      <3> QED BY <1>6, <3>3
    <2> HIDE DEF action, url, s6
    <2>4. ReadToken(Progress(w, action, NoToken, NoToken, NoToken, FALSE), url)
            = Progress(w, action, url, NoToken, NoToken, FALSE)
      BY <2>1 DEF Progress, ReadToken
    <2>5. LineTo(Append(s5, url), b5 + url.n + 1, 4, Start(w),
                 ReadToken(Progress(w, action, NoToken, NoToken, NoToken, FALSE), url))
      BY <1>4, <2>1, LineGrows
    <2> QED BY <2>3, <2>4, <2>5
  <1>8. PICK b7 : LineTo(s7, b7, 4, Start(w), Progress(w, action, url, fixes, NoToken, FALSE))
    <2>1. s6 \in Seq(Word) BY <1>7, LineIs
    <2> HIDE DEF s6
    <2> DEFINE t == Token("fixes", 6 + w.fixes, TRUE)
    <2>2. (w.fixes = 0 => s7 = s6) /\ (w.fixes # 0 => s7 = Append(s6, t))
      <3>1. "fixes" \in TokenKind /\ 6 \in Nat BY DEF TokenKind
      <3>2. w.fixes \in Nat BY <1>6
      <3> QED BY <2>1, <3>1, <3>2, FieldAdds, Zenon
    <2>3. t \in Word /\ t.kind = "fixes" BY <1>6 DEF Token, Word, TokenKind
    <2>4. fixes = IF w.fixes = 0 THEN NoToken ELSE t BY DEF Want
    <2> HIDE DEF action, url, t, s7, fixes
    <2>5. CASE w.fixes = 0 BY <1>7, <2>2, <2>4, <2>5
    <2>6. CASE w.fixes # 0
      <3>1. ReadToken(Progress(w, action, url, NoToken, NoToken, FALSE), t)
              = Progress(w, action, url, t, NoToken, FALSE)
        BY <2>3 DEF Progress, ReadToken
      <3>2. LineTo(Append(s6, t), b6 + t.n + 1, 4, Start(w),
                   ReadToken(Progress(w, action, url, NoToken, NoToken, FALSE), t))
        BY <1>7, <2>3, LineGrows
      <3> QED BY <2>2, <2>4, <2>6, <3>1, <3>2
    <2> QED BY <2>5, <2>6
  <1>9. \E b8 : LineTo(s8, b8, 4, Start(w), Progress(w, action, url, fixes, head, FALSE))
    <2>1. s7 \in Seq(Word) BY <1>8, LineIs
    <2> HIDE DEF s7
    <2> DEFINE t == Token("head", 5 + w.head, TRUE)
    <2>2. (w.head = 0 => s8 = s7) /\ (w.head # 0 => s8 = Append(s7, t))
      <3>1. "head" \in TokenKind /\ 5 \in Nat BY DEF TokenKind
      <3>2. w.head \in Nat BY <1>6
      <3> QED BY <2>1, <3>1, <3>2, FieldAdds, Zenon
    <2>3. t \in Word /\ t.kind = "head" BY <1>6 DEF Token, Word, TokenKind
    <2>4. head = IF w.head = 0 THEN NoToken ELSE t BY DEF Want
    <2> HIDE DEF action, url, t, s8, fixes, head
    <2>5. CASE w.head = 0 BY <1>8, <2>2, <2>4, <2>5
    <2>6. CASE w.head # 0
      <3>1. ReadToken(Progress(w, action, url, fixes, NoToken, FALSE), t)
              = Progress(w, action, url, fixes, t, FALSE)
        BY <2>3 DEF Progress, ReadToken
      <3>2. LineTo(Append(s7, t), b7 + t.n + 1, 4, Start(w),
                   ReadToken(Progress(w, action, url, fixes, NoToken, FALSE), t))
        BY <1>8, <2>3, LineGrows
      <3> QED BY <2>2, <2>4, <2>6, <3>1, <3>2
    <2> QED BY <2>5, <2>6
  <1> QED BY <1>5, <1>9 DEF Got

\* The title neither makes the full line too long nor, when it does not begin
\* with a field, changes what is read.
LEMMA FullLineReads ==
    ASSUME NEW w \in Webhooks, Bytes(Core(w)) <= TextBudget
    PROVE  \E b, q : /\ LineTo(FullLine(w), b, 4, Start(w), q)
                     /\ b - 1 <= TextBudget
                     /\ w.title = 0 \/ w.lead \notin {"fixes", "head"} =>
                            q = Got(w, FALSE) \/ q = Got(w, TRUE)
  <1>1. PICK c : LineTo(Core(w), c, 4, Start(w), Got(w, FALSE)) BY CoreReads
  <1>2. Core(w) \in Seq(Word) /\ c \in Nat /\ Bytes(Core(w)) = c - 1 BY <1>1, LineIs
  <1>3. TextBudget \in Int
    <2>1. LineMax \in Nat /\ PrefixBytes \in Nat /\ SoftMax \in Nat BY LengthAssumption
    <2> QED BY <2>1 DEF TextBudget, Smaller
  <1>4. w.title \in Nat /\ w.lead \in Lead BY WebhookTypes
  <1>5. c - 1 <= TextBudget BY <1>2
  <1> DEFINE used == Bytes(Core(w)) + 1
             t == Token(w.lead, Cut(w.title, TextBudget - used), FALSE)
  <1>6. used = c BY <1>2
  <1>7. CASE w.title = 0 \/ used >= TextBudget
    <2>1. Title(w) = << >> BY <1>7 DEF Title
    <2>2. FullLine(w) = Core(w) BY <1>2, <2>1 DEF FullLine
    <2> QED BY <1>1, <1>5, <2>2
  <1>8. CASE ~(w.title = 0 \/ used >= TextBudget)
    <2>1. Title(w) = <<t>> BY <1>8 DEF Title
    <2>2. /\ TextBudget - used \in Nat /\ w.title # 0 /\ c < TextBudget
      BY <1>2, <1>3, <1>6, <1>8
    <2> DEFINE n == Cut(w.title, TextBudget - used)
    <2>3. n \in Nat /\ n <= TextBudget - c BY <1>4, <1>6, <2>2 DEF Cut, Smaller
    <2>4. t = Token(w.lead, n, FALSE) OBVIOUS
    <2> HIDE DEF n, t, used
    <2>5. t \in Word /\ t.n = n /\ t.kind = w.lead
      <3>1. w.lead \in TokenKind BY <1>4 DEF Lead, TokenKind
      <3> QED BY <2>3, <2>4, <3>1 DEF Token, Word
    <2>6. FullLine(w) = Append(Core(w), t) BY <1>2, <2>1, <2>5 DEF FullLine
    <2>7. LineTo(Append(Core(w), t), c + t.n + 1, 4, Start(w), ReadToken(Got(w, FALSE), t))
      BY <1>1, <2>5, LineGrows
    <2>9. ASSUME w.lead \notin {"fixes", "head"}
          PROVE  ReadToken(Got(w, FALSE), t) = Got(w, TRUE)
      <3> DEFINE a == Token("action", 16, TRUE)
                 u == Token("url", w.url, TRUE)
      <3>1. a # NoToken /\ u # NoToken BY DEF Token, NoToken
      <3>2. t.kind = "word" \/ t.kind = "url" BY <1>4, <2>5, <2>9 DEF Lead
      <3> HIDE DEF a, u
      <3>3. ReadToken(Progress(w, a, u, Want("fixes", w.fixes, 6), Want("head", w.head, 5), FALSE), t)
              = Progress(w, a, u, Want("fixes", w.fixes, 6), Want("head", w.head, 5), TRUE)
        BY <3>1, <3>2, TitleBegins
      <3> QED BY <3>3 DEF Got, a, u
    <2> DEFINE b == c + t.n + 1
               q == ReadToken(Got(w, FALSE), t)
    <2>10. LineTo(FullLine(w), b, 4, Start(w), q) BY <2>6, <2>7
    <2>11. b - 1 <= TextBudget BY <1>2, <1>3, <2>2, <2>3, <2>5
    <2>12. w.title = 0 \/ w.lead \notin {"fixes", "head"} => q = Got(w, TRUE) BY <2>2, <2>9
    <2> HIDE DEF b, q
    <2> QED BY <2>10, <2>11, <2>12
  <1> QED BY <1>7, <1>8

\* The compact line always fits.
LEMMA CompactReads ==
    ASSUME NEW w \in Webhooks
    PROVE  \E b, u : /\ LineTo(Compact(w), b, 3, Start(w),
                               Progress(w, NoToken, u, NoToken, NoToken, FALSE))
                     /\ u # NoToken
                     /\ b - 1 <= TextBudget
  <1> DEFINE n == Smaller(w.url - 8, UrlMax)
             u == Token("url", n, TRUE)
             s == <<Token("git", 3, TRUE), Token("task", 3, TRUE), Token("ref", w.ref, TRUE)>>
  <1>1. /\ w.ref \in Nat /\ w.url \in Nat /\ w.ref + UrlMax + 9 <= TextBudget /\ w.url > 8
    BY WebhookTypes
  <1>2. n \in Nat /\ n <= UrlMax BY <1>1 DEF Smaller, UrlMax
  <1>3. TextBudget \in Int /\ UrlMax \in Nat
    <2>1. LineMax \in Nat /\ PrefixBytes \in Nat /\ SoftMax \in Nat BY LengthAssumption
    <2> QED BY <2>1 DEF TextBudget, Smaller, UrlMax
  <1> HIDE DEF n
  <1>4. u \in Word /\ u.n = n /\ u.kind = "url" /\ u # NoToken
    BY <1>2 DEF Token, Word, TokenKind, NoToken
  <1>5. LineTo(s, w.ref + 9, 3, Start(w), Start(w))
    <2>1. 3 \in Nat OBVIOUS
    <2> QED BY <2>1, LineStarts
  <1>6. Compact(w) = Append(s, u)
    <2> DEFINE t1 == Token("git", 3, TRUE)
               t2 == Token("task", 3, TRUE)
               t3 == Token("ref", w.ref, TRUE)
    <2>1. t1 \in Word /\ t2 \in Word /\ t3 \in Word BY <1>1 DEF Token, Word, TokenKind
    <2> HIDE DEF t1, t2, t3, u
    <2>2. Append(<<t1, t2, t3>>, u) = <<t1, t2, t3, u>> BY <1>4, <2>1, AppendToThree
    <2> QED BY <2>2 DEF t1, t2, t3, u, Compact, n
  <1> HIDE DEF u, s
  <1>7. LineTo(Append(s, u), w.ref + 9 + u.n + 1, 3, Start(w), ReadToken(Start(w), u))
    BY <1>4, <1>5, LineGrows
  <1>8. ReadToken(Start(w), u) = Progress(w, NoToken, u, NoToken, NoToken, FALSE)
    BY <1>4 DEF Start, Progress, ReadToken
  <1> DEFINE b == w.ref + 9 + u.n + 1
             q == Progress(w, NoToken, u, NoToken, NoToken, FALSE)
  <1>10. LineTo(Compact(w), b, 3, Start(w), q) BY <1>6, <1>7, <1>8
  <1>11. b - 1 <= TextBudget BY <1>1, <1>2, <1>3, <1>4
  <1> HIDE DEF b
  <1> QED BY <1>4, <1>10, <1>11

\* The actor is added where the line still fits, and read as words.
LEMMA ActorReads ==
    ASSUME NEW w \in Webhooks, NEW s, NEW b, NEW at, NEW q, LineTo(s, b, at, Start(w), q),
           b - 1 <= TextBudget
    PROVE  /\ WithActor(s, w) \in Seq(Word) /\ Fits(WithActor(s, w))
           /\ IsFull(WithActor(s, w)) <=> IsFull(s)
           /\ \/ Parse(WithActor(s, w)) = q
              \/ \E t, v \in Word :
                    /\ t.kind = "word" /\ v.kind = "word"
                    /\ Parse(WithActor(s, w)) = ReadToken(ReadToken(q, t), v)
  <1> DEFINE t == Token("word", 2, FALSE)
             v == Token("word", w.actor, FALSE)
             longer == s \o <<t, v>>
             Adds == w.actor > 0 /\ PrefixBytes + Bytes(longer) <= LineMax
  <1>1. /\ s \in Seq(Word) /\ b \in Nat /\ Bytes(s) = b - 1 /\ Parse(s) = q
        /\ at \in 2 .. Len(s) /\ at = (IF IsFull(s) THEN 4 ELSE 3)
    BY LineIs DEF LineTo
  <1>2. WithActor(s, w) = IF Adds THEN longer ELSE s BY DEF WithActor
  <1>3. CASE ~Adds
    <2>1. WithActor(s, w) = s BY <1>2, <1>3
    <2>2. PrefixBytes + (b - 1) <= LineMax
      <3>1. LineMax \in Nat /\ PrefixBytes \in Nat /\ SoftMax \in Nat BY LengthAssumption
      <3> QED BY <1>1, <3>1 DEF TextBudget, Smaller
    <2> QED BY <1>1, <2>1, <2>2 DEF Fits
  <1>4. CASE Adds
    <2>1. WithActor(s, w) = longer /\ Fits(longer) BY <1>2, <1>4 DEF Fits
    <2>2. t \in Word /\ v \in Word /\ t.kind = "word" /\ v.kind = "word"
      BY WebhookTypes DEF Token, Word, TokenKind
    <2> DEFINE s1 == Append(s, t)
               s2 == Append(s1, v)
    <2> HIDE DEF t, v
    <2>3. longer = s2 BY <1>1, <2>2
    <2>4. LineTo(s1, b + t.n + 1, at, Start(w), ReadToken(q, t)) BY <2>2, LineGrows
    <2> HIDE DEF s1
    <2>5. LineTo(s2, b + t.n + 1 + v.n + 1, at, Start(w), ReadToken(ReadToken(q, t), v))
      BY <2>2, <2>4, LineGrows
    <2> HIDE DEF s2, longer
    <2>6. /\ s2 \in Seq(Word) /\ Parse(s2) = ReadToken(ReadToken(q, t), v)
          /\ at = (IF IsFull(s2) THEN 4 ELSE 3)
      BY <2>5, LineIs DEF LineTo
    <2>7. IsFull(s2) <=> IsFull(s) BY <1>1, <2>6
    <2> QED BY <2>1, <2>2, <2>3, <2>6, <2>7
  <1> QED BY <1>3, <1>4

\* A full line without a misleading title reads as its webhook, a compact one as
\* its ref, both with and without the actor.
LEMMA AnnouncedReads ==
    ASSUME NEW w \in Webhooks
    PROVE  LET line == Announced(w)
           IN  /\ line # NoLine => line \in Seq(Word) /\ Fits(line)
               /\ w.title = 0 \/ w.lead \notin {"fixes", "head"} =>
                      /\ line # NoLine
                      /\ IF IsFull(line) THEN ReadsAs(line, w)
                         ELSE Parse(line).ref = Token("ref", w.ref, TRUE)
  <1> DEFINE line == Announced(w)
  <1>0. NoLine \notin Seq(Word) BY LengthAssumption
  <1>1. CASE Bytes(Core(w)) > TextBudget
    <2>1. line = WithActor(Compact(w), w) BY <1>1 DEF Announced
    <2>2. PICK b, u : /\ LineTo(Compact(w), b, 3, Start(w),
                               Progress(w, NoToken, u, NoToken, NoToken, FALSE))
                      /\ u # NoToken
                      /\ b - 1 <= TextBudget
      BY CompactReads
    <2> DEFINE q == Progress(w, NoToken, u, NoToken, NoToken, FALSE)
               ref == Token("ref", w.ref, TRUE)
    <2>3. ~IsFull(Compact(w)) BY <2>2 DEF LineTo
    <2>4. q.ref = ref BY DEF Progress
    <2>5. ASSUME NEW t \in Word, NEW v \in Word, t.kind = "word", v.kind = "word"
          PROVE  ReadToken(ReadToken(q, t), v).ref = ref
      <3>1. ReadToken(q, t) = Progress(w, t, u, NoToken, NoToken, FALSE)
        BY <2>5 DEF ReadToken, Progress
      <3>2. CASE t = NoToken
        <4>1. FALSE BY <2>5, <3>2 DEF NoToken, Token
        <4> QED BY <4>1
      <3>3. CASE t # NoToken
        <4>1. ReadToken(Progress(w, t, u, NoToken, NoToken, FALSE), v)
                = Progress(w, t, u, NoToken, NoToken, TRUE)
          BY <2>5, <3>3, TitleBegins
        <4>2. Progress(w, t, u, NoToken, NoToken, TRUE).ref = ref BY DEF Progress
        <4> QED BY <3>1, <4>1, <4>2
      <3> QED BY <3>2, <3>3
    <2> HIDE DEF q, ref
    <2>6. LineTo(Compact(w), b, 3, Start(w), q) BY <2>2 DEF q
    <2>7. /\ line \in Seq(Word) /\ Fits(line) /\ ~IsFull(line)
          /\ \/ Parse(line) = q
             \/ \E t, v \in Word : /\ t.kind = "word" /\ v.kind = "word"
                                   /\ Parse(line) = ReadToken(ReadToken(q, t), v)
      <3> HIDE DEF line
      <3> QED BY <2>1, <2>2, <2>3, <2>6, ActorReads
    <2> HIDE DEF line
    <2>8. Parse(line).ref = ref BY <2>4, <2>5, <2>7
    <2> QED BY <1>0, <2>7, <2>8 DEF line, ref
  <1>2. CASE ~(Bytes(Core(w)) > TextBudget)
    <2>0. Bytes(Core(w)) <= TextBudget
      <3>1. PICK c : LineTo(Core(w), c, 4, Start(w), Got(w, FALSE)) BY CoreReads
      <3>2. c \in Nat /\ Bytes(Core(w)) = c - 1 BY <3>1, LineIs
      <3>3. LineMax \in Nat /\ PrefixBytes \in Nat /\ SoftMax \in Nat BY LengthAssumption
      <3>4. TextBudget \in Int BY <3>3 DEF TextBudget, Smaller
      <3> QED BY <1>2, <3>2, <3>4
    <2>1. PICK b, q : /\ LineTo(FullLine(w), b, 4, Start(w), q)
                      /\ b - 1 <= TextBudget
                      /\ w.title = 0 \/ w.lead \notin {"fixes", "head"} =>
                            q = Got(w, FALSE) \/ q = Got(w, TRUE)
      BY <2>0, FullLineReads
    <2>2. IsFull(FullLine(w)) /\ Parse(FullLine(w)) = q
      <3>1. 4 = (IF IsFull(FullLine(w)) THEN 4 ELSE 3) BY <2>1 DEF LineTo
      <3>2. Parse(FullLine(w)) = q BY <2>1, LineIs
      <3> QED BY <3>1, <3>2
    <2> DEFINE full == WithActor(FullLine(w), w)
    <2>3. /\ full \in Seq(Word) /\ Fits(full) /\ IsFull(full)
          /\ \/ Parse(full) = q
             \/ \E t, v \in Word : /\ t.kind = "word" /\ v.kind = "word"
                                   /\ Parse(full) = ReadToken(ReadToken(q, t), v)
      <3> HIDE DEF full
      <3> QED BY <2>1, <2>2, ActorReads DEF full
    <2>4. line = IF ReadsAs(FullLine(w), w) THEN full ELSE NoLine
      BY <1>2 DEF Announced
    <2>5. ASSUME NEW p, p = Got(w, FALSE) \/ p = Got(w, TRUE), NEW t, t.kind = "word"
          PROVE  ReadToken(p, t) = Got(w, TRUE)
      <3> DEFINE a == Token("action", 16, TRUE)
                 u == Token("url", w.url, TRUE)
      <3>1. a # NoToken BY DEF Token, NoToken
      <3> HIDE DEF a, u
      <3>2. ReadToken(Progress(w, a, u, Want("fixes", w.fixes, 6), Want("head", w.head, 5), FALSE), t)
              = Progress(w, a, u, Want("fixes", w.fixes, 6), Want("head", w.head, 5), TRUE)
        BY <2>5, <3>1, TitleBegins
      <3>3. ReadToken(Progress(w, a, u, Want("fixes", w.fixes, 6), Want("head", w.head, 5), TRUE), t)
              = Progress(w, a, u, Want("fixes", w.fixes, 6), Want("head", w.head, 5), TRUE)
        BY TitleStays
      <3> QED BY <2>5, <3>2, <3>3 DEF Got, a, u
    <2>6. ASSUME NEW m, Parse(m) = Got(w, FALSE) \/ Parse(m) = Got(w, TRUE)
          PROVE  ReadsAs(m, w)
      <3>1. ASSUME NEW x PROVE /\ Got(w, x).ref = Token("ref", w.ref, TRUE)
                               /\ Got(w, x).action = Token("action", 16, TRUE)
                               /\ Got(w, x).url = Token("url", w.url, TRUE)
                               /\ Got(w, x).fixes = Want("fixes", w.fixes, 6)
                               /\ Got(w, x).head = Want("head", w.head, 5)
        BY DEF Got, Progress
      <3> QED BY <2>6, <3>1 DEF ReadsAs
    <2>7. ASSUME w.title = 0 \/ w.lead \notin {"fixes", "head"}
          PROVE  ReadsAs(FullLine(w), w) /\ ReadsAs(full, w)
      <3>1. q = Got(w, FALSE) \/ q = Got(w, TRUE) BY <2>1, <2>7
      <3>2. ReadsAs(FullLine(w), w) BY <2>2, <2>6, <3>1
      <3> HIDE DEF full
      <3>3. Parse(full) = Got(w, FALSE) \/ Parse(full) = Got(w, TRUE)
        BY <2>3, <2>5, <3>1
      <3> QED BY <2>6, <3>2, <3>3
    <2> HIDE DEF full, line
    <2>8. line # NoLine => line = full BY <2>4
    <2>9. full # NoLine BY <1>0, <2>3
    <2> QED BY <2>3, <2>4, <2>7, <2>8, <2>9 DEF line
  <1> QED BY <1>1, <1>2

\* Nothing was announced, or what the function makes of the webhook.
LengthInv ==
    \/ webhook = NoLine /\ announceLine = NoLine
    \/ webhook \in Webhooks /\ announceLine = Announced(webhook)

\* The announcement makes the line of the webhook.
LEMMA LengthInvariant ==
    /\ LengthInit => LengthInv
    /\ LengthInv /\ [LengthNext]_lengthVars => LengthInv'
  <1>1. LengthInit => LengthInv BY DEF LengthInit, LengthInv
  <1>2. LengthInv /\ [LengthNext]_lengthVars => LengthInv'
    BY DEF LengthInv, LengthNext, Announce, lengthVars
  <1> QED BY <1>1, <1>2

\* A webhook and a line of words.
LEMMA LengthTypes == LengthInv => LengthTypeOK
  <1>1. CASE webhook = NoLine /\ announceLine = NoLine BY <1>1 DEF LengthTypeOK
  <1>2. CASE webhook \in Webhooks /\ announceLine = Announced(webhook)
    BY <1>2, AnnouncedReads DEF LengthTypeOK
  <1> QED BY <1>1, <1>2 DEF LengthInv

\* Whatever the lengths of the fields of a webhook (the constants), the line that
\* format_announce makes fits into what IRC carries, and the workers' parser finds
\* every field in it, or the ref in a compact one.
THEOREM LinesReadBack == LengthSpec => []LineReadsBack
  <1>1. LengthInv => LineReadsBack
    <2>1. CASE webhook = NoLine /\ announceLine = NoLine BY <2>1 DEF LineReadsBack
    <2>2. CASE webhook \in Webhooks /\ announceLine = Announced(webhook)
      BY <2>2, AnnouncedReads DEF LineReadsBack
    <2> QED BY <2>1, <2>2 DEF LengthInv
  <1> QED BY <1>1, LengthInvariant, PTL DEF LengthSpec

-----------------------------------------------------------------------------
(* The types of the variables.                                             *)

\* A function with one value changed is a function on the same set.
LEMMA StaysFunction ==
    ASSUME NEW S, NEW f, f = [x \in S |-> f[x]], NEW y, NEW v
    PROVE  LET g == [f EXCEPT ![y] = v] IN g = [x \in S |-> g[x]]
  <1>1. DOMAIN f = S OBVIOUS
  <1> QED BY <1>1

\* There is one view to be saved for each writer.
ViewPerWriter == unsaved = [a \in Writer |-> unsaved[a]]

\* Every step keeps them.
LEMMA ViewsStay == ViewPerWriter /\ [DigestNext]_digestVars => ViewPerWriter'
  <1> SUFFICES ASSUME ViewPerWriter, [DigestNext]_digestVars PROVE ViewPerWriter'
    OBVIOUS
  <1> DEFINE Changes == unsaved' = unsaved \/ \E a, v : unsaved' = [unsaved EXCEPT ![a] = v]
  <1>2. ASSUME NEW mc, Serve(mc) PROVE Changes BY <1>2, Zenon DEF Serve
  <1>3. ASSUME NEW a \in Writer, SaveDigest(a) PROVE Changes BY <1>3, Zenon DEF SaveDigest
  <1>4. ASSUME NEW s \in WorkSeat, Expire(s) PROVE Changes BY <1>4, Zenon DEF Expire
  <1>5. ASSUME NEW s, NEW row, ChairSets(s, row) \/ ServeState(s, row) PROVE Changes
    BY <1>2, <1>5, Zenon DEF ChairSets, ServeState
  <1>12. ASSUME NEW s, ServeDelete(s) PROVE Changes BY <1>2, <1>12, Zenon DEF ServeDelete
  <1>6. ASSUME NEW m, NEW n, NEW r, NEW t, ServeMerge(m, n, r, t) PROVE Changes
    BY <1>2, <1>6, Zenon DEF ServeMerge
  <1>7. ASSUME ServeShopDown \/ ServeExternal PROVE Changes
    BY <1>2, <1>7, Zenon DEF ServeShopDown, ServeExternal
  <1>8. ASSUME UNCHANGED digestVars PROVE Changes BY <1>8, Zenon DEF digestVars
  <1> HIDE DEF Changes
  <1>9. Changes BY <1>3, <1>4, <1>5, <1>6, <1>7, <1>8, <1>12, Zenon DEF DigestNext
  <1>10. CASE unsaved' = unsaved BY <1>10 DEF ViewPerWriter
  <1>11. ASSUME NEW a, NEW v, unsaved' = [unsaved EXCEPT ![a] = v] PROVE ViewPerWriter'
    BY <1>11, StaysFunction DEF ViewPerWriter
  <1> QED BY <1>9, <1>10, <1>11, Zenon DEF Changes

\* The table, the document and the views that are to be saved keep their types.
LEMMA DigestTypes == DigestSpec => []DigestTypeOK
  <1>1. DigestInv /\ ViewPerWriter => DigestTypeOK
    <2> SUFFICES ASSUME DigestInv, ViewPerWriter PROVE DigestTypeOK OBVIOUS
    <2>1. \A a \in Writer : unsaved[a] \in MachineView \cup {Unsaved} BY DEF DigestInv, TileStands
    <2>2. unsaved \in [Writer -> MachineView \cup {Unsaved}] BY <2>1 DEF ViewPerWriter
    <2> QED BY <2>2 DEF DigestInv, TileStands, DigestTypeOK
  <1>2. DigestInit => ViewPerWriter BY DEF DigestInit, ViewPerWriter
  <1> QED BY <1>1, <1>2, ViewsStay, DigestInitially, DigestSteps, PTL DEF DigestSpec

\* The parts of the focus that its order does not depend on.
FocusRest ==
    /\ clearing \in BOOLEAN
    /\ live \subseteq Item /\ finished \subseteq Item
    /\ focusCmds \in 0 .. MaxFocusCmds
    /\ edit = [t \in Thread |-> edit[t]]

\* They keep their types.
LEMMA FocusRestKept == FocusInv /\ FocusRest /\ [FocusNext]_focusVars => FocusRest'
  <1> SUFFICES ASSUME FocusInv, FocusRest, [FocusNext]_focusVars PROVE FocusRest'
    OBVIOUS
  <1> DEFINE Edits == edit' = [t \in Thread |-> edit'[t]]
  <1>0. ASSUME NEW t, NEW doc, edit' = [edit EXCEPT ![t] = doc] PROVE Edits
    BY <1>0, StaysFunction DEF FocusRest
  <1>1. ASSUME NEW t, NEW doc, Load(t, doc) PROVE Edits BY <1>0, <1>1, Zenon DEF Load
  <1>2. edit' = edit => Edits BY DEF FocusRest
  <1> HIDE DEF Edits
  <1>3. CASE Edits /\ UNCHANGED <<clearing, live, finished, focusCmds>>
    BY <1>3, Zenon DEF FocusRest, Edits
  <1>4. ASSUME NEW i \in Item, SetItem(i) PROVE FocusRest'
    <2>1. /\ clearing' = clearing /\ live' = live /\ finished' = finished
          /\ focusCmds < MaxFocusCmds /\ focusCmds' = focusCmds + 1
      BY <1>4, Zenon DEF SetItem
    <2>2. focusCmds' \in 0 .. MaxFocusCmds BY <2>1, FocusAssumption DEF FocusRest
    <2>3. Edits BY <1>1, <1>4, Zenon DEF SetItem
    <2> QED BY <2>1, <2>2, <2>3, Zenon DEF FocusRest, Edits
  <1>5. CASE UnfocusAll \/ ClearItems
    <2>1. Edits BY <1>1, <1>5, Zenon DEF UnfocusAll, ClearItems
    <2> QED BY <1>5, <2>1, Zenon DEF UnfocusAll, ClearItems, FocusRest, Edits
  <1>6. ASSUME NEW i \in Item, RowComes(i) \/ PullComes(i) \/ RowDone(i) PROVE FocusRest'
    <2>1. edit' = edit BY <1>6, Zenon DEF RowComes, PullComes, RowDone
    <2>2. live' \subseteq Item /\ finished' \subseteq Item
      BY <1>6 DEF RowComes, PullComes, RowDone, FocusRest
    <2> QED BY <1>2, <1>6, <2>1, <2>2, Zenon DEF RowComes, PullComes, RowDone, FocusRest, Edits
  <1>7. ASSUME NEW i \in Item, UnfocusItem(i) PROVE FocusRest'
    BY <1>1, <1>3, <1>7, Zenon DEF UnfocusItem
  <1>8. ASSUME NEW t \in Thread, Save(t) PROVE FocusRest' BY <1>0, <1>3, <1>8, Zenon DEF Save
  <1>9. ASSUME NEW t \in Thread, Purge(t) PROVE FocusRest' BY <1>1, <1>3, <1>9, Zenon DEF Purge
  <1>10. ASSUME NEW m \in moves, Retarget(m[1], m[2]) PROVE FocusRest'
    BY <1>1, <1>2, <1>3, <1>10, Zenon DEF Retarget
  <1>11. CASE SetRepoOrStrict BY <1>1, <1>3, <1>11, Zenon DEF SetRepoOrStrict
  <1>12. CASE UNCHANGED focusVars BY <1>2, <1>3, <1>12, Zenon DEF focusVars
  <1> QED BY <1>4, <1>5, <1>6, <1>7, <1>8, <1>9, <1>10, <1>11, <1>12, Zenon
          DEF FocusNext, FocusCommand

\* The document, its changes and the queue keep their types.
LEMMA FocusTypes == FocusSpec => []FocusTypeOK
  <1>1. FocusInit => FocusRest
    <2> SUFFICES ASSUME FocusInit PROVE FocusRest OBVIOUS
    <2>1. clearing \in BOOLEAN /\ edit = [t \in Thread |-> edit[t]] BY Zenon DEF FocusInit
    <2>2. live \subseteq Item /\ finished \subseteq Item /\ focusCmds \in 0 .. MaxFocusCmds
      BY FocusAssumption DEF FocusInit
    <2> QED BY <2>1, <2>2, Zenon DEF FocusRest
  <1>2. FocusInv /\ FocusRest => FocusTypeOK
    <2> SUFFICES ASSUME FocusInv, FocusRest PROVE FocusTypeOK OBVIOUS
    <2>1. \A t \in Thread : edit[t] \in FocusDoc \cup {NoEdit} BY DEF FocusInv, OrderedDoc
    <2>2. edit \in [Thread -> FocusDoc \cup {NoEdit}] BY <2>1 DEF FocusRest
    <2> QED BY <2>2, Zenon DEF FocusInv, OrderedDoc, FocusRest, FocusTypeOK
  <1> QED BY <1>1, <1>2, FocusInitially, FocusSteps, FocusRestKept, PTL DEF FocusSpec

\* The numbers of the outbox, within its bounds, and what is made of them.
OutboxNumbers ==
    /\ outboxLen \in 0 .. MaxLines /\ readLen \in 0 .. MaxLines
    /\ nextLine \in 1 .. MaxLines + 1 /\ settled \in 0 .. MaxLines
    /\ firstLen \in {NoOffset} \cup 0 .. MaxLines
    /\ outboxFaults \in 0 .. MaxOutboxFaults

OutboxLines ==
    /\ flood \in Seq(1 .. MaxLines)
    /\ announced \subseteq 1 .. MaxLines /\ dropped \subseteq 1 .. MaxLines

OutboxFlags ==
    /\ replay \in BOOLEAN /\ link \in BOOLEAN /\ torn \in BOOLEAN
    /\ drain \in {"off", "idle", "putting"}

OutboxRest == OutboxNumbers /\ OutboxLines /\ OutboxFlags

\* The numbers stay within their bounds.
LEMMA NumbersStay ==
    ASSUME OutboxInv, OutboxRest, [OutboxNext]_outboxVars
    PROVE  OutboxNumbers'
  <1> USE OutboxAssumption DEF OutboxNumbers
  <1>0. OutboxNumbers /\ OutboxTyped BY DEF OutboxRest, OutboxInv
  <1>1. ASSUME NEW n \in 1 .. MaxLines, NEW offset, Cutover(n, offset) PROVE OutboxNumbers'
    BY <1>0, <1>1 DEF Cutover
  <1>2. CASE AppendLine BY <1>0, <1>2 DEF AppendLine
  <1>3. ASSUME SaveFails PROVE outboxFaults' \in 0 .. MaxOutboxFaults
    BY <1>0, <1>3 DEF SaveFails
  <1>4. ASSUME NEW again \in BOOLEAN, StartOutbox(again) PROVE OutboxNumbers'
    <2> DEFINE n == Resolved(outboxLen, again)
    <2>1. n \in 0 .. outboxLen BY <1>0, ResolvedIsWithin
    <2>2. settled' \in 0 .. MaxLines
      <3>1. settled' = settled \/ settled' = n BY <1>4, Zenon DEF StartOutbox, SaveOffset
      <3> HIDE DEF n
      <3> QED BY <1>0, <2>1, <3>1
    <2>3. firstLen' \in {NoOffset} \cup 0 .. MaxLines BY <1>0, <1>4 DEF StartOutbox
    <2>4. outboxFaults' \in 0 .. MaxOutboxFaults
      <3>1. SaveFails \/ outboxFaults' = outboxFaults BY <1>4, Zenon DEF StartOutbox
      <3> QED BY <1>0, <1>3, <3>1
    <2>5. outboxLen' = outboxLen /\ readLen' = readLen /\ nextLine' = nextLine
      BY <1>4, Zenon DEF StartOutbox
    <2> QED BY <1>0, <2>2, <2>3, <2>4, <2>5
  <1>5. CASE ReadOutbox
    <2> DEFINE n == Resolved(outboxLen, replay)
    <2>0. replay \in BOOLEAN BY DEF OutboxRest, OutboxFlags
    <2>1. n \in 0 .. outboxLen BY <1>0, <2>0, ResolvedIsWithin
    <2>2. /\ settled' = settled \/ settled' = n
          /\ readLen' = outboxLen /\ nextLine' = n + 1
          /\ outboxLen' = outboxLen /\ firstLen' = firstLen /\ outboxFaults' = outboxFaults
      BY <1>5, Zenon DEF ReadOutbox, SaveOffset
    <2> HIDE DEF n
    <2> QED BY <1>0, <2>1, <2>2
  <1>6. CASE PutLine BY <1>0, <1>6 DEF PutLine
  <1>7. CASE EndDrain
    <2>1. /\ settled' = settled \/ settled' = readLen
          /\ SaveFails \/ outboxFaults' = outboxFaults
          /\ readLen' = readLen /\ nextLine' = nextLine
          /\ outboxLen' = outboxLen /\ firstLen' = firstLen
      BY <1>7, Zenon DEF EndDrain, SaveOffset
    <2> QED BY <1>0, <1>3, <2>1
  <1>8. CASE SendLine BY <1>0, <1>8, Zenon DEF SendLine
  <1>9. CASE LinkChanges BY <1>0, <1>9, Zenon DEF LinkChanges
  <1>10. CASE CrashOutbox BY <1>0, <1>10 DEF CrashOutbox
  <1>11. CASE UNCHANGED outboxVars BY <1>0, <1>11, Zenon DEF outboxVars
  <1> QED BY <1>1, <1>2, <1>4, <1>5, <1>6, <1>7, <1>8, <1>9, <1>10, <1>11, Zenon DEF OutboxNext

\* The elements of a sequence, its head and its tail.
LEMMA SeqParts ==
    ASSUME NEW S, NEW f \in Seq(S)
    PROVE  /\ \A k \in DOMAIN f : f[k] \in S
           /\ f # << >> => Head(f) \in S /\ Tail(f) \in Seq(S)
  <1>1. \A k \in DOMAIN f : f[k] \in S OBVIOUS
  <1>2. ASSUME f # << >> PROVE Head(f) \in S /\ Tail(f) \in Seq(S) BY <1>2
  <1> QED BY <1>1, <1>2

\* Only lines of the outbox are put, sent and lost.
LEMMA LinesStay ==
    ASSUME OutboxInv, OutboxRest, [OutboxNext]_outboxVars
    PROVE  OutboxLines'
  <1>0. OutboxLines /\ OutboxNumbers BY DEF OutboxRest
  <1>1. CASE UNCHANGED <<flood, announced, dropped>> BY <1>0, <1>1, Zenon DEF OutboxLines
  <1>2. CASE PutLine
    <2>1. nextLine \in 1 .. MaxLines
      BY <1>0, <1>2, OutboxAssumption DEF PutLine, OutboxNumbers
    <2>2. flood' = Append(flood, nextLine) /\ announced' = announced /\ dropped' = dropped
      BY <1>2, Zenon DEF PutLine
    <2> QED BY <1>0, <2>1, <2>2 DEF OutboxLines
  <1>3. CASE SendLine
    <2>1. /\ flood # << >> /\ flood' = Tail(flood)
          /\ announced' \subseteq announced \cup {Head(flood)}
          /\ dropped' \subseteq dropped \cup {Head(flood)}
      BY <1>3, Zenon DEF SendLine
    <2>2. Head(flood) \in 1 .. MaxLines /\ Tail(flood) \in Seq(1 .. MaxLines)
      BY <1>0, <2>1, SeqParts, Zenon DEF OutboxLines
    <2> QED BY <1>0, <2>1, <2>2 DEF OutboxLines
  <1>4. CASE CrashOutbox
    <2>1. flood' = << >> /\ announced' = announced /\ dropped' = dropped \cup {flood[k] : k \in DOMAIN flood}
      BY <1>4, Zenon DEF CrashOutbox
    <2>2. \A k \in DOMAIN flood : flood[k] \in 1 .. MaxLines
      BY <1>0, SeqParts, Zenon DEF OutboxLines
    <2>3. << >> \in Seq(1 .. MaxLines) OBVIOUS
    <2> QED BY <1>0, <2>1, <2>2, <2>3 DEF OutboxLines
  <1>5. ASSUME NEW n, NEW offset, Cutover(n, offset) PROVE OutboxLines'
    BY <1>1, <1>5, Zenon DEF Cutover
  <1>6. CASE AppendLine \/ ReadOutbox \/ EndDrain \/ LinkChanges
    BY <1>1, <1>6, Zenon DEF AppendLine, ReadOutbox, EndDrain, LinkChanges
  <1>7. ASSUME NEW again, StartOutbox(again) PROVE OutboxLines'
    BY <1>1, <1>7, Zenon DEF StartOutbox
  <1>8. CASE UNCHANGED outboxVars BY <1>1, <1>8, Zenon DEF outboxVars
  <1> QED BY <1>2, <1>3, <1>4, <1>5, <1>6, <1>7, <1>8, Zenon DEF OutboxNext

\* The flags stay flags.
LEMMA FlagsStay ==
    ASSUME OutboxFlags, [OutboxNext]_outboxVars
    PROVE  OutboxFlags'
  <1> USE DEF OutboxFlags
  <1>1. ASSUME SaveFails PROVE torn' \in BOOLEAN BY <1>1, Zenon DEF SaveFails
  <1>2. ASSUME NEW again \in BOOLEAN, StartOutbox(again) PROVE OutboxFlags'
    BY <1>1, <1>2, Zenon DEF StartOutbox
  <1>3. CASE EndDrain BY <1>1, <1>3, Zenon DEF EndDrain
  <1>4. CASE CrashOutbox BY <1>4, Zenon DEF CrashOutbox
  <1>5. ASSUME NEW n, NEW offset, Cutover(n, offset) PROVE OutboxFlags' BY <1>5, Zenon DEF Cutover
  <1>6. CASE AppendLine \/ PutLine \/ SendLine BY <1>6, Zenon DEF AppendLine, PutLine, SendLine
  <1>7. CASE ReadOutbox BY <1>7, Zenon DEF ReadOutbox
  <1>8. CASE LinkChanges BY <1>8, Zenon DEF LinkChanges
  <1>9. CASE UNCHANGED outboxVars BY <1>9, Zenon DEF outboxVars
  <1> QED BY <1>2, <1>3, <1>4, <1>5, <1>6, <1>7, <1>8, <1>9, Zenon DEF OutboxNext

\* The outbox, its offset and what was sent keep their types.
LEMMA OutboxTypes == OutboxSpec => []OutboxTypeOK
  <1>1. OutboxInit => OutboxRest
    <2> SUFFICES ASSUME OutboxInit PROVE OutboxRest OBVIOUS
    <2>1. OutboxNumbers BY OutboxAssumption DEF OutboxInit, OutboxNumbers
    <2>2. OutboxLines BY DEF OutboxInit, OutboxLines
    <2>3. OutboxFlags BY Zenon DEF OutboxInit, OutboxFlags
    <2> QED BY <2>1, <2>2, <2>3 DEF OutboxRest
  <1>2. OutboxInv /\ OutboxRest /\ [OutboxNext]_outboxVars => OutboxRest'
    BY NumbersStay, LinesStay, FlagsStay DEF OutboxRest
  <1>3. OutboxInv /\ OutboxRest => OutboxTypeOK
    <2> SUFFICES ASSUME OutboxInv, OutboxRest PROVE OutboxTypeOK OBVIOUS
    <2>1. posFile \in Offset /\ legacyPos \in Offset
      <3>1. posFile \in {NoOffset} \cup 0 .. outboxLen /\ legacyPos \in Offset /\ outboxLen \in Nat
        BY DEF OutboxInv, OutboxTyped
      <3> QED BY <3>1 DEF Offset
    <2> QED BY <2>1, Zenon DEF OutboxRest, OutboxNumbers, OutboxLines, OutboxFlags, OutboxTypeOK
  <1> QED BY <1>1, <1>2, <1>3, OutboxInitially, OutboxSteps, PTL DEF OutboxSpec
=============================================================================
