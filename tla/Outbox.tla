------------------------------- MODULE Outbox -------------------------------
(***************************************************************************)
(* Announcements: the receiver appends lines to chair-outbox.txt, the      *)
(* chair drains the file from the offset saved in chair-outbox.pos into    *)
(* the flood queue, and a thread of its own sends the queue to IRC.        *)
(*                                                                         *)
(* A line is its number in the file, an offset the number of lines before  *)
(* it.  The file only grows.  The file holding the offset is written in    *)
(* place: a crash or an error in the middle leaves it empty, which counts  *)
(* as missing.                                                             *)
(***************************************************************************)
EXTENDS Integers, Sequences, FiniteSets

CONSTANTS
    MaxLines,       \* bound: lines in the outbox
    MaxOutboxFaults,\* bound: crashes and failed saves
    NoOffset        \* a pos file that is missing, empty or no number

ASSUME OutboxAssumption ==
    /\ MaxLines \in Nat
    /\ MaxOutboxFaults \in Nat
    /\ NoOffset \notin Int

VARIABLES
    outboxLen,      \* chair-outbox.txt
    posFile,        \* chair-outbox.pos
    legacyPos,      \* chair-outbox.txt.pos, of the program used before
    replay,         \* --replay-outbox
    drain,          \* the chair's drain: off, idle or putting
    readLen,        \* the size of the file as the drain read it
    nextLine,       \* the next line to put into the flood queue
    flood,          \* the flood queue
    announced,      \* the lines sent
    link,           \* the connection is up
    dropped,        \* history: lines lost between the flood queue and IRC
    settled,        \* history: the largest offset saved since a replay
    firstLen,       \* history: the size of the file at the first start
    torn,           \* history: a failed save left no offset
    outboxFaults

outboxVars == <<outboxLen, posFile, legacyPos, replay, drain, readLen, nextLine,
                flood, announced, link, dropped, settled, firstLen, torn, outboxFaults>>

Offset == {NoOffset} \cup Int

OutboxTypeOK ==
    /\ outboxLen \in 0 .. MaxLines
    /\ posFile \in Offset
    /\ legacyPos \in Offset
    /\ replay \in BOOLEAN
    /\ drain \in {"off", "idle", "putting"}
    /\ readLen \in 0 .. MaxLines
    /\ nextLine \in 1 .. MaxLines + 1
    /\ flood \in Seq(1 .. MaxLines)
    /\ announced \subseteq 1 .. MaxLines
    /\ link \in BOOLEAN
    /\ dropped \subseteq 1 .. MaxLines
    /\ settled \in 0 .. MaxLines
    /\ firstLen \in {NoOffset} \cup 0 .. MaxLines
    /\ torn \in BOOLEAN
    /\ outboxFaults \in 0 .. MaxOutboxFaults

OutboxInit ==
    /\ outboxLen = 0
    /\ posFile = NoOffset
    /\ legacyPos = NoOffset
    /\ replay = FALSE
    /\ drain = "off"
    /\ readLen = 0
    /\ nextLine = 1
    /\ flood = << >>
    /\ announced = {}
    /\ link = TRUE
    /\ dropped = {}
    /\ settled = 0
    /\ firstLen = NoOffset
    /\ torn = FALSE
    /\ outboxFaults = 0

-----------------------------------------------------------------------------
\* The variant that takes a missing or a negative offset for 0.
ResolvedFromStart(size, again) ==
    LET saved == IF posFile # NoOffset THEN posFile ELSE legacyPos
    IN  IF saved = NoOffset \/ saved < 0 THEN 0
        ELSE IF saved > size THEN size
        ELSE saved

\* The variant that takes the number in the pos file as it is.
ResolvedUnclamped(size, again) ==
    LET saved == IF posFile # NoOffset THEN posFile ELSE legacyPos
    IN  IF saved = NoOffset THEN (IF again THEN 0 ELSE size) ELSE saved

\* resolve_outbox_start, which also saves what it returns: the own pos file,
\* else the one of the program used before, else the end of the file; clamped.
Resolved(size, again) ==
    LET saved == IF posFile # NoOffset THEN posFile ELSE legacyPos
    IN  IF saved = NoOffset \/ saved < 0 THEN (IF again THEN 0 ELSE size)
        ELSE IF saved > size THEN size
        ELSE saved

\* Saving an offset (write_pos).
SaveOffset(n, again) ==
    /\ posFile' = n
    /\ settled' = IF n > settled \/ again THEN n ELSE settled

\* The save fails before the file is opened, or after it was emptied.
SaveFails ==
    /\ outboxFaults < MaxOutboxFaults
    /\ outboxFaults' = outboxFaults + 1
    /\ posFile' \in {posFile, NoOffset}
    /\ torn' = (torn \/ posFile' = NoOffset)

\* The home is taken over from the program used before, with n lines and the
\* offset file it left.
Cutover(n, offset) ==
    /\ firstLen = NoOffset
    /\ outboxLen = 0
    /\ outboxLen' = n
    /\ legacyPos' = offset
    /\ UNCHANGED <<posFile, replay, drain, readLen, nextLine, flood, announced, link,
                   dropped, settled, firstLen, torn, outboxFaults>>

\* append_outbox, by the receiver's or the resync's thread
AppendLine ==
    /\ outboxLen < MaxLines
    /\ outboxLen' = outboxLen + 1
    /\ UNCHANGED <<posFile, legacyPos, replay, drain, readLen, nextLine, flood, announced,
                   link, dropped, settled, firstLen, torn, outboxFaults>>

StartOutbox(again) ==
    /\ drain = "off"
    /\ drain' = "idle"
    /\ replay' = again
    /\ firstLen' = IF firstLen = NoOffset THEN outboxLen ELSE firstLen
    /\ \/ SaveOffset(Resolved(outboxLen, again), again) /\ UNCHANGED <<torn, outboxFaults>>
       \/ SaveFails /\ UNCHANGED settled     \* __init__ passes over the error
    /\ UNCHANGED <<outboxLen, legacyPos, readLen, nextLine, flood, announced, link, dropped>>

\* _drain_outbox: read the whole file, resolve the offset
ReadOutbox ==
    /\ drain = "idle"
    /\ outboxLen > 0
    /\ drain' = "putting"
    /\ readLen' = outboxLen
    /\ nextLine' = Resolved(outboxLen, replay) + 1
    /\ SaveOffset(Resolved(outboxLen, replay), replay)
    /\ UNCHANGED <<outboxLen, legacyPos, replay, flood, announced, link, dropped, firstLen,
                   torn, outboxFaults>>

PutLine ==
    /\ drain = "putting"
    /\ nextLine <= readLen
    /\ flood' = Append(flood, nextLine)
    /\ nextLine' = nextLine + 1
    /\ UNCHANGED <<outboxLen, posFile, legacyPos, replay, drain, readLen, announced, link,
                   dropped, settled, firstLen, torn, outboxFaults>>

\* The variant that saves the size the file has by now.
EndDrainAtEof ==
    /\ drain = "putting"
    /\ nextLine > readLen
    /\ drain' = "idle"
    /\ SaveOffset(outboxLen, replay) /\ UNCHANGED <<torn, outboxFaults>>
    /\ UNCHANGED <<outboxLen, legacyPos, replay, readLen, nextLine, flood, announced, link,
                   dropped, firstLen>>

EndDrain ==
    /\ drain = "putting"
    /\ nextLine > readLen
    /\ drain' = "idle"
    /\ \/ SaveOffset(readLen, replay) /\ UNCHANGED <<torn, outboxFaults>>
       \/ SaveFails /\ UNCHANGED settled     \* _run logs the error and goes on
    /\ UNCHANGED <<outboxLen, legacyPos, replay, readLen, nextLine, flood, announced, link,
                   dropped, firstLen>>

\* The flood queue's thread: a send that fails is counted and not tried again.
SendLine ==
    /\ drain # "off"
    /\ flood # << >>
    /\ flood' = Tail(flood)
    /\ IF link
       THEN announced' = announced \cup {Head(flood)} /\ UNCHANGED dropped
       ELSE dropped' = dropped \cup {Head(flood)} /\ UNCHANGED announced
    /\ UNCHANGED <<outboxLen, posFile, legacyPos, replay, drain, readLen, nextLine, link,
                   settled, firstLen, torn, outboxFaults>>

LinkChanges ==
    /\ link' = ~link
    /\ UNCHANGED <<outboxLen, posFile, legacyPos, replay, drain, readLen, nextLine, flood,
                   announced, dropped, settled, firstLen, torn, outboxFaults>>

\* The process stops, between two steps or while it saves the offset; the flood
\* queue is in its memory.
CrashOutbox ==
    /\ drain # "off"
    /\ outboxFaults < MaxOutboxFaults
    /\ outboxFaults' = outboxFaults + 1
    /\ drain' = "off"
    /\ flood' = << >>
    /\ dropped' = dropped \cup {flood[k] : k \in DOMAIN flood}
    /\ posFile' \in {posFile} \cup (IF drain = "putting" THEN {NoOffset} ELSE {})
    /\ torn' = (torn \/ posFile' = NoOffset)
    /\ UNCHANGED <<outboxLen, legacyPos, replay, readLen, nextLine, announced, link, settled,
                   firstLen>>

OutboxNext ==
    \/ \E n \in 1 .. MaxLines, offset \in {NoOffset, -1} \cup 0 .. MaxLines : Cutover(n, offset)
    \/ AppendLine
    \/ \E again \in BOOLEAN : StartOutbox(again)
    \/ ReadOutbox
    \/ PutLine
    \/ EndDrain
    \/ SendLine
    \/ LinkChanges
    \/ CrashOutbox

OutboxSpec == OutboxInit /\ [][OutboxNext]_outboxVars

-----------------------------------------------------------------------------
Requeues == Len(flood') > Len(flood) /\ nextLine <= settled

\* No line before an offset that was saved, or that a start parked at, is put
\* into the flood queue again unless --replay-outbox asks for it: not after a
\* crash, a save cut off, or a pos file of nonsense (resolve_outbox_start); but
\* a legacy pos file, which migration leaves where it is, is read again once
\* the own pos file is gone.
NoReplay == [][Requeues => torn /\ legacyPos # NoOffset]_outboxVars

\* As long as no failed save left the home without an offset, every line that came after the first start
\* is announced, waits in the flood queue or in the file, or was dropped by a
\* send that failed or a crash; none is passed over by the drain.
LinesAccounted ==
    firstLen # NoOffset /\ ~torn =>
        \A l \in firstLen + 1 .. outboxLen :
            \/ l \in announced \cup dropped
            \/ \E k \in DOMAIN flood : flood[k] = l
            \/ IF drain = "putting" THEN l >= nextLine ELSE posFile = NoOffset \/ l > posFile
=============================================================================
