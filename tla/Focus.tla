-------------------------------- MODULE Focus --------------------------------
(***************************************************************************)
(* focus.json: the items and repositories that the owner wants first.  Two *)
(* threads load it, change it and save it, without a lock: the chair, for  *)
(* !focus, !unfocus, !list and !bored, and the receiver, for webhooks and  *)
(* for every digest it serves (list_item_focus_entries purges).  A save    *)
(* writes all of the document as it was loaded.                            *)
(*                                                                         *)
(* The two spellings of an item, with and without the owner, are one item; *)
(* labels and times are left out, and so are the repositories and the      *)
(* strict flag, but not the saves that change them.  A purge compares the  *)
(* document with the queue as it is when the document is loaded.           *)
(***************************************************************************)
EXTENDS Naturals, FiniteSets

CONSTANTS
    Item,           \* the issues and pull requests that are focused
    Succeeds,       \* the issues that the pull request of an item closes
    MaxFocusCmds,   \* bound: commands that set a focus
    NoEdit          \* the thread is not between a load and a save

ASSUME FocusAssumption ==
    /\ Succeeds \in [Item -> SUBSET Item]
    /\ MaxFocusCmds \in Nat

Thread == {"chair", "receiver"}

\* rank: 0 for an item without focus; counted: the items whose rank is the
\* counter's, not one that the owner named.
FocusDoc == [rank : [Item -> 0 .. MaxFocusCmds], counted : SUBSET Item,
             seq : 0 .. MaxFocusCmds]

EmptyFocus == [rank |-> [i \in Item |-> 0], counted |-> {}, seq |-> 0]

VARIABLES
    focus,          \* focus.json
    edit,           \* what each thread is about to save
    clearing,       \* the chair is between the two saves of !unfocus all
    moves,          \* the items whose focus the receiver has still to move: old, new
    live,           \* items with a waiting or accepted row
    finished,       \* items with a row in done
    focusCmds

focusVars == <<focus, edit, clearing, moves, live, finished, focusCmds>>

FocusTypeOK ==
    /\ focus \in FocusDoc
    /\ edit \in [Thread -> FocusDoc \cup {NoEdit}]
    /\ clearing \in BOOLEAN
    /\ moves \subseteq Item \X Item
    /\ live \subseteq Item /\ finished \subseteq Item
    /\ focusCmds \in 0 .. MaxFocusCmds

FocusInit ==
    /\ focus = EmptyFocus
    /\ edit = [t \in Thread |-> NoEdit]
    /\ clearing = FALSE
    /\ moves = {}
    /\ live = {} /\ finished = {}
    /\ focusCmds = 0

-----------------------------------------------------------------------------
(* Changes of the document.                                                *)

Focused(doc) == {i \in Item : doc.rank[i] # 0}

Without(doc, items) ==
    [rank    |-> [i \in Item |-> IF i \in items THEN 0 ELSE doc.rank[i]],
     counted |-> doc.counted \ items,
     seq     |-> doc.seq]

WithRank(doc, i, r, counted) ==
    [rank    |-> [doc.rank EXCEPT ![i] = r],
     counted |-> IF counted THEN doc.counted \cup {i} ELSE doc.counted \ {i},
     seq     |-> doc.seq]

\* The variant that does not save the counter.
LastUncounted(doc, i) == WithRank(doc, i, doc.seq + 1, TRUE)

\* set_item_focus without a rank
Last(doc, i) == [WithRank(doc, i, doc.seq + 1, TRUE) EXCEPT !.seq = @ + 1]

\* retarget_item_focus
Moved(doc, old, new) == WithRank(Without(doc, {old}), new, doc.rank[old], old \in doc.counted)

\* The variant of the purge that keeps the items it does not find in the queue.
GhostUnseen(doc) == {i \in Focused(doc) \cap finished : i \in live}

\* purge_stale_item_focus: done, and not in the queue again
Ghosts(doc) == {i \in Focused(doc) \cap finished : i \notin live}

-----------------------------------------------------------------------------
(* Load and save.                                                          *)

Load(t, doc) ==
    /\ edit[t] = NoEdit
    /\ edit' = [edit EXCEPT ![t] = doc]

Save(t) ==
    /\ edit[t] # NoEdit
    /\ focus' = edit[t]
    /\ edit' = [edit EXCEPT ![t] = NoEdit]
    /\ UNCHANGED <<clearing, moves, live, finished, focusCmds>>

SetItem(i) ==
    /\ ~clearing
    /\ focusCmds < MaxFocusCmds /\ focusCmds' = focusCmds + 1
    /\ \/ focus.seq < MaxFocusCmds /\ Load("chair", Last(focus, i))
       \/ \E r \in 1 .. MaxFocusCmds : Load("chair", WithRank(focus, i, r, FALSE))
    /\ UNCHANGED <<focus, clearing, moves, live, finished>>

UnfocusItem(i) ==
    /\ ~clearing
    /\ focus.rank[i] # 0
    /\ Load("chair", Without(focus, {i}))
    /\ UNCHANGED <<focus, clearing, moves, live, finished, focusCmds>>

\* set_focus, remove_focus, set_strict_focus: the items are saved as loaded.
SetRepoOrStrict ==
    /\ ~clearing
    /\ Load("chair", focus)
    /\ UNCHANGED <<focus, clearing, moves, live, finished, focusCmds>>

\* !unfocus all: the repositories are saved, then the items.
UnfocusAll ==
    /\ ~clearing
    /\ Load("chair", focus)
    /\ clearing' = TRUE
    /\ UNCHANGED <<focus, moves, live, finished, focusCmds>>

ClearItems ==
    /\ clearing
    /\ Load("chair", [Without(focus, Item) EXCEPT !.seq = 0])
    /\ clearing' = FALSE
    /\ UNCHANGED <<focus, moves, live, finished, focusCmds>>

\* !list, !bored and !focus in the chair; a digest in the receiver
Purge(t) ==
    /\ t = "chair" => ~clearing
    /\ t = "receiver" => moves = {}
    /\ Ghosts(focus) # {}
    /\ Load(t, Without(focus, Ghosts(focus)))
    /\ UNCHANGED <<focus, clearing, moves, live, finished, focusCmds>>

\* upsert of an MRB row, after the queue is saved: one load and save per issue
Retarget(old, new) ==
    /\ <<old, new>> \in moves
    /\ moves' = moves \ {<<old, new>>}
    /\ IF focus.rank[old] = 0
       THEN UNCHANGED edit
       ELSE Load("receiver", Moved(focus, old, new))
    /\ edit["receiver"] = NoEdit
    /\ UNCHANGED <<focus, clearing, live, finished, focusCmds>>

-----------------------------------------------------------------------------
(* The queue.                                                              *)

RowComes(i) ==
    /\ i \notin live
    /\ Succeeds[i] = {}
    /\ live' = live \cup {i}
    /\ UNCHANGED <<focus, edit, clearing, moves, finished, focusCmds>>

\* A pull request: its row replaces those of the issues it closes.
PullComes(p) ==
    /\ Succeeds[p] # {} /\ p \notin live
    /\ edit["receiver"] = NoEdit /\ moves = {}
    /\ live' = (live \ Succeeds[p]) \cup {p}
    /\ moves' = Succeeds[p] \X {p}
    /\ UNCHANGED <<focus, edit, clearing, finished, focusCmds>>

RowDone(i) ==
    /\ i \in live
    /\ live' = live \ {i}
    /\ finished' = finished \cup {i}
    /\ UNCHANGED <<focus, edit, clearing, moves, focusCmds>>

\* _handle_focus_cmds: who may not change the focus changes nothing.
FocusCommand ==
    \/ \E i \in Item : SetItem(i) \/ UnfocusItem(i)
    \/ SetRepoOrStrict
    \/ UnfocusAll
    \/ ClearItems

FocusNext ==
    \/ FocusCommand
    \/ \E t \in Thread : Save(t) \/ Purge(t)
    \/ \E i \in Item : RowComes(i) \/ PullComes(i) \/ RowDone(i)
    \/ \E m \in moves : Retarget(m[1], m[2])

FocusSpec == FocusInit /\ [][FocusNext]_focusVars

\* Threads go on, and the digest is served again and again.
FairFocusSpec ==
    /\ FocusSpec
    /\ \A t \in Thread : WF_focusVars(Save(t))
    /\ WF_focusVars(ClearItems)
    /\ SF_focusVars(Purge("receiver"))
    /\ WF_focusVars(\E m \in moves : Retarget(m[1], m[2]))

-----------------------------------------------------------------------------
\* Of two items that were focused without a rank the one focused first comes
\* first: whatever the threads overwrite, no two have the same rank and the
\* next one comes after them all.
RanksInOrder ==
    \A i, j \in focus.counted :
        /\ focus.rank[i] \in 1 .. focus.seq
        /\ i # j => focus.rank[i] # focus.rank[j]

\* The focus of a finished item is gone in the end, also when the other thread
\* saves an old document over a purge, or moves the focus to the item late.
GhostsGo ==
    \A i \in Item :
        <>[](i \in finished \ live /\ edit["chair"] = NoEdit) => <>[](focus.rank[i] = 0)
=============================================================================
