----------------------------- MODULE LengthSafe -----------------------------
(***************************************************************************)
(* The line that announces a webhook (FR #24): the fields that the next    *)
(* step needs first, in a fixed order, then as much of the title as fits,  *)
(* checked before it is sent with the parser that the workers use.  When   *)
(* the fields alone are too long a compact line is sent instead.           *)
(*                                                                         *)
(* A token is its kind and its bytes.  A title is the kind of its first    *)
(* word and its bytes.  "own" tells a field from a word of the title that  *)
(* looks like one.  Events: issues and pull requests, which always have an *)
(* action and a url; lines of other events are not read by a parser.       *)
(***************************************************************************)
EXTENDS Naturals, Sequences

CONSTANTS
    LineMax,        \* IRC_LINE_MAX_BYTES
    PrefixBytes,    \* irc_prefix_bytes
    SoftMax,        \* DEFAULT_PRIVMSG_TEXT_MAX
    RefBytes, UrlBytes, FixesBytes, HeadBytes, TitleBytes, ActorBytes,
                    \* the lengths of the fields; 0 for an empty one
    NoLine          \* nothing is sent

Smaller(a, b) == IF a < b THEN a ELSE b

TextBudget == Smaller(LineMax - PrefixBytes, SoftMax)

UrlMax == 64        \* short_url, without the scheme

\* A word of a line: what it is to the parser, its bytes, and whether it is a
\* field of the webhook or a part of its title or actor.
TokenKind == {"git", "event", "task", "ref", "action", "url", "fixes", "head", "word"}

Word == [kind : TokenKind, n : Nat, own : BOOLEAN]

\* GitHub's limits on names leave room for every compact line.
ASSUME LengthAssumption ==
    /\ LineMax \in Nat /\ PrefixBytes \in Nat /\ SoftMax \in Nat
    /\ PrefixBytes < LineMax
    /\ \A s \in {RefBytes, UrlBytes, FixesBytes, HeadBytes, TitleBytes, ActorBytes} : s \subseteq Nat
    /\ \A r \in RefBytes : r + UrlMax + 9 <= TextBudget
    /\ \A u \in UrlBytes : u > 8
    /\ NoLine \notin Seq(Word)

VARIABLES
    webhook,        \* the webhook that is announced
    announceLine    \* the tokens of its line, or NoLine

lengthVars == <<webhook, announceLine>>

\* What the first word of a title looks like to the parser.
Lead == {"word", "url", "fixes", "head"}

\* vital_from_github: an issue has no linked issue and no branch.
Webhooks ==
    {w \in [event : {"issues", "pull_request"}, ref : RefBytes, url : UrlBytes,
            fixes : FixesBytes, head : HeadBytes, title : TitleBytes, lead : Lead,
            actor : ActorBytes] :
        /\ w.event = "issues" => w.fixes = 0 /\ w.head = 0
        /\ w.title = 0 => w.lead = "word"}

-----------------------------------------------------------------------------
(* Building a line.                                                        *)

Token(kind, n, own) == [kind |-> kind, n |-> n, own |-> own]

Field(kind, n, mark) == IF n = 0 THEN << >> ELSE <<Token(kind, mark + n, TRUE)>>

\* One space between two tokens (_join_tokens).
Bytes(line) ==
    LET upTo[i \in 0 .. Len(line)] == IF i = 0 THEN 0 ELSE upTo[i - 1] + line[i].n + 1
    IN  upTo[Len(line)] - 1

\* format_vital_core without the title
Core(w) ==
    << Token("git", 3, TRUE), Token("event", IF w.event = "issues" THEN 6 ELSE 12, TRUE),
       Token("task", 3, TRUE), Token("ref", w.ref, TRUE), Token("action", 16, TRUE) >>
    \o Field("url", w.url, 0) \o Field("fixes", w.fixes, 6) \o Field("head", w.head, 5)

Compact(w) ==
    << Token("git", 3, TRUE), Token("task", 3, TRUE), Token("ref", w.ref, TRUE),
       Token("url", Smaller(w.url - 8, UrlMax), TRUE) >>

\* truncate_utf8
Cut(n, room) == Smaller(n, room)

Title(w) ==
    LET used == Bytes(Core(w)) + 1
    IN  IF w.title = 0 \/ used >= TextBudget THEN << >>
        ELSE <<Token(w.lead, Cut(w.title, TextBudget - used), FALSE)>>

\* The variant that puts the title before the url.
FullLineTitleFirst(w) == SubSeq(Core(w), 1, 5) \o Title(w) \o SubSeq(Core(w), 6, Len(Core(w)))

FullLine(w) == Core(w) \o Title(w)

-----------------------------------------------------------------------------
(* Reading a line (parse_announce).                                        *)

NoToken == Token("none", 0, TRUE)

IsFull(line) == line[2].kind = "event"

\* The tokens after the ref, until one that starts the title.
ReadToken(r, t) ==
    IF r.inTitle THEN r
    ELSE CASE t.kind = "fixes" -> [r EXCEPT !.fixes = t]
           [] t.kind = "head" -> [r EXCEPT !.head = t]
           [] t.kind \in {"action", "word"} /\ r.action = NoToken -> [r EXCEPT !.action = t]
           [] t.kind = "url" /\ r.url = NoToken -> [r EXCEPT !.url = t]
           [] OTHER -> [r EXCEPT !.inTitle = TRUE]

Parse(line) ==
    LET at == IF IsFull(line) THEN 4 ELSE 3
        none == [task |-> line[at - 1], ref |-> line[at], action |-> NoToken, url |-> NoToken,
                 fixes |-> NoToken, head |-> NoToken, inTitle |-> FALSE]
        upTo[i \in 0 .. Len(line)] == IF i <= at THEN none ELSE ReadToken(upTo[i - 1], line[i])
    IN  upTo[Len(line)]

Want(kind, n, mark) == IF n = 0 THEN NoToken ELSE Token(kind, mark + n, TRUE)

\* vital_core_equal
ReadsAs(line, w) ==
    LET r == Parse(line)
    IN  /\ r.ref = Token("ref", w.ref, TRUE)
        /\ r.action = Token("action", 16, TRUE)
        /\ r.url = Token("url", w.url, TRUE)
        /\ r.fixes = Want("fixes", w.fixes, 6)
        /\ r.head = Want("head", w.head, 5)

-----------------------------------------------------------------------------
(* format_announce and format_github_webhook_announce.                     *)

\* The actor is added after the check, if the line stays below the limit.
WithActor(line, w) ==
    LET longer == line \o <<Token("word", 2, FALSE), Token("word", w.actor, FALSE)>>
    IN  IF w.actor > 0 /\ PrefixBytes + Bytes(longer) <= LineMax THEN longer ELSE line

Announced(w) ==
    IF Bytes(Core(w)) > TextBudget THEN WithActor(Compact(w), w)
    ELSE IF ReadsAs(FullLine(w), w) THEN WithActor(FullLine(w), w)
    ELSE NoLine

LengthInit == webhook = NoLine /\ announceLine = NoLine

Announce(w) ==
    /\ webhook = NoLine
    /\ webhook' = w
    /\ announceLine' = Announced(w)

LengthNext == \E w \in Webhooks : Announce(w)

LengthSpec == LengthInit /\ [][LengthNext]_lengthVars

LengthTypeOK ==
    /\ webhook \in Webhooks \cup {NoLine}
    /\ announceLine # NoLine => announceLine \in Seq(Word)

-----------------------------------------------------------------------------
Fits(line) == PrefixBytes + Bytes(line) <= LineMax

\* Whatever the lengths of the fields, a line fits into what IRC carries,
\* neither the cut title nor the actor added after the check cuts it off, and
\* the workers' parser finds its fields: all of them, or the ref when they are
\* too long together.  Only a title that begins with "fixes:" or "head:"
\* suppresses the line.
LineReadsBack ==
    /\ announceLine # NoLine => Fits(announceLine)
    /\ webhook # NoLine /\ (webhook.title = 0 \/ webhook.lead \notin {"fixes", "head"}) =>
           /\ announceLine # NoLine
           /\ IF IsFull(announceLine)
              THEN ReadsAs(announceLine, webhook)
              ELSE Parse(announceLine).ref = Token("ref", webhook.ref, TRUE)
=============================================================================
