------------------------------ MODULE LogPages ------------------------------
(***************************************************************************)
(* The log pages of luci-app-kiwi, luci-app-panda and luci-app-sheep: a    *)
(* poll that replaces the lines, a toolbar that searches, turns, pauses    *)
(* and clears, over the log in the router and its clear command.           *)
(* Lines are numbered as they are logged; Note is a message of the page.   *)
(***************************************************************************)
EXTENDS Integers, Sequences, SequencesExt

CONSTANTS
    MaxLines,       \* __maxLines
    Ring,           \* kiwi lines that the system log holds
    Window,         \* whole lines in the last 64 KiB of sheep's log
    MaxLog,         \* lines ever logged: a bound of the model
    MaxActs         \* clicks and failures: a bound of the model

\* The page holds a message, and the ring the lines that are there at first.
ASSUME LogAssumption ==
    /\ MaxLines \in Nat \ {0} /\ MaxActs \in Nat
    /\ Ring \in Nat /\ Ring >= 2 /\ Window \in Nat \ {0}

VARIABLES
    app,            \* the page: "kiwi", "panda" or "sheep"
    log,            \* the router's log
    logged,         \* history: number of the last line
    mark,           \* kiwi: lines that get_log skips
    cleared,        \* history: number of the last line of the cleared log
    rotated,        \* history: the system log dropped a line since the last clear
    lines, shown,   \* __logLines and what is on the screen
    bar,            \* the toolbar: paused, reverse, search
    asked,          \* requests on their way: the poll and the first fetch of sheep
    clear,          \* the clear button: "no", "sent", "ok", "refused", "exec" or "failed"
    acts

logVars == <<app, log, logged, mark, cleared, rotated, lines, shown, bar, asked, clear, acts>>
routerLog == <<log, logged, mark, cleared, rotated>>

Note == 0               \* an error message or "log cleared"
Blank == -1             \* the empty piece after the last separator
Torn == -2              \* the rest of a line cut off by tail -c
Slots == {"poll", "first"}
Nothing == [state |-> "no", text |-> <<>>]

-----------------------------------------------------------------------------
(* The router                                                              *)

LastN(s, n) == SubSeq(s, (IF Len(s) > n THEN Len(s) - n ELSE 0) + 1, Len(s))

\* Mutant: one line more skipped.
SkipOneMore == IF mark >= Len(log) THEN 0 ELSE mark + 1

\* luci.kiwi get_log: the mark counts as passed when it is reached.
Skip == IF mark >= Len(log) THEN 0 ELSE mark

\* luci.sheep getLog: the end of a log that is longer, with the rest of a line before it.
Tailed == IF Len(log) > Window THEN <<Torn>> \o LastN(log, Window) ELSE log

\* panda's page reads the file itself, all of it.
Content ==
    CASE app = "kiwi" -> SubSeq(log, Skip + 1, Len(log))
      [] app = "sheep" -> Tailed
      [] OTHER -> log

\* A line of the daemon; the system log of kiwi is a ring.
LogLine ==
    /\ logged < MaxLog /\ logged' = logged + 1
    /\ log' = IF app = "kiwi" THEN LastN(Append(log, logged'), Ring) ELSE Append(log, logged')
    /\ rotated' = (rotated \/ (app = "kiwi" /\ Len(log) = Ring))
    /\ UNCHANGED <<app, mark, cleared, lines, shown, bar, asked, clear, acts>>

Act == acts < MaxActs /\ acts' = acts + 1

\* The lines of other daemons push one of kiwi's out of the ring.
OtherLines ==
    /\ Act /\ app = "kiwi" /\ log # <<>>
    /\ log' = Tail(log) /\ rotated' = TRUE
    /\ UNCHANGED <<app, logged, mark, cleared, lines, shown, bar, asked, clear>>

\* clear_log of kiwi sets the mark, the others truncate the file.
Cleared ==
    /\ cleared' = logged /\ rotated' = FALSE
    /\ IF app = "kiwi" THEN mark' = Len(log) /\ UNCHANGED log ELSE log' = <<>> /\ UNCHANGED mark
    /\ UNCHANGED logged

clearLog ==
    /\ clear = "sent" /\ clear' = "ok" /\ Cleared
    /\ UNCHANGED <<app, lines, shown, bar, asked, acts>>

\* The request fails, or ubus answers with an error, which LuCI turns into the false of
\* "expect": so does panda's plugin when it could not, but only panda's page looks at it.
ClearFails ==
    /\ Act /\ clear = "sent"
    /\ clear' \in {"failed", IF app = "panda" THEN "refused" ELSE "ok"}
    /\ UNCHANGED <<app, routerLog, lines, shown, bar, asked>>

-----------------------------------------------------------------------------
(* The page                                                                *)

Hit(l) == l > 0 /\ l % 2 = 0        \* the lines that hold the words of the search

\* filterLines, the turn, and no empty lines.
View(ls, b) ==
    LET found == IF b.search THEN SelectSeq(ls, Hit) ELSE SelectSeq(ls, LAMBDA l : l # Blank)
    IN  IF b.reverse THEN Reverse(found) ELSE found

KiwiRender == shown' = View(lines', bar')
PandaRender == shown' = View(lines', bar')
SheepRender == shown' = View(lines', bar')

\* __renderLog of the page.
render == CASE app = "kiwi" -> KiwiRender [] app = "panda" -> PandaRender [] OTHER -> SheepRender

\* Mutant: the empty piece is not counted.
PiecesPlus(text) == Append(LastN(text, MaxLines), Blank)

\* split leaves an empty piece behind the last line, and it counts.
Pieces(text) == LastN(Append(text, Blank), MaxLines)

LogInit ==
    /\ app \in {"kiwi", "panda", "sheep"}
    /\ log = <<1, 2>> /\ logged = 2 /\ mark = 0 /\ cleared = 0 /\ rotated = FALSE
    /\ bar = [paused |-> FALSE, reverse |-> TRUE, search |-> FALSE]
    /\ lines = <<>> /\ shown = View(lines, bar)
    /\ asked = [s \in Slots |-> IF s = "first" /\ app = "sheep"
                                  THEN [Nothing EXCEPT !.state = "sent"] ELSE Nothing]
    /\ clear = "no" /\ acts = 0

LogTypeOK ==
    /\ \A s \in Slots : asked[s].state \in {"no", "sent", "got", "bad"}
    /\ clear \in {"no", "sent", "ok", "refused", "exec", "failed"}
    /\ Len(lines) <= MaxLines /\ acts \in 0..MaxActs
    /\ bar \in [paused : BOOLEAN, reverse : BOOLEAN, search : BOOLEAN]

\* Mutant: going on shows nothing before the next answer.
PressLazy(b) ==
    /\ Act /\ bar' = b
    /\ IF b.paused # bar.paused THEN UNCHANGED shown ELSE render
    /\ UNCHANGED <<app, routerLog, lines, asked, clear>>

\* A button or the search field: everything renders at once, except to pause.
Press(b) ==
    /\ Act /\ bar' = b
    /\ IF b.paused /\ ~bar.paused THEN UNCHANGED shown ELSE render
    /\ UNCHANGED <<app, routerLog, lines, asked, clear>>

Toolbar ==
    /\ UNCHANGED lines
    /\ \/ Press([bar EXCEPT !.search = ~@])
       \/ Press([bar EXCEPT !.reverse = ~@])
       \/ Press([bar EXCEPT !.paused = ~@])

KiwiToolbar == app = "kiwi" /\ Toolbar
PandaToolbar == app = "panda" /\ Toolbar
SheepToolbar == app = "sheep" /\ Toolbar

\* Mutant: no polls while paused.
AskUnpaused ==
    /\ asked["poll"].state = "no" /\ ~bar.paused
    /\ asked' = [asked EXCEPT !["poll"].state = "sent"]
    /\ UNCHANGED <<app, routerLog, lines, shown, bar, clear, acts>>

\* LuCI asks again only after the last answer was handled.
Ask ==
    /\ asked["poll"].state = "no"
    /\ asked' = [asked EXCEPT !["poll"].state = "sent"]
    /\ UNCHANGED <<app, routerLog, lines, shown, bar, clear, acts>>

getLog(s) ==
    /\ asked[s].state = "sent"
    /\ asked' = [asked EXCEPT ![s] = [state |-> "got", text |-> Content]]
    /\ UNCHANGED <<app, routerLog, lines, shown, bar, clear, acts>>

\* A request that fails; an error of ubus is an empty log for kiwi's and sheep's page.
LogFails(s) ==
    /\ Act /\ asked[s].state = "sent"
    /\ \/ asked' = [asked EXCEPT ![s].state = "bad"]
       \/ app # "panda" /\ asked' = [asked EXCEPT ![s] = [state |-> "got", text |-> <<>>]]
    /\ UNCHANGED <<app, routerLog, lines, shown, bar, clear>>

\* Mutant: an answer is shown even while the page is paused.
TakeAlways(s) ==
    /\ asked[s].state = "got" /\ lines' = Pieces(asked[s].text) /\ render

\* An answer replaces the lines, shown unless paused; a failure is always shown.
Take(s) ==
    \/ /\ asked[s].state = "got"
       /\ lines' = Pieces(asked[s].text)
       /\ IF bar.paused THEN UNCHANGED shown ELSE render
    \/ /\ asked[s].state = "bad" /\ lines' = <<Note>> /\ render

Handled(s) ==
    /\ UNCHANGED <<app, routerLog, bar, clear, acts>>
    /\ Take(s) /\ asked' = [asked EXCEPT ![s] = Nothing]

KiwiPoll == app = "kiwi" /\ Handled("poll")
PandaPoll == app = "panda" /\ Handled("poll")
SheepPoll == app = "sheep" /\ \E s \in Slots : Handled(s)

-----------------------------------------------------------------------------
(* Clear                                                                   *)

PressClear ==
    /\ Act /\ clear = "no" /\ clear' = "sent"
    /\ UNCHANGED <<app, routerLog, lines, shown, bar, asked>>

Emptied(ls) ==
    /\ clear' = "no" /\ lines' = ls /\ UNCHANGED bar /\ render
    /\ UNCHANGED <<app, routerLog, asked, acts>>

\* A failed call is only reported.
Reported == clear' = "no" /\ UNCHANGED <<app, routerLog, lines, shown, bar, asked, acts>>

KiwiClear ==
    /\ app = "kiwi"
    /\ \/ clear = "ok" /\ Emptied(<<>>)
       \/ clear = "failed" /\ Reported

\* Panda tries a shell when its plugin could not.
PandaClear ==
    /\ app = "panda"
    /\ \/ clear = "ok" /\ Emptied(<<>>)
       \/ clear = "failed" /\ Reported
       \/ clear = "refused" /\ clear' = "exec"
          /\ UNCHANGED <<app, routerLog, lines, shown, bar, asked, acts>>
       \/ clear = "exec" /\ clear' = "ok" /\ Cleared
          /\ UNCHANGED <<app, lines, shown, bar, asked, acts>>
       \/ Act /\ clear = "exec" /\ clear' = "failed"
          /\ UNCHANGED <<app, routerLog, lines, shown, bar, asked>>

SheepClear ==
    /\ app = "sheep"
    /\ \/ clear = "ok" /\ Emptied(<<Note>>)
       \/ clear = "failed" /\ Reported

LogNext ==
    \/ LogLine \/ OtherLines \/ clearLog \/ ClearFails \/ Ask \/ PressClear
    \/ \E s \in Slots : getLog(s) \/ LogFails(s)
    \/ KiwiToolbar \/ PandaToolbar \/ SheepToolbar
    \/ KiwiPoll \/ PandaPoll \/ SheepPoll
    \/ KiwiClear \/ PandaClear \/ SheepClear

PollRound == Ask \/ getLog("poll") \/ Handled("poll")
FirstFetch == getLog("first") \/ Handled("first")

-----------------------------------------------------------------------------
\* A page that is not paused shows what it holds, under the search and the order that
\* the toolbar shows, whichever of answers, clicks and failures came last.
ShownIsView == ~bar.paused => shown = View(lines, bar)

\* Paused, the lines on the screen stay until the user acts or something fails.
PausedStill ==
    [][bar.paused /\ bar'.paused /\ shown' # shown
       => acts' # acts \/ clear' # clear \/ lines' = <<Note>>]_logVars

\* An answer on its way may bring the cleared lines back, but not to stay, paused or
\* not: a later poll takes them away.  Kiwi's plugin keeps the log and counts lines:
\* it serves them all again while the mark is just reached, and after the ring turned.
GhostsGo ==
    <>[](\/ \A i \in DOMAIN lines : lines[i] < 1 \/ lines[i] > cleared
         \/ app = "kiwi" /\ (mark >= Len(log) \/ rotated))

\* What was logged after a clear and is still in the log is served, as long as the
\* ring has not turned since: then the mark hides as many new lines as were dropped.
\* Of a long log sheep's plugin serves only the end (luci.sheep:41).
NewLinesServed ==
    ~rotated => \A i \in DOMAIN log :
                    log[i] > cleared /\ (app = "sheep" => i + Window > Len(log))
                    => \E j \in DOMAIN Content : Content[j] = log[i]

\* What is logged is served, and what the page holds is on the screen.
ScreenTrue == ShownIsView /\ NewLinesServed

\* A paused screen is still, and a cleared log stays cleared.
LogsSettle == PausedStill /\ GhostsGo
=============================================================================
