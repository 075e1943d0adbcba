---------------------------- MODULE PageScreens ----------------------------
(***************************************************************************)
(* Screenshots: the command sequences that ask for them and the commands   *)
(* that take them (browser_commands.py), one WebDriver command a step, of  *)
(* pages that grow, shrink and scroll meanwhile.  The parts of a full page *)
(* stay on disk when they have been put together, and so they do when that *)
(* has failed.                                                             *)
(***************************************************************************)
EXTENDS Integers, Sequences, FiniteSetsExt

CONSTANTS
    ScreenVisits,   \* the number of visits, which are 1 .. ScreenVisits
    ShotSuffixes,   \* of the names of pictures
    MaxCommands,    \* bound: commands of a visit
    Heights,        \* of pages, in rows
    InnerHeight     \* rows of the window

ASSUME HeightsAssumption == Heights \subseteq Nat /\ InnerHeight \in Nat \ {0}
ASSUME SuffixesAssumption == ShotSuffixes # {}

VARIABLES
    visit_id,
    commands,       \* of the command sequence: kind and suffix
    contains_get_or_browse,
    at,             \* how many of the commands were begun
    shot_step,      \* what the command does next
    page,           \* the visit whose page is to be open, or NoPage
    scrollHeight,   \* of the page
    scrollY,
    undisturbed,    \* whether the page let the command scroll, and did not itself
    max_height, start, curr_scrollY, prev_scrollY, part,    \* of ScreenshotFullPageCommand
    parts,          \* name of a file in parts -> the page and the first row it shows
    pictures        \* visit and suffix of a file -> kind, rows and how it was taken
sequence == <<visit_id, commands, contains_get_or_browse, at>>
browser == <<page, scrollHeight, scrollY>>
locals == <<max_height, start, curr_scrollY, prev_scrollY, part>>
files == <<parts, pictures>>
screenVars == <<sequence, shot_step, browser, undisturbed, locals, files>>

NoPage == 0
Row(p, y) == [page |-> p, row |-> y]
Black == Row(NoPage, 0)              \* a row of a picture that nothing was pasted on
Lowest == Max({0, scrollHeight - InnerHeight})
NoLocals == max_height' = 0 /\ start' = 0 /\ curr_scrollY' = 0 /\ prev_scrollY' = -1 /\ part' = 0

InitScreens ==
    /\ visit_id = 1 /\ commands = <<>> /\ contains_get_or_browse = FALSE /\ at = 0 /\ shot_step = "build"
    /\ page = NoPage /\ scrollHeight = 0 /\ scrollY = 0 /\ undisturbed = TRUE
    /\ max_height = 0 /\ start = 0 /\ curr_scrollY = 0 /\ prev_scrollY = -1 /\ part = 0
    /\ parts = <<>> /\ pictures = <<>>

-----------------------------------------------------------------------------
(* CommandSequence: get or browse; save_screenshot and screenshot_full_page *)
(* raise unless one of them came before.                                   *)
Get ==
    /\ shot_step = "build" /\ Len(commands) < MaxCommands
    /\ commands' = Append(commands, [kind |-> "get", suffix |-> CHOOSE s \in ShotSuffixes : TRUE])
    /\ contains_get_or_browse' = TRUE
    /\ UNCHANGED <<visit_id, at, shot_step, browser, undisturbed, locals, files>>
AddScreenshot ==
    /\ shot_step = "build" /\ Len(commands) < MaxCommands /\ contains_get_or_browse
    /\ \E k \in {"save", "full"}, s \in ShotSuffixes : commands' = Append(commands, [kind |-> k, suffix |-> s])
    /\ UNCHANGED <<visit_id, contains_get_or_browse, at, shot_step, browser, undisturbed, locals, files>>

(* The commands are executed one after another; Finalize follows the last, *)
(* and opens a new window.                                                 *)
NextCommand ==
    /\ shot_step \in {"build", "next"} /\ at < Len(commands)
    /\ at' = at + 1 /\ shot_step' = commands[at'].kind /\ undisturbed' = TRUE
    /\ NoLocals
    /\ UNCHANGED <<visit_id, commands, contains_get_or_browse, browser, files>>
EndVisit ==
    /\ visit_id < ScreenVisits
    /\ visit_id' = visit_id + 1 /\ commands' = <<>> /\ contains_get_or_browse' = FALSE /\ at' = 0
    /\ shot_step' = "build" /\ page' = NoPage /\ scrollHeight' = 0 /\ scrollY' = 0
    /\ NoLocals
    /\ UNCHANGED <<undisturbed, files>>
Finalize == shot_step = "next" /\ at = Len(commands) /\ EndVisit

(* A command raises or is not done in time: the browser is restarted and   *)
(* the visit is over.                                                      *)
RestartBrowser == shot_step \notin {"build", "next"} /\ EndVisit

(* GetCommand passes over a page that is not loaded in time.               *)
Load ==
    /\ shot_step = "get"
    /\ page' = visit_id /\ scrollHeight' \in Heights \cup {0} /\ scrollY' = 0 /\ shot_step' = "mitigate"
    /\ UNCHANGED <<sequence, undisturbed, locals, files>>
(* bot_mitigation is optional, and scrolls down at random.                 *)
ScrollDown ==
    /\ shot_step = "mitigate" /\ scrollY' \in scrollY .. Lowest /\ shot_step' = "next"
    /\ UNCHANGED <<sequence, page, scrollHeight, undisturbed, locals, files>>

-----------------------------------------------------------------------------
(* A picture of the window.  Pictures of either kind have one namespace.   *)
Put(names, name, value) ==
    [n \in DOMAIN names \cup {name} |-> IF n = name THEN value ELSE names[n]]
SaveAs(name, rows) ==
    pictures' = Put(pictures, name,
      [kind |-> commands[at].kind, asked |-> commands[at].suffix, rows |-> rows, page |-> page,
       from |-> start, to |-> max_height, undisturbed |-> undisturbed,
       single |-> Cardinality({i \in 1 .. at : commands[i].kind = "full"}) <= 1,
       over |-> IF name \in DOMAIN pictures THEN pictures[name].kind ELSE "none"])

SaveScreenshot ==
    /\ shot_step = "save"
    /\ SaveAs([visit |-> visit_id, suffix |-> commands[at].suffix], <<>>)
    /\ shot_step' = "next"
    /\ UNCHANGED <<sequence, browser, undisturbed, locals, parts>>

(* The full page: its height and its position are read, a part is saved,   *)
(* and as long as it is not the last the page is scrolled.                 *)
ReadHeight ==
    /\ shot_step = "full"
    /\ max_height' = scrollHeight /\ shot_step' = "first"
    /\ UNCHANGED <<sequence, browser, undisturbed, start, curr_scrollY, prev_scrollY, part, files>>
ReadStart ==
    /\ shot_step = "first"
    /\ curr_scrollY' = scrollY /\ start' = scrollY /\ shot_step' = "part"
    /\ UNCHANGED <<sequence, browser, undisturbed, max_height, prev_scrollY, part, files>>

More == curr_scrollY + InnerHeight < max_height /\ curr_scrollY # prev_scrollY
PartName == [visit |-> visit_id, suffix |-> commands[at].suffix, index |-> part, scroll |-> curr_scrollY]
SavePart ==
    /\ shot_step = "part"
    /\ parts' = Put(parts, PartName, Row(page, scrollY))
    /\ shot_step' = IF More THEN "scroll" ELSE "stitch"
    /\ UNCHANGED <<sequence, browser, undisturbed, locals, pictures>>

(* An exception while scrolling is logged.                                 *)
Scroll ==
    /\ shot_step = "scroll"
    /\ \/ scrollY' = Min({scrollY + InnerHeight, Lowest}) /\ UNCHANGED undisturbed
       \/ undisturbed' = FALSE /\ UNCHANGED scrollY
    /\ part' = part + 1 /\ prev_scrollY' = curr_scrollY /\ shot_step' = "position"
    /\ UNCHANGED <<sequence, page, scrollHeight, max_height, start, curr_scrollY, files>>
(* Seeded bug: the position is not read but computed.                      *)
AddHeight ==
    /\ shot_step = "position"
    /\ curr_scrollY' = curr_scrollY + InnerHeight /\ shot_step' = "part"
    /\ UNCHANGED <<sequence, browser, undisturbed, max_height, start, prev_scrollY, part, files>>
ReadScroll ==
    /\ shot_step = "position"
    /\ curr_scrollY' = scrollY /\ shot_step' = "part"
    /\ UNCHANGED <<sequence, browser, undisturbed, max_height, start, prev_scrollY, part, files>>

(* An exception of any other command is logged, and the command is over.   *)
GiveUp ==
    /\ shot_step \in {"full", "first", "part", "position"} /\ shot_step' = "next"
    /\ UNCHANGED <<sequence, browser, undisturbed, locals, files>>

(* _stitch_screenshot_parts: the parts of the visit that are on disk, those *)
(* of other shots as well.  Of parts with one index the last that is read  *)
(* is pasted, and the last of all names the picture; a picture that cannot *)
(* be saved is logged.  The pattern is that of names that begin with the   *)
(* id; that one id begins with another is left out (they are random        *)
(* numbers of 53 bits).                                                    *)
PartsOfVisit == {p \in DOMAIN parts : p.visit = visit_id}
Indexes == {p.index : p \in PartsOfVisit}
OnePerIndex(images) ==
    \A i \in Indexes : \E p \in images : p.index = i /\ \A q \in images \ {p} : q.index # i
Pasted(images, y) ==
    LET on == {p \in images : p.scroll <= y /\ y < p.scroll + InnerHeight}
        uppermost == CHOOSE p \in on : \A q \in on : q.index <= p.index
    IN IF on = {} THEN Black ELSE Row(parts[uppermost].page, parts[uppermost].row + y - uppermost.scroll)
Bottom == Max({p.scroll : p \in PartsOfVisit}) + InnerHeight
Stitch ==
    /\ shot_step = "stitch" /\ Indexes = 0 .. Max(Indexes)
    /\ \/ \E last \in PartsOfVisit, images \in SUBSET PartsOfVisit :
            /\ last \in images /\ OnePerIndex(images)
            /\ SaveAs([visit |-> visit_id, suffix |-> last.suffix],
                      [y \in 0 .. Bottom - 1 |-> Pasted(images, y)])
       \/ UNCHANGED pictures
    /\ shot_step' = "next"
    /\ UNCHANGED <<sequence, browser, undisturbed, locals, parts>>

-----------------------------------------------------------------------------
(* What pages do: grow; or shrink or scroll, once in a command.            *)
Grow ==
    /\ page # NoPage
    /\ \E h \in Heights : h > scrollHeight /\ scrollHeight' = h
    /\ UNCHANGED <<sequence, shot_step, page, scrollY, undisturbed, locals, files>>
Disturb ==
    /\ page # NoPage /\ undisturbed /\ undisturbed' = FALSE
    /\ \E h \in Heights : h <= scrollHeight /\ scrollHeight' = h
    /\ scrollY' \in 0 .. Max({0, scrollHeight' - InnerHeight})
    /\ UNCHANGED <<sequence, shot_step, page, locals, files>>

ScreenCommandNext ==
    \/ Get \/ AddScreenshot \/ NextCommand \/ Finalize \/ RestartBrowser \/ Load \/ ScrollDown
    \/ SaveScreenshot \/ ReadHeight \/ ReadStart \/ SavePart \/ Scroll \/ ReadScroll \/ GiveUp \/ Stitch
NextScreens == ScreenCommandNext \/ Grow \/ Disturb
ScreensSpec == InitScreens /\ [][NextScreens]_screenVars

-----------------------------------------------------------------------------
(* Every variable keeps its type; a full page has no more parts than it    *)
(* can have, although the page may shrink under the command.               *)
ScreensTypeOK ==
    /\ visit_id \in 1 .. ScreenVisits /\ page \in {NoPage, visit_id} /\ at \in 0 .. Len(commands)
    /\ scrollHeight \in Heights \cup {0} /\ scrollY \in 0 .. Lowest
    /\ shot_step \in {"build", "next", "get", "mitigate", "save", "full",
                     "first", "part", "scroll", "position", "stitch"}
    /\ part <= Max(Heights)

(* A part is never missing when the parts are put together, whatever was   *)
(* given up before in this visit (ScreenshotFullPageCommand.execute).      *)
NoPartIsMissing == shot_step = "stitch" => Indexes = 0 .. Max(Indexes)

(* A picture is of a window in which the page of its visit was asked for   *)
(* (CommandSequence.save_screenshot, screenshot_full_page).                *)
PicturesAreOfTheirVisit == \A n \in DOMAIN pictures : pictures[n].page = n.visit

(* The picture of a page that kept its place, the only one in its visit,   *)
(* shows every row where it was on the page, and all that were on the page *)
(* when the command began, from the place where it was on                  *)
(* (ScreenshotFullPageCommand, _stitch_screenshot_parts).                  *)
Good == {n \in DOMAIN pictures : pictures[n].kind = "full" /\ pictures[n].single /\ pictures[n].undisturbed}
Shows(picture, y) == y \in DOMAIN picture.rows /\ picture.rows[y] # Black
PicturesShowThePage ==
    \A n \in Good :
      /\ \A y \in DOMAIN pictures[n].rows : pictures[n].rows[y] \in {Row(n.visit, y), Black}
      /\ \A y \in pictures[n].from .. pictures[n].to - 1 : Shows(pictures[n], y)

-----------------------------------------------------------------------------
(* What the documentation says of the program, and it does not do.         *)

(* browser_commands.py 282: all parts have the same output filename.       *)
PicturesHaveTheirNames == \A n \in DOMAIN pictures : pictures[n].asked = n.suffix

(* command_sequence.py 115: screenshot_full_page saves a screenshot of the *)
(* entire page.  It begins where bot_mitigation has left the page.         *)
EntirePage == \A n \in Good : \A y \in 0 .. pictures[n].to - 1 : Shows(pictures[n], y)

(* command_sequence.py 119-120: a stitched version is saved in the         *)
(* screenshot_path.  A screenshot with the same suffix replaces it.        *)
PicturesAreKept == \A n \in DOMAIN pictures : pictures[n].over \in {"none", pictures[n].kind}
=============================================================================
