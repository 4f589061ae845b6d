-------------------------------- MODULE Menu --------------------------------
(***************************************************************************)
(* The on-screen menu of the workhorse, menu.c, as thrall() and slave()    *)
(* call it: the menu, the file selector with its pages of the images that  *)
(* philes.c lists, and keys that may change at any time.  A call is two    *)
(* steps, up to the first look at the keys and from there.                 *)
(***************************************************************************)
EXTENDS Naturals, FiniteSets

CONSTANTS
  NLines,      \* FSEL_NLINES: a page has so many lines of two items
  ByteMod,     \* 256
  Inactivity,  \* INACTIVITY: calls without a key until the selector is left
  Sticks,      \* the sets of keys that can be down, of the five
  Cards, NoCard,
  NFiles,      \* how many images the directory of each card has
  Glitches,    \* the calls of philes_nextfile, counted from 0, that a card may fail
  Faults       \* a subset of {"swap", "bad"}

ASSUME MenuAssumption ==
  NLines \in Nat \ {0} /\ ByteMod \in Nat /\ ByteMod > 2 * NLines /\ {} \in Sticks
ASSUME DirectoriesAssumption == NoCard \notin Cards /\ \A c \in Cards : NFiles[c] \in Nat

PageSize == 2 * NLines        \* FSEL_PAGESIZE
Index    == 0 .. PageSize - 1
None     == ByteMod - 1       \* 0377; fsel_index2offs(0377) is 17, in the header line
Blank    == <<NoCard, 0>>
HeaderText == <<NoCard, 1>>   \* two letters of cnotice1
Nothing  == <<NoCard, 2>>     \* MENURESULT_NOTHING
Toggled  == <<NoCard, 3>>     \* and bit 0 of osdcmd, which nothing reads, was toggled
Unknown  == {"none yet"}      \* 0377 in joy_status, so that any keys are news

VARIABLES
  joystick,    \* the keys that are down
  slot,        \* the card in the slot
  caller,      \* "slave", or "thrall" between two images
  at,          \* "call", or "keys" in the middle of menu_dispatch
  state, joy_status, inactivity, menu_x, menu_y, menu_selected,
  fsel_pagestart, fsel_redraw, fsel_hasnextpage,
  page,        \* the names on the screen: <<card, number in its directory>>
  lit,         \* the indices, None too, whose cells the selector shows in inverse
  result,      \* of the last call: the name it picked, or that it toggled HOLD
  clean,       \* history: the pages were drawn from one card, whole,
  seen,        \* what they showed since the selector was opened,
  pressed      \* and whether FIRE went down since it was last acted upon

cursor == <<menu_x, menu_y, menu_selected>>
pager  == <<fsel_pagestart, fsel_redraw, fsel_hasnextpage>>
screen == <<page, lit>>
view   == <<clean, seen>>
vars   == <<joystick, slot, caller, at, state, joy_status, inactivity, cursor, pager, screen,
            result, view, pressed>>

\* osd_cls(1) puts the header in inverse, the cells of None with it.
Cleared == page' = [i \in Index |-> Blank] /\ lit' = {None}
-----------------------------------------------------------------------------
\* menu_init.  What fsel_init and the first drawing set anew is forgotten.
NoPager == /\ fsel_pagestart' = 0 /\ fsel_redraw' = FALSE /\ fsel_hasnextpage' = FALSE
           /\ clean' = FALSE /\ seen' = {}
MenuInit ==
  /\ state' = "MENU" /\ menu_x' = 1 /\ menu_y' = 1 /\ menu_selected' = None
  /\ IF state = "MENU" THEN UNCHANGED <<joy_status, pager, screen, view>>
     ELSE joy_status' = Unknown /\ NoPager /\ Cleared

\* thrall() shows INSERT, menu_busy(2), before it calls menu_dispatch.
Insert == MenuInit
\* The counter that a call takes down.  Mutant: it starts again.
TickedAgain == IF inactivity <= 1 THEN Inactivity ELSE inactivity - 1
Ticked      == IF inactivity = 0 THEN 0 ELSE inactivity - 1
Call ==
  /\ at = "call" /\ at' = "keys" /\ result' = Nothing
  /\ inactivity' = Ticked
  /\ IF caller = "thrall" THEN Insert
     ELSE IF inactivity' = 0 /\ state = "FSEL" THEN MenuInit
     ELSE UNCHANGED <<state, cursor, joy_status, pager, screen, view>>
  /\ UNCHANGED <<joystick, slot, caller, pressed>>

-----------------------------------------------------------------------------
\* menu_dispatch sees the keys j, and they are others than before.
Fires(j) == "FIRE" \in j \ joystick
Felt(j)  == pressed' = (pressed \/ Fires(j))
Third(j, low, high) == IF low \in j THEN 0 ELSE IF high \in j THEN 2 ELSE 1
InMenu(j) ==
  /\ state = "MENU" /\ joy_status' = j
  /\ menu_y' = Third(j, "UP", "DN") /\ menu_x' = Third(j, "LT", "RT")
  /\ IF "FIRE" \in j THEN state' = "WAITBREAK" /\ menu_selected' = menu_x' + menu_y' * 3
                     ELSE UNCHANGED <<state, menu_selected>>
  /\ Felt(j) /\ UNCHANGED <<pager, screen, result, view>>

FselInit ==
  /\ fsel_pagestart' = 0 /\ fsel_redraw' = TRUE /\ UNCHANGED fsel_hasnextpage
  /\ joy_status' = Unknown /\ Cleared
  /\ menu_x' = 0 /\ menu_y' = 0 /\ menu_selected' = 0
  /\ clean' = TRUE /\ seen' = {}
\* Mutant: it is acted upon as soon as the keys change.
BrokenAny(j) == TRUE
Broken(j)    == "FIRE" \notin j
\* switch_state: 1 is HOLD, 4 DISK, 7 ABOUT, the others have passing effects
InWaitBreak(j) ==
  /\ state = "WAITBREAK"
  /\ IF Broken(j)
     THEN /\ pressed' = FALSE
          /\ result' = IF menu_selected = 1 THEN Toggled ELSE Nothing
          /\ state' = CASE menu_selected = 4 -> "FSEL" [] menu_selected = 7 -> "ABOOT"
                        [] OTHER -> "MENU"
          /\ IF menu_selected = 4 THEN FselInit
             ELSE joy_status' = j /\ UNCHANGED <<cursor, pager, screen, view>>
     ELSE joy_status' = j /\ Felt(j) /\ UNCHANGED <<state, cursor, pager, screen, result, view>>

\* The text about the machine, until a key is pressed
InAbout(j) ==
  /\ \/ /\ state = "ABOOT" /\ state' = IF j = {} THEN "ABOOT2" ELSE state
        /\ joy_status' = j /\ UNCHANGED <<cursor, pager, screen, view>>
     \/ /\ state = "ABOOT2"
        /\ IF "FIRE" \notin j THEN MenuInit
           ELSE joy_status' = j /\ UNCHANGED <<state, cursor, pager, screen, view>>
  /\ Felt(j) /\ UNCHANGED result

\* The name that is picked when FIRE is up again
Selected == IF menu_selected = None THEN HeaderText ELSE page[menu_selected]
InWaitBreak2(j) ==
  /\ state = "WAITBREAK2"
  /\ IF "FIRE" \notin j THEN result' = Selected /\ MenuInit /\ pressed' = FALSE
     ELSE joy_status' = j /\ Felt(j) /\ UNCHANGED <<state, cursor, pager, screen, result, view>>

-----------------------------------------------------------------------------
\* draw_fsel: the directory is opened and the names before the page are passed
\* over, then its items filled, each with the next name.  A card may fail once,
\* at call number g, or from there on.
Name(k)    == IF k <= NFiles[slot] THEN <<slot, k>> ELSE Blank
Sound      == slot # NoCard /\ "bad" \notin Faults
Shown(pos, g, on) ==
  [i \in Index |-> IF i = g \/ (on /\ i >= g) THEN Blank
                   ELSE Name(IF i > g THEN pos + i ELSE pos + i + 1)]
Drawing(start, p) ==
  [start |-> start, page |-> p, wiped |-> Index, next |-> \A i \in Index : p[i] # Blank]
Whole(start) == IF slot = NoCard \/ start > NFiles[slot] THEN {} ELSE
                  {Drawing(start, Shown(start, PageSize, FALSE))}
Drawn(start) ==
  LET n == NFiles[slot] IN
  Whole(start)
  \union (IF slot = NoCard \/ start <= n THEN {} ELSE {Drawing(0, Shown(n, PageSize, FALSE))})
  \union (IF Sound THEN {} ELSE
     {[start |-> start, page |-> page, wiped |-> {}, next |-> TRUE]})
  \union (IF slot = NoCard \/ "bad" \notin Faults THEN {} ELSE
     {Drawing(0, Shown(g, IF on THEN 0 ELSE PageSize, on)) :
        g \in {k \in Glitches : k < start /\ k <= n}, on \in BOOLEAN}
     \union {Drawing(start, Shown(start, g, on)) :
        g \in {k \in Glitches : k \in Index /\ start <= n}, on \in BOOLEAN})

\* The keys move the cursor, over the edges of the page to the next or the last.
\* Mutant: the next page starts behind a name that was not shown.
StrideWide == PageSize + 1
Stride     == PageSize - 1
GoUp(c, j) ==
  IF "UP" \notin j THEN c
  ELSE IF c.y > 0 THEN [c EXCEPT !.y = @ - 1]
  ELSE IF c.start # 0
  THEN [y |-> NLines - 1, start |-> (c.start + ByteMod - Stride) % ByteMod, redraw |-> TRUE]
  ELSE c
GoDown(c, j) ==
  IF "DN" \notin j THEN c
  ELSE IF c.y < NLines - 1 THEN [c EXCEPT !.y = @ + 1]
  ELSE IF fsel_hasnextpage
  THEN [y |-> 0, start |-> (c.start + Stride) % ByteMod, redraw |-> TRUE]
  ELSE c
\* (menu_x - 1) % 2 in int, cut to a byte, and (menu_x + 1) % 2
\* Mutant: the remainder is left out.
GoLeftOn(x, j) == IF "LT" \notin j THEN x ELSE (x + ByteMod - 1) % ByteMod
GoLeft(x, j)  == IF "LT" \notin j THEN x ELSE IF x = 0 THEN ByteMod - 1 ELSE (x - 1) % 2
GoRight(x, j) == IF "RT" \notin j THEN x ELSE (x + 1) % 2
\* fsel_showselection(0) for the old selection, (1) for the new.
\* Mutant: both for the new.
RelitNew(was) == was \union {menu_selected'}
Relit(was)    == (was \ {menu_selected}) \union {menu_selected'}
InFsel(j) ==
  /\ state = "FSEL" /\ joy_status' = j
  /\ LET c == GoDown(GoUp([y |-> menu_y, start |-> fsel_pagestart, redraw |-> fsel_redraw], j), j)
     IN /\ menu_y' = c.y /\ menu_x' = GoRight(GoLeft(menu_x, j), j)
        /\ menu_selected' = (2 * menu_y' + menu_x') % ByteMod
        /\ fsel_redraw' = FALSE
        /\ IF c.redraw
           THEN \E d \in Drawn(c.start) :
                  /\ fsel_pagestart' = d.start /\ fsel_hasnextpage' = d.next /\ page' = d.page
                  /\ lit' = Relit(lit \ d.wiped)
                  /\ clean' = (clean /\ d \in Whole(c.start))
                  /\ seen' = IF clean' THEN seen \union ({d.page[i] : i \in Index} \ {Blank}) ELSE {}
           ELSE lit' = Relit(lit) /\ UNCHANGED <<fsel_pagestart, fsel_hasnextpage, page, view>>
  /\ state' = IF "FIRE" \in j THEN "WAITBREAK2" ELSE state
  /\ Felt(j) /\ UNCHANGED result

-----------------------------------------------------------------------------
\* JOYSTICK is read twice, for the comparison and for joy_status.
Keys ==
  /\ at = "keys" /\ at' = "call"
  /\ IF joystick = joy_status
     THEN UNCHANGED <<joystick, state, joy_status, inactivity, cursor, pager, screen,
                      result, view, pressed>>
     ELSE /\ inactivity' = Inactivity
          /\ \E j \in Sticks :
               /\ joystick' = j
               /\ InMenu(j) \/ InWaitBreak(j) \/ InAbout(j) \/ InWaitBreak2(j) \/ InFsel(j)
  \* slave() returns when a name was picked, and for its own reasons
  /\ caller' \in IF state = "WAITBREAK2" /\ state' = "MENU" THEN {"thrall"} ELSE {"slave", "thrall"}
  /\ UNCHANGED slot
Press ==
  /\ joystick' \in Sticks \ {joystick} /\ Felt(joystick')
  /\ UNCHANGED <<slot, caller, at, state, joy_status, inactivity, cursor, pager, screen,
                 result, view>>
Swap ==
  /\ "swap" \in Faults /\ slot' \in (Cards \union {NoCard}) \ {slot} /\ clean' = FALSE /\ seen' = {}
  /\ UNCHANGED <<joystick, caller, at, state, joy_status, inactivity, cursor, pager, screen,
                 result, pressed>>

Init ==
  /\ joystick \in Sticks /\ slot \in Cards /\ caller = "thrall" /\ at = "call"
  /\ state = "MENU" /\ joy_status = Unknown /\ inactivity = 0
  /\ menu_x = 1 /\ menu_y = 1 /\ menu_selected = None
  /\ fsel_pagestart = 0 /\ fsel_redraw = FALSE /\ fsel_hasnextpage = FALSE
  /\ page = [i \in Index |-> Blank] /\ lit = {None} /\ result = Nothing
  /\ clean = FALSE /\ seen = {} /\ pressed = ("FIRE" \in joystick)
Next == Call \/ Keys \/ Press \/ Swap
\* The workhorse runs.
Spec == Init /\ [][Next]_vars /\ WF_vars(Call) /\ WF_vars(Keys)
-----------------------------------------------------------------------------
TypeOK ==
  /\ state \in {"MENU", "FSEL", "WAITBREAK", "WAITBREAK2", "ABOOT", "ABOOT2"}
  /\ menu_x \in {0, 1, 2, None} /\ menu_y \in 0 .. NLines \union {2}
  /\ menu_selected \in 0 .. 8 \union Index \union {None} /\ fsel_pagestart \in 0 .. ByteMod - 1
  /\ joystick \in Sticks /\ joy_status \in Sticks \union {Unknown}
  /\ state = "FSEL" /\ ~fsel_redraw => menu_selected \in Index \union {None} /\ menu_y < NLines

\* What is picked is the one place of the page that is in inverse.  Only if none
\* is, since the cursor has left the page for the header, which was in inverse
\* before, are it letters of the header (no file has that name, nor has a place
\* without an image, and thrall() takes the first).  thrall() does not look at
\* what menu_dispatch returns, so nothing is picked while it calls.
Picks == result' \notin {result, Nothing, Toggled}
PicksLit ==
  [][Picks =>
       /\ caller = "slave"
       /\ \/ \E i \in Index : lit \cap Index = {i} /\ result' = page[i]
          \/ lit \cap Index = {} /\ None \in lit /\ result' = HeaderText]_vars

\* Paging down to the last page shows every image of the directory, unless the
\* card was changed or failed meanwhile.
EndSeesAll ==
  state = "FSEL" /\ ~fsel_redraw /\ clean /\ ~fsel_hasnextpage
    => seen = {<<slot, k>> : k \in 1 .. NFiles[slot]}

\* One press of FIRE, held for however long, does one thing: toggles HOLD, opens
\* the selector or picks a name in it.
Acts == \/ Picks
        \/ result' = Toggled /\ result # Toggled
        \/ state # "FSEL" /\ state' = "FSEL"
OncePerPress == [][Acts => pressed]_vars

\* The selector, which may stand for long without a key, does not stay.
SelectorLeft == <>[][UNCHANGED joystick]_vars => []<>(state # "FSEL")
=============================================================================
