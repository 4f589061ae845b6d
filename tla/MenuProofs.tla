----------------------------- MODULE MenuProofs -----------------------------
(***************************************************************************)
(* Theorems about Menu, for pages of any size, whatever the joystick, the  *)
(* card and the two callers do.  Two things hold by more than one action:  *)
(* FIRE is down, or awaited up, only if a press of it has not been acted   *)
(* upon; and in the selector the place of the page that is shown in        *)
(* inverse is the selection and no other.                                  *)
(***************************************************************************)
EXTENDS Menu, TLAPS

Waiting == state \in {"WAITBREAK", "WAITBREAK2"}
\* Between two calls FIRE is down only if its press is still to be acted upon.
InvPressed == ("FIRE" \in joystick => pressed) /\ (Waiting => pressed)

-----------------------------------------------------------------------------
\* What menu_dispatch does with keys that are others than before.
Dispatch(j) == InMenu(j) \/ InWaitBreak(j) \/ InAbout(j) \/ InWaitBreak2(j) \/ InFsel(j)
\* The second half of a call does nothing, or acts on the keys it finds.
LEMMA KeysCases ==
  ASSUME Keys
  PROVE  \/ UNCHANGED <<joystick, state, joy_status, inactivity, cursor, pager, screen, result, view,
                        pressed>>
         \/ \E j \in Sticks : joystick' = j /\ Dispatch(j)
  BY DEF Keys, Dispatch

\* A FIRE that is down from the start is a press.
LEMMA InitInvPressed == Init => InvPressed
  BY DEF Init, InvPressed, Waiting

\* Acting on the keys uses up the press of FIRE that it acts upon.
LEMMA DispatchPressed ==
  ASSUME InvPressed, NEW j, joystick' = j, Dispatch(j)
  PROVE  /\ InvPressed'
         /\ Acts => pressed
<1>1. CASE InMenu(j)
  <2>1. pressed' = (pressed \/ Fires(j)) /\ result' = result
    BY <1>1 DEF InMenu, Felt
  <2>2. "FIRE" \in j => pressed'
    BY <2>1 DEF InvPressed, Fires
  <2>3. (state' = "WAITBREAK" /\ "FIRE" \in j) \/ (state' = state /\ state = "MENU")
    BY <1>1 DEF InMenu
  <2>4. QED  BY <2>1, <2>2, <2>3 DEF InvPressed, Waiting, Acts, Picks
<1>2. CASE InWaitBreak(j)
  <2>1. state = "WAITBREAK" /\ pressed
    BY <1>2 DEF InWaitBreak, InvPressed, Waiting
  <2>2. CASE Broken(j)
    <3>1. "FIRE" \notin j /\ state' \in {"FSEL", "ABOOT", "MENU"}
      BY <1>2, <2>2 DEF InWaitBreak, Broken
    <3>2. QED  BY <2>1, <3>1 DEF InvPressed, Waiting
  <2>3. CASE ~Broken(j)
    <3>1. state' = state /\ pressed' = (pressed \/ Fires(j))
      BY <1>2, <2>3 DEF InWaitBreak, Felt
    <3>2. QED  BY <2>1, <3>1 DEF InvPressed, Waiting
  <2>4. QED  BY <2>2, <2>3
<1>3. CASE InAbout(j)
  <2>1. pressed' = (pressed \/ Fires(j)) /\ result' = result /\ state' \in {"ABOOT", "ABOOT2", "MENU"}
    BY <1>3 DEF InAbout, Felt, MenuInit
  <2>2. QED  BY <2>1 DEF InvPressed, Waiting, Acts, Picks, Fires
<1>4. CASE InWaitBreak2(j)
  <2>1. state = "WAITBREAK2" /\ pressed
    BY <1>4 DEF InWaitBreak2, InvPressed, Waiting
  <2>2. CASE "FIRE" \notin j
    <3>1. state' = "MENU"
      BY <1>4, <2>2 DEF InWaitBreak2, MenuInit
    <3>2. QED  BY <2>1, <2>2, <3>1 DEF InvPressed, Waiting
  <2>3. CASE "FIRE" \in j
    <3>1. state' = state /\ pressed' = (pressed \/ Fires(j))
      BY <1>4, <2>3 DEF InWaitBreak2, Felt
    <3>2. QED  BY <2>1, <3>1 DEF InvPressed, Waiting
  <2>4. QED  BY <2>2, <2>3
<1>5. CASE InFsel(j)
  <2>1. pressed' = (pressed \/ Fires(j)) /\ result' = result
    BY <1>5 DEF InFsel, Felt
  <2>2. state = "FSEL" /\ state' = IF "FIRE" \in j THEN "WAITBREAK2" ELSE state
    BY <1>5 DEF InFsel
  <2>3. QED  BY <2>1, <2>2 DEF InvPressed, Waiting, Acts, Picks, Fires
<1>6. QED  BY <1>1, <1>2, <1>3, <1>4, <1>5 DEF Dispatch

\* So does every step, and it acts on no other.
LEMMA NextPressed ==
  ASSUME InvPressed, [Next]_vars
  PROVE  InvPressed' /\ (Acts => pressed)
<1>1. CASE Call
  <2>1. result' = Nothing /\ UNCHANGED <<joystick, pressed>> /\ (state' = state \/ state' = "MENU")
    BY <1>1 DEF Call, Insert, MenuInit
  <2>2. Nothing # Toggled
    BY DEF Nothing, Toggled
  <2>3. QED  BY <2>1, <2>2 DEF InvPressed, Waiting, Acts, Picks
<1>2. CASE Keys
  <2>1. CASE UNCHANGED <<joystick, state, result, pressed>>
    BY <2>1 DEF InvPressed, Waiting, Acts, Picks
  <2>2. QED  BY <1>2, <2>1, KeysCases, DispatchPressed
<1>3. CASE Press
  <2>1. pressed' = (pressed \/ Fires(joystick')) /\ UNCHANGED <<state, result>>
    BY <1>3 DEF Press, Felt
  <2>2. QED  BY <2>1 DEF InvPressed, Waiting, Acts, Picks, Fires
<1>4. CASE Swap \/ UNCHANGED vars
  <2>1. UNCHANGED <<joystick, state, result, pressed>>
    BY <1>4 DEF Swap, vars
  <2>2. QED  BY <2>1 DEF InvPressed, Waiting, Acts, Picks
<1>5. QED  BY <1>1, <1>2, <1>3, <1>4 DEF Next

\* One press of FIRE, held for however long, does one thing.
THEOREM OncePerPressCorrect == Spec => OncePerPress
<1>1. InvPressed /\ [Next]_vars => InvPressed' /\ [Acts => pressed]_vars
  BY NextPressed
<1>2. QED  BY <1>1, InitInvPressed, PTL DEF Spec, OncePerPress

-----------------------------------------------------------------------------
\* Where the cursor of the selector can be.
CursorOK == menu_y \in 0 .. NLines - 1 /\ menu_x \in {0, 1, None}
\* The selection, in the page or in the header, is lit.
SelectedLit == menu_selected \in Index \union {None} /\ menu_selected \in lit
\* It is all of the page that is lit, and is lit when FIRE is awaited up; thrall()
\* has shown INSERT before it looks at the keys.
InvLit ==
  /\ caller \in {"slave", "thrall"}
  /\ at = "keys" /\ caller = "thrall" => state = "MENU"
  /\ state = "FSEL" => CursorOK
  /\ state \in {"FSEL", "WAITBREAK2"} => lit \cap Index \subseteq {menu_selected}
  /\ state = "WAITBREAK2" => SelectedLit

\* The moves of the cursor
LEMMA CursorMoves ==
  ASSUME CursorOK, NEW j,
         NEW c, c = [y |-> menu_y, start |-> fsel_pagestart, redraw |-> fsel_redraw]
  PROVE  /\ GoDown(GoUp(c, j), j).y \in 0 .. NLines - 1
         /\ GoRight(GoLeft(menu_x, j), j) \in {0, 1, None}
<1>1. GoUp(c, j).y \in 0 .. NLines - 1 /\ DOMAIN GoUp(c, j) = {"y", "start", "redraw"}
  <2>1. CASE "UP" \notin j \/ (menu_y = 0 /\ fsel_pagestart = 0)
    BY <2>1 DEF GoUp, CursorOK
  <2>2. CASE "UP" \in j /\ menu_y > 0
    <3>1. GoUp(c, j) = [c EXCEPT !.y = menu_y - 1]
      BY <2>2 DEF GoUp
    <3>2. QED  BY <2>2, <3>1, MenuAssumption DEF CursorOK
  <2>3. CASE "UP" \in j /\ ~(menu_y > 0) /\ fsel_pagestart # 0
    <3>1. GoUp(c, j) = [y |-> NLines - 1, start |-> (c.start + ByteMod - Stride) % ByteMod,
                        redraw |-> TRUE]
      BY <2>3 DEF GoUp
    <3>2. QED  BY <3>1, MenuAssumption
  <2>4. QED  BY <2>1, <2>2, <2>3, MenuAssumption DEF CursorOK
<1>2. ASSUME NEW d, d.y \in 0 .. NLines - 1, DOMAIN d = {"y", "start", "redraw"}
      PROVE  GoDown(d, j).y \in 0 .. NLines - 1
  <2>1. CASE "DN" \in j /\ d.y < NLines - 1
    <3>1. GoDown(d, j) = [d EXCEPT !.y = d.y + 1]
      BY <2>1 DEF GoDown
    <3>2. GoDown(d, j).y = d.y + 1
      BY <1>2, <3>1
    <3>3. QED  BY <1>2, <2>1, <3>2, MenuAssumption
  <2>2. CASE "DN" \in j /\ ~(d.y < NLines - 1) /\ fsel_hasnextpage
    <3>1. GoDown(d, j) = [y |-> 0, start |-> (d.start + Stride) % ByteMod, redraw |-> TRUE]
      BY <2>2 DEF GoDown
    <3>2. QED  BY <3>1, MenuAssumption
  <2>3. CASE "DN" \notin j \/ (~(d.y < NLines - 1) /\ ~fsel_hasnextpage)
    BY <1>2, <2>3 DEF GoDown
  <2>4. QED  BY <2>1, <2>2, <2>3
<1>3. GoLeft(menu_x, j) \in {0, 1, None}
  BY MenuAssumption DEF GoLeft, CursorOK, None
<1>4. ASSUME NEW x \in {0, 1, None} PROVE GoRight(x, j) \in {0, 1, None}
  BY MenuAssumption DEF GoRight, None
<1>5. QED  BY <1>1, <1>2, <1>3, <1>4

\* The item under the cursor, or the header line's if the column is 255 in the first row
LEMMA CursorIndex ==
  ASSUME NEW y \in 0 .. NLines - 1, NEW x \in {0, 1, None}
  PROVE  (2 * y + x) % ByteMod \in Index \union {None}
<1>1. \A k \in 0 .. ByteMod - 1 : k % ByteMod = k /\ (k + ByteMod) % ByteMod = k
  BY MenuAssumption
<1>2. CASE x \in {0, 1}
  <2>1. 2 * y + x \in Index /\ 2 * y + x \in 0 .. ByteMod - 1
    BY <1>2, MenuAssumption DEF Index, PageSize
  <2>2. QED  BY <1>1, <2>1
<1>3. CASE x = None /\ y = 0
  <2>1. 2 * y + x = None /\ None \in 0 .. ByteMod - 1
    BY <1>3, MenuAssumption DEF None
  <2>2. QED  BY <1>1, <2>1
<1>4. CASE x = None /\ y # 0
  <2>1. 2 * y + x = (2 * y - 1) + ByteMod /\ 2 * y - 1 \in Index /\ 2 * y - 1 \in 0 .. ByteMod - 1
    BY <1>4, MenuAssumption DEF None, Index, PageSize
  <2>2. QED  BY <1>1, <2>1
<1>5. QED  BY <1>2, <1>3, <1>4

\* The header is not in the page.
LEMMA NoneBeyond == None \notin Index
  BY MenuAssumption DEF None, Index, PageSize

\* A key in the selector leaves what it selects lit, and nothing else of the page.
LEMMA FselLit ==
  ASSUME InvLit, NEW j, InFsel(j)
  PROVE  /\ state' \in {"FSEL", "WAITBREAK2"} /\ CursorOK'
         /\ lit' \cap Index \subseteq {menu_selected'} /\ SelectedLit'
<1> DEFINE b == [y |-> menu_y, start |-> fsel_pagestart, redraw |-> fsel_redraw]
           c == GoDown(GoUp(b, j), j)
<1>1. state = "FSEL" /\ state' \in {"FSEL", "WAITBREAK2"}
  BY DEF InFsel
<1>2. menu_y' = c.y /\ menu_x' = GoRight(GoLeft(menu_x, j), j)
  BY DEF InFsel
<1>3. CursorOK /\ lit \cap Index \subseteq {menu_selected}
  BY <1>1 DEF InvLit
<1>4. CursorOK'
  BY <1>2, <1>3, CursorMoves DEF CursorOK
<1>5. menu_selected' \in Index \union {None}
  <2>1. menu_selected' = (2 * menu_y' + menu_x') % ByteMod
    BY DEF InFsel
  <2>2. QED  BY <1>4, <2>1, CursorIndex DEF CursorOK
<1>6. \E S \in SUBSET lit : lit' = Relit(S)
  <2>1. (\E d : lit' = Relit(lit \ d.wiped)) \/ lit' = Relit(lit)
    BY DEF InFsel
  <2>2. QED  BY <2>1
<1>7. lit' \cap Index \subseteq {menu_selected'} /\ menu_selected' \in lit'
  BY <1>3, <1>6 DEF Relit
<1>8. QED  BY <1>1, <1>4, <1>5, <1>7 DEF SelectedLit

\* So do the keys in every state of the menu.
LEMMA DispatchLit ==
  ASSUME InvLit, NEW j, Dispatch(j)
  PROVE  /\ state' = "FSEL" => CursorOK'
         /\ state' \in {"FSEL", "WAITBREAK2"} => lit' \cap Index \subseteq {menu_selected'}
         /\ state' = "WAITBREAK2" => SelectedLit'
<1>1. CASE InMenu(j)
  BY <1>1 DEF InMenu
<1>2. CASE InWaitBreak(j)
  <2>1. CASE state' = "FSEL"
    <3>1. FselInit
      BY <1>2, <2>1 DEF InWaitBreak
    <3>2. menu_x' = 0 /\ menu_y' = 0 /\ lit' = {None}
      BY <3>1 DEF FselInit, Cleared
    <3>3. QED  BY <2>1, <3>2, NoneBeyond, MenuAssumption DEF CursorOK
  <2>2. state' # "WAITBREAK2"
    BY <1>2 DEF InWaitBreak
  <2>3. QED  BY <2>1, <2>2
<1>3. CASE InAbout(j)
  BY <1>3 DEF InAbout, MenuInit
<1>4. CASE InWaitBreak2(j)
  <2>1. state' = "MENU" \/ UNCHANGED <<state, cursor, lit>>
    BY <1>4 DEF InWaitBreak2, MenuInit, screen
  <2>2. QED  BY <1>4, <2>1 DEF InvLit, InWaitBreak2, cursor, SelectedLit
<1>5. CASE InFsel(j)
  BY <1>5, FselLit
<1>6. QED  BY <1>1, <1>2, <1>3, <1>4, <1>5 DEF Dispatch

\* The machine starts in the menu.
LEMMA InitInvLit == Init => InvLit
  BY DEF Init, InvLit

\* A step that leaves state, cursor and lit lines alone keeps InvLit.
LEMMA SameLit ==
  ASSUME InvLit, UNCHANGED <<state, menu_x, menu_y, menu_selected, lit>>
  PROVE  /\ state' = "FSEL" => CursorOK'
         /\ state' \in {"FSEL", "WAITBREAK2"} => lit' \cap Index \subseteq {menu_selected'}
         /\ state' = "WAITBREAK2" => SelectedLit'
  BY DEF InvLit, CursorOK, SelectedLit

\* Every step keeps InvLit.
LEMMA NextInvLit == InvLit /\ [Next]_vars => InvLit'
<1> SUFFICES ASSUME InvLit, [Next]_vars PROVE InvLit'
  OBVIOUS
<1>1. CASE Call
  <2>1. caller' = caller /\ (caller = "thrall" => state' = "MENU")
    BY <1>1 DEF Call, Insert, MenuInit
  <2>2. state' = "MENU" \/ UNCHANGED <<state, menu_x, menu_y, menu_selected, lit>>
    BY <1>1 DEF Call, Insert, MenuInit, cursor, screen
  <2>3. CASE state' = "MENU"
    BY <2>1, <2>3 DEF InvLit
  <2>4. CASE UNCHANGED <<state, menu_x, menu_y, menu_selected, lit>>
    BY <2>1, <2>4, SameLit DEF InvLit
  <2>5. QED  BY <2>2, <2>3, <2>4
<1>2. CASE Keys
  <2>1. at' = "call" /\ caller' \in {"slave", "thrall"}
    BY <1>2 DEF Keys
  <2>2. CASE UNCHANGED <<state, cursor, screen>>
    BY <2>1, <2>2, SameLit DEF InvLit, cursor, screen
  <2>3. QED  BY <1>2, <2>1, <2>2, KeysCases, DispatchLit DEF InvLit
<1>3. CASE Press \/ Swap \/ UNCHANGED vars
  <2>1. UNCHANGED <<caller, at, state, menu_x, menu_y, menu_selected, lit>>
    BY <1>3 DEF Press, Swap, vars, cursor, screen
  <2>2. QED  BY <2>1, SameLit DEF InvLit
<1>4. QED  BY <1>1, <1>2, <1>3 DEF Next

\* A step that picks a name picks the one that is lit, or letters of the header if
\* none is.
LEMMA PickIsLit ==
  ASSUME InvLit, [Next]_vars, Picks
  PROVE  /\ caller = "slave"
         /\ \/ \E i \in Index : lit \cap Index = {i} /\ result' = page[i]
            \/ lit \cap Index = {} /\ None \in lit /\ result' = HeaderText
<1>1. CASE Keys
  <2>1. PICK j \in Sticks : Dispatch(j)
    BY <1>1, KeysCases DEF Picks
  <2>2. InWaitBreak2(j) /\ result' = Selected
    BY <2>1 DEF Dispatch, InMenu, InWaitBreak, InAbout, InWaitBreak2, InFsel, Picks
  <2>3. caller = "slave"
    BY <1>1, <2>2 DEF InvLit, Keys, InWaitBreak2
  <2>4. lit \cap Index \subseteq {menu_selected} /\ SelectedLit
    BY <2>2 DEF InvLit, InWaitBreak2
  <2>5. CASE menu_selected \in Index
    <3>1. lit \cap Index = {menu_selected} /\ menu_selected # None
      BY <2>4, <2>5, NoneBeyond DEF SelectedLit
    <3>2. QED  BY <2>2, <2>3, <2>5, <3>1 DEF Selected
  <2>6. CASE menu_selected = None
    <3>1. lit \cap Index = {} /\ None \in lit
      BY <2>4, <2>6, NoneBeyond DEF SelectedLit
    <3>2. QED  BY <2>2, <2>3, <2>6, <3>1 DEF Selected
  <2>7. QED  BY <2>4, <2>5, <2>6 DEF SelectedLit
<1>2. CASE Call \/ Press \/ Swap \/ UNCHANGED vars
  BY <1>2 DEF Call, Press, Swap, vars, Picks
<1>3. QED  BY <1>1, <1>2 DEF Next

\* What is picked is the one place of the page that is in inverse, or letters of
\* the header if none is, and nothing is picked while thrall() calls.
THEOREM PicksLitCorrect == Spec => PicksLit
<1> DEFINE Lit == /\ caller = "slave"
                  /\ \/ \E i \in Index : lit \cap Index = {i} /\ result' = page[i]
                     \/ lit \cap Index = {} /\ None \in lit /\ result' = HeaderText
<1>1. InvLit /\ [Next]_vars => [Picks => Lit]_vars
  BY PickIsLit
<1>2. QED  BY <1>1, InitInvLit, NextInvLit, PTL DEF Spec, PicksLit

-----------------------------------------------------------------------------
\* The last of the images that a page from start on shows
Top(start) == IF start + PageSize <= NFiles[slot] THEN start + PageSize ELSE NFiles[slot]
\* What was shown is the beginning of the directory, as far as the end of the
\* page at least.  Pages overlap, so that the next begins within what was shown
\* when it is one stride on, but also when the byte that holds its start has
\* wrapped around: then a whole turn has been shown.  (Before the first page is
\* drawn the flag for another page is an old one, but then the cursor is in the
\* first line.)
Extent(m) ==
  /\ seen = {<<slot, k>> : k \in 1 .. m}
  /\ fsel_pagestart <= m /\ Top(fsel_pagestart) <= m
  /\ (\E k \in Nat : fsel_pagestart = k * Stride) \/ m >= ByteMod
InvShown ==
  /\ slot \in Cards \union {NoCard}
  /\ state = "FSEL" /\ clean /\ fsel_redraw => menu_y = 0 /\ fsel_pagestart = 0 /\ seen = {}
  /\ state = "FSEL" /\ clean /\ ~fsel_redraw =>
       /\ slot \in Cards /\ fsel_pagestart \in 0 .. ByteMod - 1
       /\ (fsel_hasnextpage <=> fsel_pagestart + PageSize <= NFiles[slot])
       /\ \E m \in 0 .. NFiles[slot] : Extent(m)

\* A page that is drawn whole shows the names from its start on.
LEMMA FineDrawing ==
  ASSUME slot \in Cards \union {NoCard}, NEW start \in Nat, NEW d \in Whole(start)
  PROVE  /\ slot \in Cards /\ start <= NFiles[slot] /\ d.start = start
         /\ d.next <=> start + PageSize <= NFiles[slot]
         /\ {d.page[i] : i \in Index} \ {Blank} = {<<slot, k>> : k \in start + 1 .. Top(start)}
<1>1. /\ slot # NoCard /\ start <= NFiles[slot]
      /\ d = Drawing(start, Shown(start, PageSize, FALSE))
  <2>1. slot # NoCard /\ ~(start > NFiles[slot]) /\ d = Drawing(start, Shown(start, PageSize, FALSE))
    BY DEF Whole
  <2>2. NFiles[slot] \in Nat
    BY <2>1, DirectoriesAssumption
  <2>3. QED  BY <2>1, <2>2
<1>2. slot \in Cards /\ NFiles[slot] \in Nat /\ PageSize \in Nat \ {0}
  BY <1>1, DirectoriesAssumption, MenuAssumption DEF PageSize
<1>3. \A i \in Index : d.page[i] = Name(start + i + 1)
  <2>1. \A i \in Index : Shown(start, PageSize, FALSE)[i] = Name(start + i + 1)
    BY <1>2 DEF Shown, Index
  <2>2. QED  BY <1>1, <2>1 DEF Drawing
<1>4. \A k \in Nat : <<slot, k + 1>> # Blank
  BY DEF Blank
<1>5. \A i \in Index : /\ start + i + 1 <= NFiles[slot] => d.page[i] = <<slot, start + i + 1>>
                       /\ d.page[i] # Blank <=> start + i + 1 <= NFiles[slot]
  <2> TAKE i \in Index
  <2>1. start + i \in Nat
    BY <1>2 DEF Index
  <2>2. QED  BY <1>3, <1>4, <2>1 DEF Name
<1>6. (\A i \in Index : d.page[i] # Blank) <=> start + PageSize <= NFiles[slot]
  <2>1. PageSize - 1 \in Index
    BY <1>2 DEF Index
  <2>2. (\A i \in Index : start + i + 1 <= NFiles[slot]) <=> start + PageSize <= NFiles[slot]
    BY <1>2, <2>1 DEF Index
  <2>3. QED  BY <1>5, <2>2
<1>7. d.start = start /\ (d.next = \A i \in Index : d.page[i] # Blank)
  BY <1>1 DEF Drawing
<1>8. ASSUME NEW i \in Index, d.page[i] # Blank
      PROVE  \E k \in start + 1 .. Top(start) : d.page[i] = <<slot, k>>
  <2>1. start + i + 1 \in start + 1 .. Top(start)
    BY <1>2, <1>5, <1>8 DEF Index, Top
  <2>2. QED  BY <1>5, <1>8, <2>1
<1>9. ASSUME NEW k \in start + 1 .. Top(start)
      PROVE  \E i \in Index : d.page[i] = <<slot, k>> /\ <<slot, k>> # Blank
  <2>1. k - start - 1 \in Index /\ start + (k - start - 1) + 1 = k /\ k <= NFiles[slot]
    BY <1>2, <1>9 DEF Index, Top
  <2>2. QED  BY <1>5, <2>1
<1>10. {d.page[i] : i \in Index} \ {Blank} = {<<slot, k>> : k \in start + 1 .. Top(start)}
  <2> DEFINE P == {d.page[i] : i \in Index}
             K == {<<slot, k>> : k \in start + 1 .. Top(start)}
  <2>1. ASSUME NEW v, v \in P, v # Blank PROVE v \in K
    BY <1>8, <2>1
  <2>2. ASSUME NEW v, v \in K PROVE v \in P /\ v # Blank
    <3>1. PICK k \in start + 1 .. Top(start) : v = <<slot, k>>
      BY <2>2
    <3>2. PICK i \in Index : d.page[i] = v /\ v # Blank
      BY <1>9, <3>1
    <3>3. QED  BY <3>2
  <2> HIDE DEF P, K
  <2>3. P \ {Blank} = K
    BY <2>1, <2>2
  <2>4. QED  BY <2>3 DEF P, K
<1>11. d.next <=> start + PageSize <= NFiles[slot]
  BY <1>6, <1>7
<1>12. QED  BY <1>1, <1>2, <1>7, <1>10, <1>11, Zenon

\* Adding such a page to what was shown, if it begins within it or right behind
LEMMA Shows ==
  ASSUME NEW n \in Nat, NEW m \in 0 .. n, NEW s \in Nat, s <= m, NEW t \in 0 .. n
  PROVE  \E u \in 0 .. n :
           /\ m <= u /\ t <= u
           /\ {<<slot, k>> : k \in 1 .. m} \union {<<slot, k>> : k \in s + 1 .. t}
                = {<<slot, k>> : k \in 1 .. u}
<1>1. CASE t > m
  <2>1. 1 .. t = (1 .. m) \union (s + 1 .. t)
    BY <1>1
  <2>2. {<<slot, k>> : k \in 1 .. m} \union {<<slot, k>> : k \in s + 1 .. t}
          = {<<slot, k>> : k \in 1 .. t}
    BY <2>1
  <2>3. QED  BY <1>1, <2>2
<1>2. CASE ~(t > m)
  <2>1. (s + 1 .. t) \subseteq 1 .. m
    BY <1>2
  <2>2. {<<slot, k>> : k \in 1 .. m} \union {<<slot, k>> : k \in s + 1 .. t}
          = {<<slot, k>> : k \in 1 .. m}
    BY <2>1
  <2>3. QED  BY <1>2, <2>2
<1>3. QED  BY <1>1, <1>2

\* Where a page may start when as many images as m were shown
Within(s, m) ==
  s \in 0 .. ByteMod - 1 /\ s <= m /\ ((\E k \in Nat : s = k * Stride) \/ m >= ByteMod)

\* One page back
LEMMA StrideBack ==
  ASSUME NEW m \in Nat, NEW s, Within(s, m), s # 0,
         NEW t, t = (s + ByteMod - Stride) % ByteMod
  PROVE  Within(t, m) /\ (t + Stride <= m \/ m >= ByteMod)
<1>1. /\ Stride \in Nat \ {0} /\ Stride < ByteMod /\ ByteMod \in Nat \ {0}
  BY MenuAssumption DEF Stride, PageSize
<1>2. \A k \in 0 .. ByteMod - 1 : (k + ByteMod) % ByteMod = k
  BY <1>1
<1>3. s \in 0 .. ByteMod - 1 /\ s <= m
  BY DEF Within
<1>4. t \in 0 .. ByteMod - 1
  BY <1>1, <1>3
<1>5. CASE m >= ByteMod
  BY <1>1, <1>4, <1>5 DEF Within
<1>6. CASE \E k \in Nat : s = k * Stride
  <2>1. PICK k \in Nat : s = k * Stride
    BY <1>6
  <2>2. k # 0
    BY <1>1, <2>1
  <2>3. k - 1 \in Nat /\ s = (k - 1) * Stride + Stride /\ (k - 1) * Stride \in Nat
    BY <1>1, <2>1, <2>2
  <2>4. s - Stride \in 0 .. ByteMod - 1 /\ s + ByteMod - Stride = (s - Stride) + ByteMod
    BY <1>1, <1>3, <2>3
  <2>5. t = s - Stride
    BY <1>2, <2>4
  <2>6. t + Stride <= m /\ t <= m
    BY <1>1, <1>3, <2>5
  <2>7. ASSUME NEW q \in Nat, s = q + Stride PROVE t = q
    BY <1>1, <1>3, <2>5, <2>7
  <2>8. t = (k - 1) * Stride
    BY <2>3, <2>7
  <2>9. QED  BY <1>4, <2>3, <2>6, <2>8 DEF Within
<1>7. QED  BY <1>5, <1>6 DEF Within

\* One page on
LEMMA StrideOn ==
  ASSUME NEW m \in Nat, NEW s, Within(s, m), s + Stride <= m \/ m >= ByteMod,
         NEW t, t = (s + Stride) % ByteMod
  PROVE  Within(t, m)
<1>1. /\ Stride \in Nat \ {0} /\ Stride < ByteMod /\ ByteMod \in Nat \ {0}
  BY MenuAssumption DEF Stride, PageSize
<1>2. s \in 0 .. ByteMod - 1
  BY DEF Within
<1>3. t \in 0 .. ByteMod - 1
  BY <1>1, <1>2
<1>4. CASE m >= ByteMod
  BY <1>1, <1>3, <1>4 DEF Within
<1>5. CASE ~(m >= ByteMod)
  <2>1. s + Stride \in 0 .. ByteMod - 1
    BY <1>1, <1>2, <1>5
  <2>2. t = s + Stride
    BY <1>1, <2>1
  <2>3. PICK k \in Nat : s = k * Stride
    BY <1>5 DEF Within
  <2>4. t = (k + 1) * Stride /\ k + 1 \in Nat
    BY <1>1, <2>2, <2>3
  <2>5. t <= m
    BY <1>1, <1>5, <2>2
  <2>6. QED  BY <1>3, <2>4, <2>5 DEF Within
<1>6. QED  BY <1>4, <1>5

\* So the cursor moves from a page only to where a page may start.
LEMMA PageMoves ==
  ASSUME NEW j, NEW m \in Nat, Within(fsel_pagestart, m),
         fsel_hasnextpage => fsel_pagestart + Stride <= m,
         NEW b, b = [y |-> menu_y, start |-> fsel_pagestart, redraw |-> fsel_redraw]
  PROVE  Within(GoDown(GoUp(b, j), j).start, m)
<1> DEFINE s == fsel_pagestart
           u == GoUp(b, j)
<1>1. /\ DOMAIN u = {"y", "start", "redraw"} /\ Within(u.start, m)
      /\ fsel_hasnextpage => u.start + Stride <= m \/ m >= ByteMod
  <2>1. CASE "UP" \in j /\ ~(menu_y > 0) /\ s # 0
    <3>1. u = [y |-> NLines - 1, start |-> (s + ByteMod - Stride) % ByteMod, redraw |-> TRUE]
      BY <2>1 DEF GoUp
    <3>2. QED  BY <2>1, <3>1, StrideBack
  <2>2. CASE "UP" \in j /\ menu_y > 0
    <3>1. u = [b EXCEPT !.y = b.y - 1]
      BY <2>2 DEF GoUp
    <3>2. QED  BY <3>1
  <2>3. CASE "UP" \notin j \/ (~(menu_y > 0) /\ s = 0)
    <3>1. u = b
      BY <2>3 DEF GoUp
    <3>2. QED  BY <3>1
  <2>4. QED  BY <2>1, <2>2, <2>3
<1>2. ASSUME NEW e, DOMAIN e = {"y", "start", "redraw"}, Within(e.start, m),
             fsel_hasnextpage => e.start + Stride <= m \/ m >= ByteMod
      PROVE  Within(GoDown(e, j).start, m)
  <2>1. CASE "DN" \in j /\ ~(e.y < NLines - 1) /\ fsel_hasnextpage
    <3>1. GoDown(e, j).start = (e.start + Stride) % ByteMod
      BY <2>1 DEF GoDown
    <3>2. QED  BY <1>2, <2>1, <3>1, StrideOn
  <2>2. CASE "DN" \in j /\ e.y < NLines - 1
    <3>1. GoDown(e, j) = [e EXCEPT !.y = e.y + 1]
      BY <2>2 DEF GoDown
    <3>2. QED  BY <1>2, <3>1
  <2>3. CASE "DN" \notin j \/ (~(e.y < NLines - 1) /\ ~fsel_hasnextpage)
    BY <1>2, <2>3 DEF GoDown
  <2>4. QED  BY <2>1, <2>2, <2>3
<1>3. QED  BY <1>1, <1>2

\* A page that is still to be drawn stays so.
LEMMA RedrawStays ==
  ASSUME NEW j, NEW b, b = [y |-> menu_y, start |-> fsel_pagestart, redraw |-> fsel_redraw]
  PROVE  fsel_redraw => GoDown(GoUp(b, j), j).redraw
<1> SUFFICES ASSUME fsel_redraw PROVE GoDown(GoUp(b, j), j).redraw
  OBVIOUS
<1>1. GoUp(b, j).redraw /\ DOMAIN GoUp(b, j) = {"y", "start", "redraw"}
  BY DEF GoUp
<1>2. ASSUME NEW e, e.redraw, DOMAIN e = {"y", "start", "redraw"}
      PROVE  GoDown(e, j).redraw
  BY <1>2 DEF GoDown
<1>3. QED  BY <1>1, <1>2

\* The first page is drawn from the beginning, whatever keys are down when it is.
LEMMA FirstPage ==
  ASSUME NEW j, menu_y = 0, fsel_pagestart = 0, NLines > 1,
         NEW b, b = [y |-> menu_y, start |-> fsel_pagestart, redraw |-> fsel_redraw]
  PROVE  GoDown(GoUp(b, j), j).start = 0
<1>1. GoUp(b, j) = b
  BY DEF GoUp
<1>2. "DN" \in j => GoDown(b, j) = [b EXCEPT !.y = b.y + 1]
  BY MenuAssumption DEF GoDown
<1>3. "DN" \notin j => GoDown(b, j) = b
  BY DEF GoDown
<1>4. QED  BY <1>1, <1>2, <1>3

\* A key in the selector draws pages that leave no name out.
LEMMA FselShown ==
  ASSUME NLines > 1, InvLit, InvShown, NEW j, InFsel(j), slot' = slot
  PROVE  InvShown'
<1> DEFINE b == [y |-> menu_y, start |-> fsel_pagestart, redraw |-> fsel_redraw]
           c == GoDown(GoUp(b, j), j)
           n == NFiles[slot]
<1>1. state = "FSEL" /\ fsel_redraw' = FALSE
  BY DEF InFsel
<1>2. IF c.redraw
      THEN \E d \in Drawn(c.start) :
             /\ fsel_pagestart' = d.start /\ fsel_hasnextpage' = d.next
             /\ clean' = (clean /\ d \in Whole(c.start))
             /\ seen' = IF clean' THEN seen \union ({d.page[i] : i \in Index} \ {Blank}) ELSE {}
      ELSE UNCHANGED <<fsel_pagestart, fsel_hasnextpage, clean, seen>>
  BY DEF InFsel, view
<1> HIDE DEF c
<1>3. slot \in Cards \union {NoCard}
  BY DEF InvShown
<1>4. CASE ~clean'
  BY <1>1, <1>3, <1>4 DEF InvShown
<1>5. CASE clean' /\ ~c.redraw
  <2>1. ~fsel_redraw
    BY <1>5, RedrawStays DEF c
  <2>2. UNCHANGED <<fsel_pagestart, fsel_hasnextpage, clean, seen>>
    BY <1>2, <1>5
  <2>3. QED  BY <1>1, <1>5, <2>1, <2>2 DEF InvShown, Extent, Top
<1>6. CASE clean' /\ c.redraw
  <2>1. PICK d \in Drawn(c.start) :
               /\ fsel_pagestart' = d.start /\ fsel_hasnextpage' = d.next
               /\ clean /\ d \in Whole(c.start)
               /\ seen' = seen \union ({d.page[i] : i \in Index} \ {Blank})
    BY <1>2, <1>6
  <2>2. PICK m \in Nat : /\ slot \in Cards => m \in 0 .. n
                         /\ seen = {<<slot, k>> : k \in 1 .. m}
                         /\ Within(c.start, m)
    <3>1. CASE fsel_redraw
      <4>1. menu_y = 0 /\ fsel_pagestart = 0 /\ seen = {}
        BY <1>1, <2>1, <3>1 DEF InvShown
      <4>2. c.start = 0
        BY <4>1, FirstPage DEF c
      <4>3. Within(0, 0)
        BY MenuAssumption DEF Within, Stride, PageSize
      <4>4. seen = {<<slot, k>> : k \in 1 .. 0}
        BY <4>1
      <4>5. slot \in Cards => 0 \in 0 .. n
        BY DirectoriesAssumption
      <4>6. QED  BY <4>2, <4>3, <4>4, <4>5
    <3>2. CASE ~fsel_redraw
      <4>1. /\ slot \in Cards /\ fsel_pagestart \in 0 .. ByteMod - 1
            /\ fsel_hasnextpage <=> fsel_pagestart + PageSize <= n
        BY <1>1, <2>1, <3>2 DEF InvShown
      <4>2. PICK m \in 0 .. n : Extent(m)
        BY <1>1, <2>1, <3>2 DEF InvShown
      <4>3. Within(fsel_pagestart, m)
        BY <4>1, <4>2 DEF Within, Extent
      <4>4. fsel_hasnextpage => fsel_pagestart + Stride <= m
        <5>1. fsel_hasnextpage => fsel_pagestart + PageSize <= m
          BY <4>1, <4>2 DEF Extent, Top
        <5>2. n \in Nat /\ PageSize \in Nat /\ Stride = PageSize - 1
          BY <4>1, DirectoriesAssumption, MenuAssumption DEF PageSize, Stride
        <5>3. QED  BY <4>1, <5>1, <5>2
      <4>5. m \in Nat
        BY <4>1, DirectoriesAssumption
      <4>6. Within(c.start, m)
        BY <4>3, <4>4, <4>5, PageMoves DEF c
      <4>7. QED  BY <4>2, <4>5, <4>6 DEF Extent
    <3>3. QED  BY <3>1, <3>2
  <2>3. c.start \in 0 .. ByteMod - 1 /\ c.start <= m /\ c.start \in Nat
    BY <2>2, MenuAssumption DEF Within
  <2>4. /\ slot \in Cards /\ c.start <= n /\ d.start = c.start
        /\ d.next <=> c.start + PageSize <= n
        /\ {d.page[i] : i \in Index} \ {Blank} = {<<slot, k>> : k \in c.start + 1 .. Top(c.start)}
    BY <1>3, <2>1, <2>3, FineDrawing
  <2>5. n \in Nat /\ m \in 0 .. n /\ Top(c.start) \in 0 .. n
    BY <2>2, <2>3, <2>4, DirectoriesAssumption, MenuAssumption DEF Top, PageSize
  <2> DEFINE t == Top(c.start)
  <2>6. PICK u \in 0 .. n : m <= u /\ t <= u /\ seen' = {<<slot, k>> : k \in 1 .. u}
    <3>1. seen' = seen \union {<<slot, k>> : k \in c.start + 1 .. t}
      BY <2>1, <2>4
    <3>2. t \in 0 .. n
      BY <2>5
    <3>3. \E u \in 0 .. n :
            /\ m <= u /\ t <= u
            /\ {<<slot, k>> : k \in 1 .. m} \union {<<slot, k>> : k \in c.start + 1 .. t}
                 = {<<slot, k>> : k \in 1 .. u}
      <4> HIDE DEF t
      <4>1. QED  BY <2>3, <2>5, <3>2, Shows
    <3>4. QED  BY <2>2, <3>1, <3>3
  <2>7. fsel_pagestart' = c.start /\ Top(fsel_pagestart)' = t
    BY <2>1, <2>4 DEF Top
  <2>8. fsel_pagestart' <= u /\ ((\E k \in Nat : c.start = k * Stride) \/ u >= ByteMod)
    BY <2>2, <2>3, <2>5, <2>6, <2>7, MenuAssumption DEF Within
  <2>9. Extent(u)'
    BY <2>6, <2>7, <2>8 DEF Extent
  <2>10. fsel_hasnextpage' <=> fsel_pagestart' + PageSize <= n
    BY <2>1, <2>4
  <2>11. QED  BY <1>1, <1>3, <2>3, <2>4, <2>6, <2>7, <2>9, <2>10 DEF InvShown
<1>7. QED  BY <1>4, <1>5, <1>6

\* Opening the selector starts over, and to leave it forgets what was shown.
LEMMA DispatchShown ==
  ASSUME NLines > 1, InvLit, InvShown, NEW j, Dispatch(j), slot' = slot
  PROVE  InvShown'
<1>1. slot' \in Cards \union {NoCard}
  BY DEF InvShown
<1>2. CASE InFsel(j)
  BY <1>2, FselShown
<1>3. CASE InWaitBreak(j)
  <2>1. CASE state' = "FSEL"
    <3>1. FselInit
      BY <1>3, <2>1 DEF InWaitBreak
    <3>2. menu_y' = 0 /\ fsel_pagestart' = 0 /\ fsel_redraw' = TRUE /\ seen' = {}
      BY <3>1 DEF FselInit
    <3>3. QED  BY <1>1, <3>2 DEF InvShown
  <2>2. QED  BY <1>1, <2>1 DEF InvShown
<1>4. CASE InMenu(j) \/ InAbout(j) \/ InWaitBreak2(j)
  <2>1. state' # "FSEL"
    BY <1>4 DEF InMenu, InAbout, InWaitBreak2, MenuInit
  <2>2. QED  BY <1>1, <2>1 DEF InvShown
<1>5. QED  BY <1>2, <1>3, <1>4 DEF Dispatch

\* A step that leaves the selector as it was keeps InvShown.
LEMMA SameShown ==
  ASSUME InvShown, UNCHANGED <<slot, state, menu_y, fsel_pagestart, fsel_redraw, fsel_hasnextpage,
                               clean, seen>>
  PROVE  InvShown'
  BY DEF InvShown, Extent, Top

\* Every step keeps InvShown.
LEMMA NextInvShown ==
  ASSUME NLines > 1, InvLit, InvShown, [Next]_vars
  PROVE  InvShown'
<1>1. slot \in Cards \union {NoCard}
  BY DEF InvShown
<1>2. CASE Call
  <2>1. slot' = slot
    BY <1>2 DEF Call
  <2>2. state' = "MENU" \/ UNCHANGED <<state, cursor, pager, view>>
    BY <1>2 DEF Call, Insert, MenuInit
  <2>3. CASE state' = "MENU"
    BY <1>1, <2>1, <2>3 DEF InvShown
  <2>4. CASE UNCHANGED <<state, cursor, pager, view>>
    BY <2>1, <2>4, SameShown DEF cursor, pager, view
  <2>5. QED  BY <2>2, <2>3, <2>4
<1>3. CASE Keys
  <2>1. slot' = slot
    BY <1>3 DEF Keys
  <2>2. CASE UNCHANGED <<state, cursor, pager, view>>
    BY <2>1, <2>2, SameShown DEF cursor, pager, view
  <2>3. QED  BY <1>3, <2>1, <2>2, KeysCases, DispatchShown
<1>4. CASE Swap
  BY <1>4 DEF Swap, InvShown
<1>5. CASE Press \/ UNCHANGED vars
  BY <1>5, SameShown DEF Press, vars, cursor, pager, view
<1>6. QED  BY <1>2, <1>3, <1>4, <1>5 DEF Next

\* The machine starts in the menu.
LEMMA InitInvShown == Init => InvShown
  BY DEF Init, InvShown

\* When no page follows, all of the directory was shown.
LEMMA ShownAll == InvShown => EndSeesAll
<1> SUFFICES ASSUME InvShown, state = "FSEL", ~fsel_redraw, clean, ~fsel_hasnextpage
             PROVE  seen = {<<slot, k>> : k \in 1 .. NFiles[slot]}
  BY DEF EndSeesAll
<1>1. /\ slot \in Cards /\ fsel_pagestart \in 0 .. ByteMod - 1
      /\ ~(fsel_pagestart + PageSize <= NFiles[slot])
  BY DEF InvShown
<1>2. PICK m \in 0 .. NFiles[slot] : Extent(m)
  BY DEF InvShown
<1>3. m = NFiles[slot]
  BY <1>1, <1>2, DirectoriesAssumption DEF Extent, Top
<1>4. QED  BY <1>2, <1>3 DEF Extent

\* Paging down to the last page shows every image of the directory, however many
\* there are, if a page has more than one line.
THEOREM EndSeesAllCorrect == NLines > 1 => (Spec => []EndSeesAll)
<1> SUFFICES ASSUME NLines > 1 PROVE Spec => []EndSeesAll
  OBVIOUS
<1>1. InvLit /\ InvShown /\ [Next]_vars => InvShown'
  BY NextInvShown
<1>2. QED  BY <1>1, InitInvLit, NextInvLit, InitInvShown, ShownAll, PTL DEF Spec
=============================================================================
