----------------------------- MODULE CardProofs -----------------------------
(***************************************************************************)
(* Theorems about what the driver of the SD card moves.  That a card is    *)
(* never addressed in the unit of another (TypeMatches) is not inductive:  *)
(* it must be known which commands each place of disk_initialize sends,    *)
(* that no other call sends one of those that get a card ready, and that a *)
(* card addressed by blocks is not ready on the path that takes it for one *)
(* addressed by bytes.  What makes the blocks that disk_read and           *)
(* disk_write move the right ones (Stored, Delivers) is that a card that   *)
(* runs a transfer is the card of the call, that it stands at the block    *)
(* which is next, and that what was moved are the blocks up to there.      *)
(***************************************************************************)
EXTENDS Card, TLAPS, SequenceTheorems

\* What the two records consist of.
WkFields == {"at", "step", "cmds", "arg", "ff", "r", "left", "ty"}
IsWk(w)  == w = [f \in WkFields |-> w[f]]
CdFields == {"mode", "op", "addr", "busy", "token"}
CdModes  == {"native", "idle", "ready"}
IsCd(c)  == c = [f \in CdFields |-> c[f]] /\ c.mode \in CdModes

\* The places and the commands of the calls other than disk_initialize, none
\* of which gets a card ready, or idle.
OtherSteps ==
  {"POLL", "READ", "WRITE", "ERASE", "STOPPED", "DATA", "STOP", "OFF", "SYNC", "REGISTER"}
OtherCmds ==
  {<<>>, <<"CMD58">>, <<"CMD12">>, <<"CMD9">>, <<"CMD10">>, <<"CMD13">>, <<"CMD55", "CMD13">>,
   <<"CMD17">>, <<"CMD18">>, <<"CMD24">>, <<"CMD25">>, <<"CMD55", "CMD23">>, <<"CMD23">>}
Changing == {"CMD0", "CMD1", "CMD41"}
Quiet(w) ==
  \/ w.at = "REST"
  \/ w.step \in OtherSteps /\ w.cmds \in OtherCmds /\ (w.at = "SEND" => w.cmds # <<>>)
InvOther == call.op # "init" => Quiet(wk)

\* What disk_initialize sends, and where.
InitPlaces == {"WAIT", "TEST", "SEND", "REPLIED", "OFF"}
Opens == {<<"CMD55", "CMD41">>, <<"CMD41">>}
Sendable(step, cmds, arg, ty) ==
  \/ step = "GO_IDLE" /\ cmds = <<"CMD0">>
  \/ step = "IF_COND" /\ cmds = <<"CMD8">>
  \/ step = "OP_COND" /\ cmds \in Opens
  \/ step = "OCR" /\ cmds = <<"CMD58">>
  \/ step = "SDC" /\ cmds \in Opens /\ arg = 0
  \/ step = "LEAVE" /\ cmds \in Opens \union {<<"CMD1">>} /\ arg = 0 /\ ty \in {1, 2}
  \/ step = "BLOCKLEN" /\ cmds = <<"CMD16">> /\ ty \in {1, 2}
  \/ step = "OFF" /\ cmds = <<>>
Sends(w) == Sendable(w.step, w.cmds, w.arg, w.ty) /\ (w.at = "SEND" => w.cmds # <<>>)
InvInit == call.op = "init" /\ wk.at # "REST" => wk.at \in InitPlaces /\ Sends(wk)

\* Where disk_initialize takes the card for one addressed by bytes, one that is
\* addressed by blocks has not got ready.
ByBytes(w) ==
  \/ w.step \in {"IF_COND", "SDC", "LEAVE", "BLOCKLEN"}
  \/ w.step = "GO_IDLE" /\ w.at = "REPLIED" /\ w.r = "idle"
InvUnit ==
  call.op = "init" /\ wk.at # "REST" /\ ByBytes(wk) /\ slot # NoCard /\ Kind[slot] = "SDHC"
    => cd.mode # "ready"

InvShape == IsWk(wk) /\ IsCd(cd)
InvEmpty == slot = NoCard => cd.mode = "native"
IInv == InvShape /\ InvEmpty /\ InvOther /\ InvInit /\ InvUnit /\ TypeMatches

-----------------------------------------------------------------------------
\* How an action may treat the card: it leaves it in its mode, or it is pulled.
CardKept == IsCd(cd') /\ ((slot' = slot /\ cd'.mode = cd.mode) \/ cd'.mode = "native")

\* A step of the card and the timers.
LEMMA OutsideKeeps ==
  ASSUME IInv, CardKept, UNCHANGED <<noinit, CardType, call, wk>>
  PROVE  IInv'
<1>1. InvShape' /\ InvEmpty' /\ InvOther' /\ InvInit'
  BY DEF IInv, CardKept, InvShape, InvEmpty, InvOther, InvInit
<1>2. InvUnit'
  BY DEF IInv, CardKept, InvUnit
<1>3. TypeMatches'
  BY DEF IInv, CardKept, TypeMatches, At
<1>4. QED  BY <1>1, <1>2, <1>3 DEF IInv

\* A step within a call other than disk_initialize, or its end.
LEMMA OtherKeeps ==
  ASSUME IInv, CardKept, call.op # "init", wk.at # "REST", UNCHANGED <<CardType, call>>,
         noinit' = noinit \/ noinit' = TRUE, IsWk(wk'), Quiet(wk')
  PROVE  IInv'
<1>1. InvShape' /\ InvEmpty' /\ InvOther' /\ InvInit' /\ InvUnit'
  BY DEF IInv, CardKept, InvShape, InvEmpty, InvOther, InvInit, InvUnit
<1>2. TypeMatches'
  BY DEF IInv, CardKept, TypeMatches, At
<1>3. QED  BY <1>1, <1>2 DEF IInv

\* A step within disk_initialize.
LEMMA InitKeeps ==
  ASSUME call.op = "init", call' = call, IsCd(cd'), InvEmpty', IsWk(wk'),
         wk'.at \in InitPlaces, Sends(wk'),
         ByBytes(wk') /\ slot' # NoCard /\ Kind[slot'] = "SDHC" => cd'.mode # "ready"
  PROVE  IInv'
<1>1. InvShape' /\ InvOther' /\ InvInit' /\ InvUnit'
  BY DEF InvShape, InvOther, InvInit, InvUnit
<1>2. TypeMatches'
  BY DEF TypeMatches, At, InitPlaces
<1>3. QED  BY <1>1, <1>2 DEF IInv

\* The end of disk_initialize: without a card that is ready, or with its unit known.
LEMMA EndKeeps ==
  ASSUME IInv, UNCHANGED card, call.op = "init", wk.at # "REST", call' = call, IsWk(wk'), wk'.at = "REST",
         \/ noinit' = TRUE
         \/ slot # NoCard /\ cd.mode = "ready" => (CardType' = 12) = (Kind[slot] = "SDHC")
  PROVE  IInv'
<1>1. InvShape' /\ InvEmpty' /\ InvOther' /\ InvInit' /\ InvUnit'
  BY DEF IInv, InvShape, InvEmpty, InvOther, InvInit, InvUnit, card
<1>2. TypeMatches'
  BY DEF TypeMatches, At, card
<1>3. QED  BY <1>1, <1>2 DEF IInv

\* A call begins, or is refused.
LEMMA BeginKeeps ==
  ASSUME IInv, wk.at = "REST", UNCHANGED <<card, noinit, CardType>>, IsWk(wk'),
         \/ wk'.at = "REST"
         \/ call'.op # "init" /\ Quiet(wk')
         \/ call'.op = "init" /\ wk'.at = "WAIT" /\ wk'.step = "GO_IDLE" /\ wk'.cmds = <<"CMD0">>
  PROVE  IInv'
<1>1. InvShape' /\ InvEmpty' /\ InvOther'
  BY DEF IInv, InvShape, InvEmpty, InvOther, Quiet, card
<1>2. InvInit'
  BY DEF InvInit, InitPlaces, Sends, Sendable
<1>3. InvUnit'
  BY DEF InvUnit, ByBytes
<1>4. TypeMatches'
  BY DEF IInv, TypeMatches, At, card
<1>5. QED  BY <1>1, <1>2, <1>3, <1>4 DEF IInv

-----------------------------------------------------------------------------
\* The records that actions make of them.
LEMMA RestingFacts ==
  /\ IsWk(Resting) /\ Resting.at = "REST" /\ Resting.cmds = <<>> /\ Resting.arg = 0
  /\ \A s : LET x == [Resting EXCEPT !.step = s] IN IsWk(x) /\ x.step = s /\ x.cmds = <<>>
  BY DEF IsWk, WkFields, Resting

\* A card after power-up.
LEMMA AsleepFacts == IsCd(Asleep) /\ Asleep.mode = "native"
  BY DEF IsCd, CdFields, CdModes, Asleep
\* A card in a given mode.
LEMMA StirredFacts == ASSUME NEW m \in CdModes PROVE IsCd(Stirred(m)) /\ Stirred(m).mode = m
  BY DEF IsCd, CdFields, CdModes, Asleep, Stirred

\* What becomes of the mode of the card that a command is sent to.
LEMMA OrdinaryMode ==
  ASSUME IsCd(cd), NEW cmd, NEW arg, NEW a \in Ordinary(cmd, arg)
  PROVE  /\ IsCd(a.cd)
         /\ cmd \notin {"CMD1", "CMD41"} => a.cd.mode = cd.mode
         /\ arg = 0 /\ Kind[slot] = "SDHC" /\ cd.mode = "idle" => a.cd.mode # "ready"
<1> DEFINE still == [cd EXCEPT !.op = "none", !.token = "none"]
<1>1. IsCd(still) /\ still.mode = cd.mode
  BY DEF IsCd, CdFields, CdModes
<1>2. \A r, c : Yes(r, c).cd = c
  BY DEF Yes
<1>3. CASE a = Yes("idle", still) \/ \E r : a = Yes(r, still)
  <2>1. a.cd = still
    BY <1>2, <1>3
  <2>2. QED  BY <1>1, <2>1
<1>4. CASE /\ cmd \in {"CMD1", "CMD41"} /\ a = Yes("ready", [still EXCEPT !.mode = "ready"])
           /\ R1 = "ready" \/ arg = Hcs \/ Kind[slot] # "SDHC"
  <2>1. a.cd = [still EXCEPT !.mode = "ready"]
    BY <1>2, <1>4
  <2>2. IsCd(a.cd)
    BY <1>1, <2>1 DEF IsCd, CdFields, CdModes
  <2>3. ~(arg = 0 /\ Kind[slot] = "SDHC" /\ cd.mode = "idle")
    BY <1>4 DEF R1, Hcs
  <2>4. QED  BY <1>4, <2>2, <2>3
<1>5. CASE \E o : a = Yes("ready", [still EXCEPT !.op = o, !.addr = arg])
  <2>1. PICK o : a = Yes("ready", [still EXCEPT !.op = o, !.addr = arg])
    BY <1>5
  <2>2. a.cd = [still EXCEPT !.op = o, !.addr = arg]
    BY <1>2, <2>1
  <2>3. IsCd(a.cd) /\ a.cd.mode = still.mode
    BY <1>1, <2>2 DEF IsCd, CdFields, CdModes
  <2>4. QED  BY <1>1, <2>3
<1>6. QED
  BY <1>3, <1>4, <1>5 DEF Ordinary

\* How answering a command changes the mode of a card.
LEMMA AnswersMode ==
  ASSUME IsCd(cd), NEW cmd, NEW arg, NEW a \in Answers(cmd, arg)
  PROVE  /\ IsCd(a.cd)
         /\ slot = NoCard \/ cmd \notin Changing => a.cd.mode = cd.mode
         /\ cmd = "CMD0" /\ a.r = "idle" /\ slot # NoCard => a.cd.mode # "ready"
         /\ /\ cmd # "CMD0" /\ arg = 0 /\ slot # NoCard /\ Kind[slot] = "SDHC"
            /\ cd.mode # "ready"
            => a.cd.mode # "ready"
<1>1. \A r, c : Yes(r, c).cd = c /\ Yes(r, c).r = r
  BY DEF Yes
<1>2. CASE a = Yes("error", cd)
  BY <1>1, <1>2
<1>3. CASE slot # NoCard /\ a \in Proper(cmd, arg)
  <2>1. CASE cmd = "CMD0"
    BY <1>1, <1>3, <2>1, StirredFacts DEF Proper, Changing, CdModes
  <2>2. CASE cmd # "CMD0" /\ a = Yes("error", cd)
    BY <1>1, <2>2
  <2>3. CASE cmd = "CMD12" /\ \E b : a = Yes("ready", [cd EXCEPT !.op = "none", !.token = "none", !.busy = b])
    <3>1. PICK b : a = Yes("ready", [cd EXCEPT !.op = "none", !.token = "none", !.busy = b])
      BY <2>3
    <3>2. a.cd = [cd EXCEPT !.op = "none", !.token = "none", !.busy = b]
      BY <1>1, <3>1
    <3>3. IsCd(a.cd) /\ a.cd.mode = cd.mode
      BY <3>2 DEF IsCd, CdFields, CdModes
    <3>4. QED  BY <2>3, <3>3
  <2>4. CASE cmd # "CMD0" /\ a \in Ordinary(cmd, arg) /\ cd.mode # "native"
    BY <1>3, <2>4, OrdinaryMode DEF Changing, IsCd, CdModes
  <2>5. QED  BY <1>3, <2>1, <2>2, <2>3, <2>4 DEF Proper
<1>4. QED  BY <1>2, <1>3 DEF Answers

\* The commands that follow one another.
LEMMA OneHead == ASSUME NEW x PROVE Head(<<x>>) = x /\ ~(Len(<<x>>) > 1) /\ <<x>> # <<>>
  OBVIOUS
\* Two commands, one after the other.
LEMMA TwoHeads == ASSUME NEW x, NEW y PROVE Head(<<x, y>>) = x /\ Tail(<<x, y>>) = <<y>> /\ <<x, y>> # <<>>
  OBVIOUS
\* The commands of the other calls leave the mode of a card alone.
LEMMA OtherHeads ==
  ASSUME NEW cs \in OtherCmds
  PROVE  /\ cs # <<>> => Head(cs) \notin Changing
         /\ Len(cs) > 1 => Tail(cs) \in OtherCmds
<1>1. ASSUME NEW x, x \notin Changing, cs = <<x>>
      PROVE  Head(cs) \notin Changing /\ ~(Len(cs) > 1)
  BY <1>1, OneHead
<1>2. CASE cs = <<>>
  BY <1>2
<1>3. CASE cs = <<"CMD55", "CMD13">>
  <2>1. Head(cs) = "CMD55" /\ Tail(cs) = <<"CMD13">>
    BY <1>3, TwoHeads
  <2>2. QED  BY <2>1 DEF OtherCmds, Changing
<1>4. CASE cs = <<"CMD55", "CMD23">>
  <2>1. Head(cs) = "CMD55" /\ Tail(cs) = <<"CMD23">>
    BY <1>4, TwoHeads
  <2>2. QED  BY <2>1 DEF OtherCmds, Changing
<1>5. QED
  BY <1>1, <1>2, <1>3, <1>4, Zenon DEF OtherCmds, Changing
\* The commands that get a card ready are CMD55 and CMD41.
LEMMA OpensHeads ==
  ASSUME NEW cs \in Opens
  PROVE  /\ Head(cs) \in {"CMD55", "CMD41"} /\ cs # <<>>
         /\ Len(cs) > 1 => Tail(cs) \in Opens
<1>1. CASE cs = <<"CMD41">>
  BY <1>1, OneHead
<1>2. CASE cs = <<"CMD55", "CMD41">>
  <2>1. Head(cs) = "CMD55" /\ Tail(cs) = <<"CMD41">> /\ cs # <<>>
    BY <1>2, TwoHeads
  <2>2. QED  BY <2>1 DEF Opens
<1>3. QED  BY <1>1, <1>2 DEF Opens

-----------------------------------------------------------------------------
\* The invariant holds at the start.
LEMMA InitIInv == Init => IInv
<1> SUFFICES ASSUME Init PROVE IInv
  OBVIOUS
<1>1. InvShape /\ InvEmpty
  BY RestingFacts, AsleepFacts DEF Init, InvShape, InvEmpty
<1>2. wk.at = "REST" /\ noinit = TRUE
  BY RestingFacts DEF Init
<1>3. QED
  BY <1>1, <1>2 DEF IInv, InvOther, Quiet, InvInit, InvUnit, TypeMatches

\* Nothing but the card and the timers
LEMMA OutsideStep ==
  ASSUME IInv, CardWorks \/ (\E i \in 1 .. 2 : Tick(i)) \/ Swap \/ Wobble
  PROVE  IInv'
<1>1. UNCHANGED <<noinit, CardType, call, wk>>
  BY DEF CardWorks, Tick, Swap, Wobble
<1>2. IsCd(cd) /\ (slot = NoCard => cd.mode = "native")
  BY DEF IInv, InvShape, InvEmpty
<1>3. CASE CardWorks
  <2>1. slot' = slot
    BY <1>3 DEF CardWorks
  <2>2. \/ cd' = [cd EXCEPT !.busy = FALSE]
        \/ \E t : cd' = [cd EXCEPT !.token = t]
    BY <1>3 DEF CardWorks, Unbusy, Prepare
  <2>3. IsCd(cd') /\ cd'.mode = cd.mode
    <3>1. CASE cd' = [cd EXCEPT !.busy = FALSE]
      BY <1>2, <3>1 DEF IsCd, CdFields, CdModes
    <3>2. ASSUME NEW t, cd' = [cd EXCEPT !.token = t]
          PROVE  IsCd(cd') /\ cd'.mode = cd.mode
      BY <1>2, <3>2 DEF IsCd, CdFields, CdModes
    <3>3. QED  BY <2>2, <3>1, <3>2
  <2>4. CardKept
    BY <2>1, <2>3 DEF CardKept
  <2>5. QED  BY <1>1, <2>4, OutsideKeeps
<1>4. CASE \E i \in 1 .. 2 : Tick(i)
  <2>1. CardKept
    BY <1>2, <1>4 DEF CardKept, Tick, card
  <2>2. QED  BY <1>1, <2>1, OutsideKeeps
<1>5. CASE Swap
  <2>1. CASE Pulled
    <3>1. CardKept
      BY <2>1, AsleepFacts DEF CardKept, Pulled
    <3>2. QED  BY <1>1, <3>1, OutsideKeeps
  <2>2. CASE slot = NoCard /\ UNCHANGED cd
    <3>1. CardKept
      BY <1>2, <2>2 DEF CardKept
    <3>2. QED  BY <1>1, <3>1, OutsideKeeps
  <2>3. QED  BY <1>5, <2>1, <2>2 DEF Swap
<1>6. CASE Wobble
  <2>1. CardKept
    BY <1>2, <1>6 DEF CardKept, Wobble
  <2>2. QED  BY <1>1, <2>1, OutsideKeeps
<1>7. QED  BY <1>3, <1>4, <1>5, <1>6

\* How send_cmd is started.
LEMMA PacketFacts ==
  ASSUME IsWk(wk), NEW s, NEW cs, NEW n
  PROVE  /\ IsWk(Packet(s, cs, n)) /\ Packet(s, cs, n).at = "WAIT"
         /\ Packet(s, cs, n).step = s /\ Packet(s, cs, n).cmds = cs /\ Packet(s, cs, n).arg = n
         /\ Packet(s, cs, n).ty = wk.ty /\ Packet(s, cs, n).left = wk.left
  BY DEF IsWk, WkFields, Packet
\* Waiting for the card keeps what is to be sent.
LEMMA WaitFacts ==
  ASSUME NEW w, IsWk(w), Wait(w)
  PROVE  /\ IsWk(wk') /\ wk'.at = "WAIT" /\ wk'.step = w.step /\ wk'.cmds = w.cmds
         /\ wk'.arg = w.arg /\ wk'.ty = w.ty /\ wk'.r = w.r /\ wk'.left = w.left
  BY DEF IsWk, WkFields, Wait
\* Sending a command sets what is to be sent, and waits.
LEMMA CommandFacts ==
  ASSUME IsWk(wk), NEW s, NEW cs, NEW n, Command(s, cs, n)
  PROVE  /\ IsWk(wk') /\ wk'.at = "WAIT" /\ wk'.step = s /\ wk'.cmds = cs /\ wk'.arg = n
         /\ wk'.ty = wk.ty /\ wk'.left = wk.left
<1>1. Wait(Packet(s, cs, n))
  BY DEF Command
<1>2. QED  BY <1>1, PacketFacts, WaitFacts
\* A call that returns leaves the driver at rest.
LEMMA ReturnFacts == ASSUME NEW a, Return(a) PROVE IsWk(wk') /\ wk'.at = "REST"
  BY RestingFacts DEF Return
\* Receiving a block keeps what is to be sent.
LEMMA ReceiveFacts ==
  ASSUME NEW w, IsWk(w), Receive(w)
  PROVE  /\ IsWk(wk') /\ wk'.at = "TOKEN" /\ wk'.step = w.step /\ wk'.cmds = w.cmds
         /\ wk'.left = w.left
  BY DEF Receive, IsWk, WkFields
\* Transmitting a block leaves nothing to be sent.
LEMMA TransmitFacts ==
  ASSUME IsWk(wk), NEW s, NEW n, Transmit(s, n)
  PROVE  IsWk(wk') /\ wk'.at = "WAIT" /\ wk'.step = s /\ wk'.cmds = <<>> /\ wk'.left = n
<1> DEFINE w == [wk EXCEPT !.step = s, !.cmds = <<>>, !.left = n]
<1>1. IsWk(w) /\ w.step = s /\ w.cmds = <<>> /\ w.left = n
  BY DEF IsWk, WkFields
<1>2. Wait(w)
  BY DEF Transmit
<1>3. QED  BY <1>1, <1>2, WaitFacts

\* What opens a transfer is not a step of disk_initialize.
LEMMA OpeningFacts ==
  ASSUME NEW c
  PROVE  Head(Opening(c)) \in OtherSteps /\ Tail(Opening(c)) \in OtherCmds
<1>1. \/ \E x \in {"CMD17", "CMD18"} : Opening(c) = <<"READ", x>>
      \/ Opening(c) = <<"ERASE", "CMD55", "CMD23">>
      \/ \E x \in {"CMD24", "CMD25"} : Opening(c) = <<"WRITE", x>>
  BY DEF Opening
<1>2. ASSUME NEW s \in {"READ", "WRITE"}, NEW x \in {"CMD17", "CMD18", "CMD24", "CMD25"},
             Opening(c) = <<s, x>>
      PROVE  Head(Opening(c)) \in OtherSteps /\ Tail(Opening(c)) \in OtherCmds
  <2>1. Head(Opening(c)) = s /\ Tail(Opening(c)) = <<x>>
    BY <1>2, TwoHeads
  <2>2. s \in OtherSteps /\ <<x>> \in OtherCmds
    BY Zenon DEF OtherSteps, OtherCmds
  <2>3. QED  BY <2>1, <2>2
<1>3. CASE Opening(c) = <<"ERASE", "CMD55", "CMD23">>
  <2>1. Head(Opening(c)) = "ERASE" /\ Tail(Opening(c)) = <<"CMD55", "CMD23">>
    BY <1>3
  <2>2. QED  BY <2>1, Zenon DEF OtherSteps, OtherCmds
<1>4. QED  BY <1>1, <1>2, <1>3
\* What asks for a register is not a command that changes the mode.
LEMMA QuestionFacts ==
  ASSUME NEW ctrl \in Controls \ {"POWER_OFF", "CTRL_SYNC", "GET_SECTOR_SIZE", "MMC_GET_TYPE"}
  PROVE  Question(ctrl) \in OtherCmds
<1>1. \/ Question(ctrl) = <<"CMD9">>
      \/ Question(ctrl) = <<"CMD10">>
      \/ Question(ctrl) = <<"CMD58">>
      \/ Question(ctrl) = <<"CMD55", "CMD13">>
  BY DEF Question, Controls
<1>2. QED
  BY <1>1, Zenon DEF OtherCmds

\* The calls begin.
LEMMA Begun == ASSUME NEW c, NEW a, Begin(c, a) PROVE UNCHANGED <<card, noinit, CardType>> /\ call' = c
  BY DEF Begin
\* A call that begins keeps the invariant.
LEMMA BeginStep ==
  ASSUME IInv, Poll \/ Initialize \/ Transfer \/ Ioctl
  PROVE  IInv'
<1>1. IsWk(wk)
  BY DEF IInv, InvShape
<1>2. wk.at = "REST"
  BY DEF Poll, Initialize, Transfer, Ioctl, At
<1>3. CASE Poll
  <2>1. IsWk(wk') /\ wk'.at = "WAIT" /\ wk'.step = "POLL" /\ wk'.cmds = <<"CMD58">>
    BY <1>1, <1>3, CommandFacts DEF Poll
  <2>2. UNCHANGED <<card, noinit, CardType>> /\ call' = [op |-> "poll"]
    BY <1>3, Begun DEF Poll
  <2>3. call'.op # "init"
    BY <2>2
  <2>4. Quiet(wk')
    BY <2>1 DEF Quiet, OtherSteps, OtherCmds
  <2>5. QED  BY <1>2, <2>1, <2>2, <2>3, <2>4, BeginKeeps
<1>4. CASE Initialize
  <2>1. IsWk(wk') /\ wk'.at = "WAIT" /\ wk'.step = "GO_IDLE" /\ wk'.cmds = <<"CMD0">>
    BY <1>1, <1>4, CommandFacts DEF Initialize
  <2>2. UNCHANGED <<card, noinit, CardType>> /\ call' = [op |-> "init"]
    BY <1>4, Begun DEF Initialize
  <2>3. call'.op = "init"
    BY <2>2
  <2>4. QED  BY <1>2, <2>1, <2>2, <2>3, BeginKeeps
<1>5. CASE Transfer
  <2>1. PICK c \in Calls :
          /\ c.op \in {"read", "write"}
          /\ \/ Begin(c, "NOTRDY") /\ UNCHANGED wk
             \/ Begin(c, "NONE") /\ Wait([Packet(Head(Opening(c)), Tail(Opening(c)), Address(c.sector))
                                            EXCEPT !.left = c.count])
    BY <1>5 DEF Transfer
  <2>2. UNCHANGED <<card, noinit, CardType>> /\ call'.op # "init"
    BY <2>1, Begun
  <2>3. CASE UNCHANGED wk
    BY <1>1, <1>2, <2>2, <2>3, BeginKeeps
  <2>4. CASE Wait([Packet(Head(Opening(c)), Tail(Opening(c)), Address(c.sector))
                     EXCEPT !.left = c.count])
    <3> DEFINE s == Head(Opening(c))
               cs == Tail(Opening(c))
               w == [Packet(s, cs, Address(c.sector)) EXCEPT !.left = c.count]
    <3>1. IsWk(w) /\ w.step = s /\ w.cmds = cs
      BY <1>1 DEF IsWk, WkFields, Packet
    <3>2. s \in OtherSteps /\ cs \in OtherCmds
      BY OpeningFacts
    <3>3. IsWk(wk') /\ wk'.at = "WAIT" /\ wk'.step = s /\ wk'.cmds = cs
      BY <2>4, <3>1, WaitFacts
    <3>4. Quiet(wk')
      BY <3>2, <3>3 DEF Quiet
    <3>5. QED  BY <1>2, <2>2, <3>3, <3>4, BeginKeeps
  <2>5. QED  BY <2>1, <2>3, <2>4
<1>6. CASE Ioctl
  <2>1. PICK c \in Calls :
          /\ c.op = "ioctl"
          /\ \/ \E a : Begin(c, a) /\ UNCHANGED wk
             \/ \E a, s : Begin(c, a) /\ s \in {"OFF", "SYNC"} /\ Wait([Resting EXCEPT !.step = s])
             \/ /\ c.ctrl \in Controls \ {"POWER_OFF", "CTRL_SYNC", "GET_SECTOR_SIZE", "MMC_GET_TYPE"}
                /\ Begin(c, "NONE") /\ Command("REGISTER", Question(c.ctrl), 0)
    BY <1>6, CallsAssumption DEF Ioctl
  <2>2. UNCHANGED <<card, noinit, CardType>> /\ call'.op # "init"
    BY <2>1, Begun
  <2>3. CASE UNCHANGED wk
    BY <1>1, <1>2, <2>2, <2>3, BeginKeeps
  <2>4. ASSUME NEW s \in {"OFF", "SYNC"}, Wait([Resting EXCEPT !.step = s])
        PROVE  IInv'
    <3>1. IsWk(wk') /\ wk'.at = "WAIT" /\ wk'.step = s /\ wk'.cmds = <<>>
      BY <2>4, RestingFacts, WaitFacts
    <3>2. Quiet(wk')
      BY <3>1 DEF Quiet, OtherSteps, OtherCmds
    <3>3. QED  BY <1>2, <2>2, <3>1, <3>2, BeginKeeps
  <2>5. CASE /\ c.ctrl \in Controls \ {"POWER_OFF", "CTRL_SYNC", "GET_SECTOR_SIZE", "MMC_GET_TYPE"}
             /\ Command("REGISTER", Question(c.ctrl), 0)
    <3>1. IsWk(wk') /\ wk'.at = "WAIT" /\ wk'.step = "REGISTER" /\ wk'.cmds = Question(c.ctrl)
      BY <1>1, <2>5, CommandFacts
    <3>2. Quiet(wk')
      BY <2>5, <3>1, QuestionFacts DEF Quiet, OtherSteps
    <3>3. QED  BY <1>2, <2>2, <3>1, <3>2, BeginKeeps
  <2>6. QED  BY <2>1, <2>3, <2>4, <2>5
<1>7. QED  BY <1>3, <1>4, <1>5, <1>6

\* The calls other than disk_initialize go on.
LEMMA OtherGoesOn ==
  ASSUME IInv, call.op # "init", wk.at # "REST", UNCHANGED <<CardType, call>>,
         noinit' = noinit \/ noinit' = TRUE, UNCHANGED card \/ CardKept, IsWk(wk'), Quiet(wk')
  PROVE  IInv'
<1>1. CardKept
  BY DEF IInv, InvShape, CardKept, card
<1>2. QED  BY <1>1, OtherKeeps

\* wait_ready and send_cmd
LEMMA OtherSends ==
  ASSUME IInv, call.op # "init", ReadByte \/ Test \/ Exchange
  PROVE  IInv'
<1>1. IsWk(wk) /\ IsCd(cd)
  BY DEF IInv, InvShape
<1>2. wk.at # "REST" /\ UNCHANGED <<CardType, call, noinit>>
  BY DEF ReadByte, Test, Exchange, At
<1>3. wk.step \in OtherSteps /\ wk.cmds \in OtherCmds /\ (wk.at = "SEND" => wk.cmds # <<>>)
  BY <1>2 DEF IInv, InvOther, Quiet
<1>4. CASE ReadByte
  <2>1. PICK ff : wk' = [wk EXCEPT !.at = "TEST", !.ff = ff]
    BY <1>4 DEF ReadByte
  <2>2. IsWk(wk') /\ wk'.at = "TEST" /\ wk'.step = wk.step /\ wk'.cmds = wk.cmds
    BY <1>1, <2>1 DEF IsWk, WkFields
  <2>3. Quiet(wk') /\ UNCHANGED card
    BY <1>3, <1>4, <2>2 DEF Quiet, ReadByte
  <2>4. QED  BY <1>2, <2>2, <2>3, OtherGoesOn
<1>5. CASE Test
  <2>1. \/ wk' = [wk EXCEPT !.at = "WAIT"]
        \/ \E p, r : /\ p \in OtherSteps \/ wk.cmds # <<>>
                    /\ wk' = [wk EXCEPT !.at = p, !.r = r]
    BY <1>3, <1>5 DEF Test
  <2>2. IsWk(wk') /\ Quiet(wk')
    <3>1. CASE wk' = [wk EXCEPT !.at = "WAIT"]
      <4>1. IsWk(wk') /\ wk'.at = "WAIT" /\ wk'.step = wk.step /\ wk'.cmds = wk.cmds
        BY <1>1, <3>1 DEF IsWk, WkFields
      <4>2. QED  BY <1>3, <4>1 DEF Quiet
    <3>2. ASSUME NEW p, NEW r, p \in OtherSteps \/ wk.cmds # <<>>,
                 wk' = [wk EXCEPT !.at = p, !.r = r]
          PROVE  IsWk(wk') /\ Quiet(wk')
      <4>1. IsWk(wk') /\ wk'.at = p /\ wk'.step = wk.step /\ wk'.cmds = wk.cmds
        BY <1>1, <3>2 DEF IsWk, WkFields
      <4>2. p = "SEND" => wk.cmds # <<>>
        BY <3>2 DEF OtherSteps
      <4>3. QED  BY <1>3, <4>1, <4>2 DEF Quiet
    <3>3. QED  BY <2>1, <3>1, <3>2
  <2>3. UNCHANGED card
    BY <1>5 DEF Test
  <2>4. QED  BY <1>2, <2>2, <2>3, OtherGoesOn
<1>6. CASE Exchange
  <2>1. PICK a \in Answers(Head(wk.cmds), wk.arg) :
          /\ cd' = a.cd
          /\ IF Len(wk.cmds) > 1 /\ a.r # "error"
             THEN Wait([wk EXCEPT !.cmds = Tail(@)])
             ELSE wk' = [wk EXCEPT !.at = "REPLIED", !.r = a.r]
    BY <1>6 DEF Exchange
  <2>2. CardKept
    <3>1. Head(wk.cmds) \notin Changing
      BY <1>3, <1>6, OtherHeads DEF Exchange, At
    <3>2. IsCd(cd') /\ cd'.mode = cd.mode
      BY <1>1, <2>1, <3>1, AnswersMode
    <3>3. QED  BY <1>6, <3>2 DEF CardKept, Exchange
  <2>3. CASE Len(wk.cmds) > 1 /\ Wait([wk EXCEPT !.cmds = Tail(@)])
    <3> DEFINE w == [wk EXCEPT !.cmds = Tail(@)]
    <3>1. IsWk(w) /\ w.step = wk.step /\ w.cmds = Tail(wk.cmds)
      BY <1>1 DEF IsWk, WkFields
    <3>2. IsWk(wk') /\ wk'.at = "WAIT" /\ wk'.step = wk.step /\ wk'.cmds = Tail(wk.cmds)
      BY <2>3, <3>1, WaitFacts
    <3>3. Quiet(wk')
      BY <1>3, <2>3, <3>2, OtherHeads DEF Quiet
    <3>4. QED  BY <1>2, <2>2, <3>2, <3>3, OtherGoesOn
  <2>4. CASE wk' = [wk EXCEPT !.at = "REPLIED", !.r = a.r]
    <3>1. IsWk(wk') /\ wk'.at = "REPLIED" /\ wk'.step = wk.step /\ wk'.cmds = wk.cmds
      BY <1>1, <2>4 DEF IsWk, WkFields
    <3>2. Quiet(wk')
      BY <1>3, <3>1 DEF Quiet
    <3>3. QED  BY <1>2, <2>2, <3>1, <3>2, OtherGoesOn
  <2>5. QED  BY <2>1, <2>3, <2>4
<1>7. QED  BY <1>4, <1>5, <1>6

\* The ends of the calls, and the steps between their commands
LEMMA OtherEnds ==
  ASSUME IInv, call.op # "init",
         Polled \/ PowerOff \/ Stopped \/ Synced \/ TakeRegister \/ SendStop
  PROVE  IInv'
<1>1. wk.at # "REST"
  BY DEF Polled, PowerOff, Stopped, Synced, TakeRegister, SendStop, Step, At
<1>2. UNCHANGED <<CardType, call>> /\ (noinit' = noinit \/ noinit' = TRUE)
  BY DEF Polled, PowerOff, Stopped, Synced, TakeRegister, SendStop
<1>3. \E a : Return(a)
  BY DEF Polled, PowerOff, Stopped, Synced, TakeRegister, SendStop
<1>4. IsWk(wk') /\ Quiet(wk')
  BY <1>3, ReturnFacts DEF Quiet
<1>5. UNCHANGED card \/ CardKept
  <2>1. CASE SendStop
    <3>1. IsCd(cd)
      BY DEF IInv, InvShape
    <3>2. slot' = slot /\ (cd' = [cd EXCEPT !.op = "none", !.busy = TRUE] \/ cd' = cd)
      BY <2>1 DEF SendStop
    <3>3. CASE cd' = [cd EXCEPT !.op = "none", !.busy = TRUE]
      <4>1. IsCd(cd') /\ cd'.mode = cd.mode
        BY <3>1, <3>3 DEF IsCd, CdFields, CdModes
      <4>2. QED  BY <3>2, <4>1 DEF CardKept
    <3>4. QED  BY <3>1, <3>2, <3>3 DEF CardKept
  <2>2. CASE ~SendStop
    BY <2>2 DEF Polled, PowerOff, Stopped, Synced, TakeRegister
  <2>3. QED  BY <2>1, <2>2
<1>6. QED  BY <1>1, <1>2, <1>4, <1>5, OtherGoesOn

\* Steps that do not touch the card
LEMMA OtherBetween ==
  ASSUME IInv, call.op # "init",
         ReadOpened \/ ReadToken \/ TokenTest \/ Erased \/ WriteOpened \/ Registered
  PROVE  IInv'
<1>1. wk.at # "REST"
  BY DEF ReadOpened, ReadToken, TokenTest, Erased, WriteOpened, Registered, Step, At
<1>2. UNCHANGED <<CardType, call, noinit>> /\ UNCHANGED card
  BY DEF ReadOpened, ReadToken, TokenTest, Erased, WriteOpened, Registered
<1>3. IsWk(wk) /\ wk.step \in OtherSteps /\ wk.cmds \in OtherCmds
  BY <1>1 DEF IInv, InvShape, InvOther, Quiet
<1>4. \/ \E a : Return(a)
      \/ Receive(wk)
      \/ \E p \in {"BLOCK", "TOKEN"} : wk' = [wk EXCEPT !.at = p]
      \/ \E r : wk' = [wk EXCEPT !.at = "TOKENTEST", !.r = r]
      \/ \E n : Command("STOPPED", <<"CMD12">>, n)
      \/ \E n : Command("WRITE", <<"CMD25">>, n)
      \/ \E n : Transmit("DATA", n)
  BY DEF ReadOpened, ReadToken, TokenTest, NoBlock, Erased, WriteOpened, Registered
<1>5. IsWk(wk') /\ Quiet(wk')
  <2>1. ASSUME NEW a, Return(a) PROVE IsWk(wk') /\ Quiet(wk')
    BY <2>1, ReturnFacts DEF Quiet
  <2>2. CASE Receive(wk)
    BY <1>3, <2>2, ReceiveFacts DEF Quiet
  <2>3. ASSUME NEW p \in {"BLOCK", "TOKEN"}, wk' = [wk EXCEPT !.at = p] PROVE IsWk(wk') /\ Quiet(wk')
    <3>1. IsWk(wk') /\ wk'.at # "SEND" /\ wk'.step = wk.step /\ wk'.cmds = wk.cmds
      BY <1>3, <2>3 DEF IsWk, WkFields
    <3>2. QED  BY <1>3, <3>1 DEF Quiet
  <2>4. ASSUME NEW r, wk' = [wk EXCEPT !.at = "TOKENTEST", !.r = r] PROVE IsWk(wk') /\ Quiet(wk')
    <3>1. IsWk(wk') /\ wk'.at # "SEND" /\ wk'.step = wk.step /\ wk'.cmds = wk.cmds
      BY <1>3, <2>4 DEF IsWk, WkFields
    <3>2. QED  BY <1>3, <3>1 DEF Quiet
  <2>5. ASSUME NEW n, Command("STOPPED", <<"CMD12">>, n) PROVE IsWk(wk') /\ Quiet(wk')
    <3>1. IsWk(wk') /\ wk'.step = "STOPPED" /\ wk'.cmds = <<"CMD12">>
      BY <1>3, <2>5, CommandFacts
    <3>2. QED  BY <3>1 DEF Quiet, OtherSteps, OtherCmds
  <2>6. ASSUME NEW n, Command("WRITE", <<"CMD25">>, n) PROVE IsWk(wk') /\ Quiet(wk')
    <3>1. IsWk(wk') /\ wk'.step = "WRITE" /\ wk'.cmds = <<"CMD25">>
      BY <1>3, <2>6, CommandFacts
    <3>2. QED  BY <3>1 DEF Quiet, OtherSteps, OtherCmds
  <2>7. ASSUME NEW n, Transmit("DATA", n) PROVE IsWk(wk') /\ Quiet(wk')
    <3>1. IsWk(wk') /\ wk'.at = "WAIT" /\ wk'.step = "DATA" /\ wk'.cmds = <<>>
      BY <1>3, <2>7, TransmitFacts
    <3>2. QED  BY <3>1 DEF Quiet, OtherSteps, OtherCmds
  <2>8. QED  BY <1>4, <2>1, <2>2, <2>3, <2>4, <2>5, <2>6, <2>7
<1>6. QED  BY <1>1, <1>2, <1>5, OtherGoesOn

\* A block is taken, or sent.
LEMMA OtherBlocks ==
  ASSUME IInv, call.op # "init", TakeBlock \/ SendBlock
  PROVE  IInv'
<1>1. wk.at # "REST" /\ UNCHANGED <<CardType, call, noinit>>
  BY DEF TakeBlock, SendBlock, At
<1>2. IsWk(wk) /\ IsCd(cd)
  BY DEF IInv, InvShape
<1>3. \/ UNCHANGED <<slot, cd>>
      \/ cd' = Asleep
      \/ slot' = slot /\ cd' = Next1("read")
      \/ slot' = slot /\ cd' = [Next1("write") EXCEPT !.busy = TRUE]
      \/ slot' = slot /\ cd' = [cd EXCEPT !.op = "none"]
  BY DEF TakeBlock, SendBlock, Programmed, Rejected
<1>4. ASSUME NEW op PROVE IsCd(Next1(op)) /\ Next1(op).mode = cd.mode
  BY <1>2 DEF Next1, IsCd, CdFields, CdModes
<1>5. CardKept
  <2>1. CASE UNCHANGED <<slot, cd>>
    BY <1>2, <2>1 DEF CardKept
  <2>2. CASE cd' = Asleep
    BY <2>2, AsleepFacts DEF CardKept
  <2>3. CASE slot' = slot /\ cd' = Next1("read")
    BY <1>4, <2>3 DEF CardKept
  <2>4. CASE slot' = slot /\ cd' = [Next1("write") EXCEPT !.busy = TRUE]
    <3> DEFINE c == Next1("write")
    <3>1. IsCd(c) /\ c.mode = cd.mode
      BY <1>4
    <3> HIDE DEF c
    <3>2. cd' = [c EXCEPT !.busy = TRUE]
      BY <2>4 DEF c
    <3>3. IsCd(cd') /\ cd'.mode = cd.mode
      BY <3>1, <3>2 DEF IsCd, CdFields, CdModes
    <3>4. QED  BY <2>4, <3>3 DEF CardKept
  <2>5. CASE slot' = slot /\ cd' = [cd EXCEPT !.op = "none"]
    <3>1. IsCd(cd') /\ cd'.mode = cd.mode
      BY <1>2, <2>5 DEF IsCd, CdFields, CdModes
    <3>2. QED  BY <2>5, <3>1 DEF CardKept
  <2>6. QED  BY <1>3, <2>1, <2>2, <2>3, <2>4, <2>5
<1>6. IsWk(wk') /\ Quiet(wk')
  <2>1. \/ \E a : Return(a)
        \/ At("BLOCK") /\ Receive([wk EXCEPT !.left = @ - 1])
        \/ Wait([Packet("STOPPED", <<"CMD12">>, 0) EXCEPT !.left = 0])
        \/ \E s \in {"DATA", "STOP"} : \E n : Transmit(s, n)
    BY DEF TakeBlock, SendBlock
  <2>2. ASSUME NEW a, Return(a) PROVE IsWk(wk') /\ Quiet(wk')
    BY <2>2, ReturnFacts DEF Quiet
  <2>3. CASE Receive([wk EXCEPT !.left = @ - 1])
    <3> DEFINE w == [wk EXCEPT !.left = @ - 1]
    <3>1. IsWk(w) /\ w.step = wk.step /\ w.cmds = wk.cmds
      BY <1>2 DEF IsWk, WkFields
    <3>2. IsWk(wk') /\ wk'.at = "TOKEN" /\ wk'.step = wk.step /\ wk'.cmds = wk.cmds
      BY <2>3, <3>1, ReceiveFacts
    <3>3. wk.step \in OtherSteps /\ wk.cmds \in OtherCmds
      BY <1>1 DEF IInv, InvOther, Quiet
    <3>4. QED  BY <3>2, <3>3 DEF Quiet
  <2>4. CASE Wait([Packet("STOPPED", <<"CMD12">>, 0) EXCEPT !.left = 0])
    <3> DEFINE w == [Packet("STOPPED", <<"CMD12">>, 0) EXCEPT !.left = 0]
    <3>1. IsWk(w) /\ w.step = "STOPPED" /\ w.cmds = <<"CMD12">>
      BY <1>2 DEF IsWk, WkFields, Packet
    <3>2. IsWk(wk') /\ wk'.at = "WAIT" /\ wk'.step = "STOPPED" /\ wk'.cmds = <<"CMD12">>
      BY <2>4, <3>1, WaitFacts
    <3>3. QED  BY <3>2 DEF Quiet, OtherSteps, OtherCmds
  <2>5. ASSUME NEW s \in {"DATA", "STOP"}, NEW n, Transmit(s, n) PROVE IsWk(wk') /\ Quiet(wk')
    <3>1. IsWk(wk') /\ wk'.at = "WAIT" /\ wk'.step = s /\ wk'.cmds = <<>>
      BY <1>2, <2>5, TransmitFacts
    <3>2. QED  BY <3>1 DEF Quiet, OtherSteps, OtherCmds
  <2>6. QED  BY <2>1, <2>2, <2>3, <2>4, <2>5
<1>7. QED  BY <1>1, <1>5, <1>6, OtherGoesOn

-----------------------------------------------------------------------------
\* disk_initialize goes on.
LEMMA InitGoesOn ==
  ASSUME IInv, call.op = "init", wk.at # "REST", call' = call, UNCHANGED card, IsWk(wk'),
         wk'.at \in InitPlaces, Sends(wk'), ByBytes(wk') => ByBytes(wk)
  PROVE  IInv'
<1>1. IsCd(cd') /\ InvEmpty'
  BY DEF IInv, InvShape, InvEmpty, card
<1>2. ByBytes(wk') /\ slot' # NoCard /\ Kind[slot'] = "SDHC" => cd'.mode # "ready"
  BY DEF IInv, InvUnit, card
<1>3. QED  BY <1>1, <1>2, InitKeeps

\* disk_initialize keeps it while it sends and waits.
LEMMA InitSends ==
  ASSUME IInv, call.op = "init", ReadByte \/ Test \/ Exchange
  PROVE  IInv'
<1>1. IsWk(wk) /\ IsCd(cd)
  BY DEF IInv, InvShape
<1>2. wk.at # "REST" /\ call' = call
  BY DEF ReadByte, Test, Exchange, At
<1>3. wk.at \in InitPlaces /\ Sends(wk)
  BY <1>2 DEF IInv, InvInit
<1>4. CASE ReadByte
  <2>1. PICK ff : wk' = [wk EXCEPT !.at = "TEST", !.ff = ff]
    BY <1>4 DEF ReadByte
  <2>2. /\ IsWk(wk') /\ wk'.at = "TEST" /\ wk'.step = wk.step /\ wk'.cmds = wk.cmds
        /\ wk'.arg = wk.arg /\ wk'.ty = wk.ty
    BY <1>1, <2>1 DEF IsWk, WkFields
  <2>3. Sends(wk') /\ wk'.at \in InitPlaces /\ (ByBytes(wk') => ByBytes(wk))
    BY <1>3, <2>2 DEF Sends, Sendable, InitPlaces, ByBytes
  <2>4. UNCHANGED card
    BY <1>4 DEF ReadByte
  <2>5. QED  BY <1>2, <2>2, <2>3, <2>4, InitGoesOn
<1>5. CASE Test
  <2>1. \/ wk' = [wk EXCEPT !.at = "WAIT"]
        \/ \E p, r : /\ wk' = [wk EXCEPT !.at = p, !.r = r]
                    /\ \/ wk.cmds # <<>> /\ p = "SEND"
                       \/ wk.cmds # <<>> /\ p = "REPLIED" /\ r = "error"
                       \/ wk.cmds = <<>> /\ p = wk.step
    BY <1>5 DEF Test
  <2>2. UNCHANGED card
    BY <1>5 DEF Test
  <2>3. CASE wk' = [wk EXCEPT !.at = "WAIT"]
    <3>1. /\ IsWk(wk') /\ wk'.at = "WAIT" /\ wk'.step = wk.step /\ wk'.cmds = wk.cmds
          /\ wk'.arg = wk.arg /\ wk'.ty = wk.ty
      BY <1>1, <2>3 DEF IsWk, WkFields
    <3>2. Sends(wk') /\ wk'.at \in InitPlaces /\ (ByBytes(wk') => ByBytes(wk))
      BY <1>3, <3>1 DEF Sends, Sendable, InitPlaces, ByBytes
    <3>3. QED  BY <1>2, <2>2, <3>1, <3>2, InitGoesOn
  <2>4. ASSUME NEW p, NEW r, wk' = [wk EXCEPT !.at = p, !.r = r],
               \/ wk.cmds # <<>> /\ p = "SEND"
               \/ wk.cmds # <<>> /\ p = "REPLIED" /\ r = "error"
               \/ wk.cmds = <<>> /\ p = wk.step
        PROVE  IInv'
    <3>1. /\ IsWk(wk') /\ wk'.at = p /\ wk'.r = r /\ wk'.step = wk.step /\ wk'.cmds = wk.cmds
          /\ wk'.arg = wk.arg /\ wk'.ty = wk.ty
      BY <1>1, <2>4 DEF IsWk, WkFields
    <3>2. wk.cmds = <<>> => wk.step = "OFF"
      BY <1>3, OneHead, TwoHeads DEF Sends, Sendable, Opens
    <3>3. p \in InitPlaces
      BY <2>4, <3>2 DEF InitPlaces
    <3>4. Sends(wk')
      BY <1>3, <2>4, <3>1, <3>2 DEF Sends, Sendable
    <3>5. ByBytes(wk') => ByBytes(wk)
      BY <2>4, <3>1, <3>2 DEF ByBytes
    <3>6. QED  BY <1>2, <2>2, <3>1, <3>3, <3>4, <3>5, InitGoesOn
  <2>5. QED  BY <2>1, <2>3, <2>4
<1>6. CASE Exchange
  <2>1. PICK a \in Answers(Head(wk.cmds), wk.arg) :
          /\ cd' = a.cd
          /\ \/ Len(wk.cmds) > 1 /\ Wait([wk EXCEPT !.cmds = Tail(@)])
             \/ wk' = [wk EXCEPT !.at = "REPLIED", !.r = a.r]
    BY <1>6 DEF Exchange
  <2>2. slot' = slot /\ wk.at = "SEND"
    BY <1>6 DEF Exchange, At
  <2>3. IsCd(cd') /\ InvEmpty'
    <3>1. IsCd(cd') /\ (slot = NoCard => cd'.mode = cd.mode)
      BY <1>1, <2>1, AnswersMode
    <3>2. QED  BY <2>2, <3>1 DEF IInv, InvEmpty
  <2>4. /\ IsWk(wk') /\ wk'.at \in {"WAIT", "REPLIED"} /\ wk'.step = wk.step
        /\ wk'.arg = wk.arg /\ wk'.ty = wk.ty
        /\ \/ wk'.at = "WAIT" /\ Len(wk.cmds) > 1 /\ wk'.cmds = Tail(wk.cmds)
           \/ wk'.at = "REPLIED" /\ wk'.cmds = wk.cmds /\ wk'.r = a.r
    <3>1. CASE Len(wk.cmds) > 1 /\ Wait([wk EXCEPT !.cmds = Tail(@)])
      <4> DEFINE w == [wk EXCEPT !.cmds = Tail(@)]
      <4>1. IsWk(w) /\ w.step = wk.step /\ w.cmds = Tail(wk.cmds) /\ w.arg = wk.arg /\ w.ty = wk.ty
        BY <1>1 DEF IsWk, WkFields
      <4>2. QED  BY <3>1, <4>1, WaitFacts
    <3>2. CASE wk' = [wk EXCEPT !.at = "REPLIED", !.r = a.r]
      BY <1>1, <3>2 DEF IsWk, WkFields
    <3>3. QED  BY <2>1, <3>1, <3>2
  <2>5. Sends(wk')
    <3>1. CASE wk.cmds \in Opens
      <4>1. wk'.cmds \in Opens
        BY <2>4, <3>1, OpensHeads
      <4>2. wk.step \in {"OP_COND", "SDC", "LEAVE"}
        BY <1>3, <3>1 DEF Sends, Sendable, Opens
      <4>3. QED  BY <1>3, <2>4, <4>1, <4>2 DEF Sends, Sendable
    <3>2. CASE wk'.cmds = wk.cmds
      BY <1>3, <2>2, <2>4, <3>2 DEF Sends, Sendable
    <3>3. wk.cmds \notin Opens => ~(Len(wk.cmds) > 1)
      BY <1>3, <2>2, OneHead DEF Sends, Sendable
    <3>4. QED  BY <2>4, <3>1, <3>2, <3>3
  <2>6. ASSUME ByBytes(wk'), slot' # NoCard, Kind[slot'] = "SDHC" PROVE cd'.mode # "ready"
    <3>1. CASE wk.step = "GO_IDLE"
      <4>1. a.r = "idle" /\ Head(wk.cmds) = "CMD0"
        BY <1>3, <2>4, <2>6, <3>1, OneHead DEF ByBytes, Sends, Sendable
      <4>2. QED  BY <1>1, <2>1, <2>2, <2>6, <4>1, AnswersMode
    <3>2. CASE wk.step \in {"IF_COND", "SDC", "LEAVE", "BLOCKLEN"}
      <4>1. cd.mode # "ready"
        BY <1>2, <2>2, <2>6, <3>2 DEF IInv, InvUnit, ByBytes
      <4>2. CASE Head(wk.cmds) \notin Changing
        BY <1>1, <2>1, <4>1, <4>2, AnswersMode
      <4>3. CASE Head(wk.cmds) \in Changing
        <5>1. wk.arg = 0 /\ Head(wk.cmds) # "CMD0"
          BY <1>3, <3>2, <4>3, OneHead, OpensHeads DEF Sends, Sendable, Changing
        <5>2. QED  BY <1>1, <2>1, <2>2, <2>6, <4>1, <5>1, AnswersMode
      <4>4. QED  BY <4>2, <4>3
    <3>3. QED  BY <2>4, <2>6, <3>1, <3>2 DEF ByBytes
  <2>7. QED  BY <1>2, <2>3, <2>4, <2>5, <2>6, InitKeeps DEF InitPlaces
<1>7. QED  BY <1>4, <1>5, <1>6

\* disk_initialize ends, having found the unit, or having found nothing.
LEMMA FinishKeeps ==
  ASSUME IInv, call.op = "init", wk.at # "REST", call' = call, UNCHANGED card, NEW ty, Finish(ty),
         ty # 0 /\ slot # NoCard /\ cd.mode = "ready" => (ty = 12) = (Kind[slot] = "SDHC")
  PROVE  IInv'
<1>1. CASE ty # 0
  <2>1. IsWk(wk') /\ wk'.at = "REST" /\ CardType' = ty
    BY <1>1, ReturnFacts DEF Finish
  <2>2. QED  BY <1>1, <2>1, EndKeeps
<1>2. CASE ty = 0
  <2>1. Wait([Resting EXCEPT !.step = "OFF"])
    BY <1>2 DEF Finish
  <2>2. IsWk(wk') /\ wk'.at = "WAIT" /\ wk'.step = "OFF" /\ wk'.cmds = <<>>
    <3> DEFINE w == [Resting EXCEPT !.step = "OFF"]
    <3>1. IsWk(w) /\ w.step = "OFF" /\ w.cmds = <<>>
      BY RestingFacts
    <3>2. Wait(w)
      BY <2>1
    <3> HIDE DEF w
    <3>3. QED  BY <3>1, <3>2, WaitFacts
  <2>3. wk'.at \in InitPlaces /\ Sends(wk') /\ ~ByBytes(wk')
    BY <2>2 DEF InitPlaces, Sends, Sendable, ByBytes
  <2>4. QED  BY <2>2, <2>3, InitGoesOn
<1>3. QED  BY <1>1, <1>2

\* It goes on to another command.
LEMMA InitCommands ==
  ASSUME IInv, call.op = "init", wk.at # "REST", call' = call, UNCHANGED card,
         NEW s, NEW cs, NEW n, NEW ty,
         wk' = [Packet(s, cs, n) EXCEPT !.ty = ty] \/ (ty = wk.ty /\ wk' = Packet(s, cs, n))
           \/ (ty = wk.ty /\ Go(s, cs, n)) \/ (ty = wk.ty /\ Retry(s, cs, n)),
         Sendable(s, cs, n, ty),
         s \in {"IF_COND", "SDC", "LEAVE", "BLOCKLEN"} => ByBytes(wk), s # "GO_IDLE"
  PROVE  IInv'
<1>1. IsWk(wk)
  BY DEF IInv, InvShape
<1>2. /\ IsWk(wk') /\ wk'.at = "WAIT" /\ wk'.step = s /\ wk'.cmds = cs /\ wk'.arg = n
      /\ wk'.ty = ty
  <2>1. CASE wk' = [Packet(s, cs, n) EXCEPT !.ty = ty]
    BY <1>1, <2>1 DEF IsWk, WkFields, Packet
  <2>2. CASE ty = wk.ty /\ wk' = Packet(s, cs, n)
    BY <1>1, <2>2, PacketFacts
  <2>3. CASE ty = wk.ty /\ Go(s, cs, n)
    BY <1>1, <2>3, CommandFacts DEF Go
  <2>4. CASE ty = wk.ty /\ Retry(s, cs, n)
    BY <1>1, <2>4, PacketFacts DEF Retry
  <2>5. QED  BY <2>1, <2>2, <2>3, <2>4
<1>3. Sends(wk') /\ wk'.at \in InitPlaces /\ (ByBytes(wk') => ByBytes(wk))
  BY <1>2 DEF InitPlaces, ByBytes, Sends
<1>4. QED  BY <1>2, <1>3, InitGoesOn

\* disk_initialize keeps it as it goes from one command to the next.
LEMMA InitSteps ==
  ASSUME IInv, call.op = "init", GoIdle \/ IfCond \/ OpCond \/ Ocr \/ Sdc \/ Leave \/ SetBlockLen
  PROVE  IInv'
<1>1. wk.at = "REPLIED" /\ call' = call /\ UNCHANGED card
  BY DEF GoIdle, IfCond, OpCond, Ocr, Sdc, Leave, SetBlockLen, Step, At
<1>2. Sends(wk)
  BY <1>1 DEF IInv, InvInit
<1>3. AppOpCond \in Opens
  BY DEF AppOpCond, Opens
<1>4. CASE Finish(0)
  BY <1>1, <1>4, FinishKeeps
<1>5. CASE GoIdle /\ ~Finish(0)
  <2>1. wk.step = "GO_IDLE" /\ wk.r = "idle" /\ wk' = Packet("IF_COND", <<"CMD8">>, 0)
    BY <1>5 DEF GoIdle, Step
  <2>2. ByBytes(wk)
    BY <1>1, <2>1 DEF ByBytes
  <2>3. Sendable("IF_COND", <<"CMD8">>, 0, wk.ty)
    BY DEF Sendable
  <2>4. QED  BY <1>1, <2>1, <2>2, <2>3, InitCommands
<1>6. CASE IfCond /\ ~Finish(0)
  <2>1. wk.step = "IF_COND" /\ (Go("SDC", AppOpCond, 0) \/ Retry("OP_COND", AppOpCond, Hcs))
    BY <1>6 DEF IfCond, Step
  <2>2. ByBytes(wk)
    BY <2>1 DEF ByBytes
  <2>3. Sendable("OP_COND", AppOpCond, Hcs, wk.ty)
    BY <1>3 DEF Sendable
  <2>4. Sendable("SDC", AppOpCond, 0, wk.ty)
    BY <1>3 DEF Sendable
  <2>5. QED  BY <1>1, <2>1, <2>2, <2>3, <2>4, InitCommands
<1>7. CASE OpCond /\ ~Finish(0)
  <2>1. Go("OCR", <<"CMD58">>, 0) \/ Retry("OP_COND", AppOpCond, Hcs)
    BY <1>7 DEF OpCond
  <2>2. Sendable("OP_COND", AppOpCond, Hcs, wk.ty)
    BY <1>3 DEF Sendable
  <2>3. Sendable("OCR", <<"CMD58">>, 0, wk.ty)
    BY DEF Sendable
  <2>4. QED  BY <1>1, <2>1, <2>2, <2>3, InitCommands
<1>8. CASE Ocr
  <2>1. Finish(Capacity) \/ Finish(0)
    BY <1>8 DEF Ocr
  <2>2. slot # NoCard => (Capacity = 12) = (Kind[slot] = "SDHC")
    BY DEF Capacity
  <2>3. QED  BY <1>1, <1>4, <2>1, <2>2, FinishKeeps
<1>9. CASE (Sdc \/ Leave) /\ ~Finish(0)
  <2>1. ByBytes(wk)
    BY <1>9 DEF ByBytes, Sdc, Leave, Step
  <2>2. \/ \E ty \in {1, 2} : LeaveIdle(ty)
        \/ wk.ty \in {1, 2} /\ Go("BLOCKLEN", <<"CMD16">>, BlockLen)
    BY <1>2, <1>9 DEF Sdc, Leave, Step, Sends, Sendable
  <2>3. ASSUME NEW ty \in {1, 2}, LeaveIdle(ty) PROVE IInv'
    <3> DEFINE cs == IF ty = 2 THEN AppOpCond ELSE <<"CMD1">>
    <3>1. wk' = [Packet("LEAVE", cs, 0) EXCEPT !.ty = ty]
      BY <1>9, <2>3 DEF LeaveIdle
    <3>2. cs \in Opens \union {<<"CMD1">>}
      BY <1>3
    <3> HIDE DEF cs
    <3>3. Sendable("LEAVE", cs, 0, ty)
      BY <3>2 DEF Sendable
    <3>4. QED  BY <1>1, <2>1, <3>1, <3>3, InitCommands
  <2>4. CASE wk.ty \in {1, 2} /\ Go("BLOCKLEN", <<"CMD16">>, BlockLen)
    <3>1. Sendable("BLOCKLEN", <<"CMD16">>, BlockLen, wk.ty)
      BY <2>4 DEF Sendable
    <3>2. QED  BY <1>1, <2>1, <2>4, <3>1, InitCommands
  <2>5. QED  BY <2>2, <2>3, <2>4
<1>10. CASE SetBlockLen
  <2>1. wk.step = "BLOCKLEN" /\ wk.ty \in {1, 2} /\ (Finish(wk.ty) \/ Finish(0))
    BY <1>2, <1>10 DEF SetBlockLen, Step, Sends, Sendable
  <2>2. slot # NoCard /\ cd.mode = "ready" => Kind[slot] # "SDHC"
    BY <1>1, <2>1 DEF IInv, InvUnit, ByBytes
  <2>3. QED  BY <1>1, <1>4, <2>1, <2>2, FinishKeeps
<1>11. QED  BY <1>4, <1>5, <1>6, <1>7, <1>8, <1>9, <1>10

\* disk_initialize keeps it when it gives up.
LEMMA InitEnds == ASSUME IInv, call.op = "init", PowerOff PROVE IInv'
<1>1. wk.at # "REST" /\ call' = call /\ UNCHANGED card /\ noinit' = TRUE
  BY DEF PowerOff, At
<1>2. IsWk(wk') /\ wk'.at = "REST"
  BY ReturnFacts DEF PowerOff
<1>3. QED  BY <1>1, <1>2, EndKeeps

\* Nothing of disk_initialize is done by another call, and the other way round.
LEMMA DriverStep == ASSUME IInv, Driver PROVE IInv'
<1>1. CASE call.op = "init"
  <2>1. wk.at # "REST" => wk.at \in InitPlaces /\ Sends(wk)
    BY <1>1 DEF IInv, InvInit
  <2>2. ~(Polled \/ ReadOpened \/ Stopped \/ Erased \/ WriteOpened \/ Registered)
    BY <2>1 DEF Polled, ReadOpened, Stopped, Erased, WriteOpened, Registered, Step, At, Sends, Sendable
  <2>3. ~(ReadToken \/ TokenTest \/ TakeBlock \/ SendBlock \/ SendStop \/ Synced \/ TakeRegister)
    BY <2>1 DEF ReadToken, TokenTest, TakeBlock, SendBlock, SendStop, Synced, TakeRegister, At,
                InitPlaces
  <2>4. QED  BY <1>1, <2>2, <2>3, InitSends, InitSteps, InitEnds DEF Driver
<1>2. CASE call.op # "init"
  <2>1. wk.at # "REST" => wk.step \in OtherSteps
    BY <1>2 DEF IInv, InvOther, Quiet
  <2>2. ~(GoIdle \/ IfCond \/ OpCond \/ Ocr \/ Sdc \/ Leave \/ SetBlockLen)
    BY <2>1 DEF GoIdle, IfCond, OpCond, Ocr, Sdc, Leave, SetBlockLen, Step, At, OtherSteps
  <2>3. QED  BY <1>2, <2>2, OtherSends, OtherEnds, OtherBetween, OtherBlocks DEF Driver
<1>3. QED  BY <1>1, <1>2

\* A step that changes nothing keeps it.
LEMMA StutterStep == ASSUME IInv, UNCHANGED vars PROVE IInv'
<1>1. CardKept /\ UNCHANGED <<noinit, CardType, call, wk>>
  BY DEF IInv, InvShape, CardKept, vars, card
<1>2. QED  BY <1>1, OutsideKeeps

\* Every step keeps the invariant.
LEMMA NextIInv == IInv /\ [Next]_vars => IInv'
<1> SUFFICES ASSUME IInv, [Next]_vars PROVE IInv'
  OBVIOUS
<1>1. CASE Driver
  BY <1>1, DriverStep
<1>2. CASE Poll \/ Initialize \/ Transfer \/ Ioctl
  BY <1>2, BeginStep
<1>3. CASE CardWorks \/ (\E i \in 1 .. 2 : Tick(i)) \/ Swap \/ Wobble
  BY <1>3, OutsideStep
<1>4. CASE UNCHANGED vars
  BY <1>4, StutterStep
<1>5. QED  BY <1>1, <1>2, <1>3, <1>4 DEF Next

\* A card that is used is addressed in its own unit, however it was pulled, put
\* in or faltered while disk_initialize tried to find it out.
THEOREM TypeMatchesCorrect == Spec => []TypeMatches
<1>1. IInv => TypeMatches
  BY DEF IInv
<1>2. QED  BY <1>1, InitIInv, NextIInv, PTL DEF Spec

-----------------------------------------------------------------------------
\* The place of the k-th block of a transfer, in the unit of the card
Unit(c, sector, k) == IF Kind[c] = "SDHC" THEN sector + k ELSE (sector + k) * BlockLen
\* What was moved when k blocks were
StoredTo(c, sector, k)  == {<<c, sector + i, i>> : i \in 0 .. k - 1}
BroughtTo(c, sector, k) == [i \in 1 .. k |-> <<c, sector + i - 1>>]

\* Only a card that was initialized runs anything, and that is the card of the
\* call: another is in its native mode.
InvSame == /\ cd.op # "none" => cd.mode = "ready"
           /\ call.op # "init" /\ cd.mode # "native" => slot = past.card

PastFields == {"card", "sound", "torn", "closed"}
IsPast(p)  == p = [f \in PastFields |-> p[f]]
Moving     == call.op \in {"read", "write"}
InvCall ==
  /\ IsPast(past) /\ CardType \in {0, 1, 2, 4, 12}
  /\ Moving => call \in Calls /\ (wk.at # "REST" => ~noinit)

\* What runs in the card is at the block that is next.
Placed == Fits /\ cd.op # "none" => cd.addr = Unit(past.card, call.sector, Sent)
Asking == {"WAIT", "TEST", "SEND", "REPLIED"}
Opened == wk.at = "REPLIED" /\ wk.r = "ready"

\* The four stages of disk_write
WErase ==
  /\ wk.step = "ERASE" /\ wk.at \in Asking /\ wk.cmds \in {<<"CMD55", "CMD23">>, <<"CMD23">>}
  /\ call.count # 1 /\ wk.left = call.count /\ stored = {}
WCommand ==
  /\ wk.step = "WRITE" /\ wk.at \in Asking
  /\ \/ call.count = 1 /\ wk.cmds = <<"CMD24">>
     \/ call.count # 1 /\ wk.cmds = <<"CMD25">>
  /\ wk.left = call.count /\ stored = {} /\ wk.arg = Address(call.sector)
  /\ Opened => Placed
WData ==
  /\ wk.step = "DATA" /\ wk.at \in {"WAIT", "TEST", "DATA"} /\ wk.cmds = <<>>
  /\ wk.left \in 1 .. call.count /\ Placed
  /\ Fits => stored = StoredTo(past.card, call.sector, Sent)
WStop ==
  /\ wk.step = "STOP" /\ wk.at \in {"WAIT", "TEST", "STOP"} /\ wk.cmds = <<>> /\ call.count # 1
  /\ Fits => stored \subseteq Due /\ (wk.left = 0 => stored = Due)
InvWrite == call.op = "write" /\ wk.at # "REST" => WErase \/ WCommand \/ WData \/ WStop

\* The three of disk_read
ReadsOnly == cd.op \in {"none", "read", "reads"}
Brought == Fits /\ ~past.torn => buffer = BroughtTo(past.card, call.sector, Sent)
RCommand ==
  /\ wk.step = "READ" /\ wk.at \in Asking
  /\ \/ call.count = 1 /\ wk.cmds = <<"CMD17">>
     \/ call.count # 1 /\ wk.cmds = <<"CMD18">>
  /\ wk.left = call.count /\ buffer = <<>> /\ wk.arg = Address(call.sector)
  /\ Opened => Placed /\ ReadsOnly
RBlocks ==
  /\ wk.step = "READ" /\ wk.at \in {"TOKEN", "TOKENTEST", "BLOCK"}
  /\ wk.left \in 1 .. call.count /\ Placed /\ ReadsOnly /\ Brought
RStop ==
  /\ wk.step = "STOPPED" /\ wk.at \in Asking /\ wk.cmds = <<"CMD12">> /\ call.count # 1
  /\ wk.left \in 0 .. call.count /\ (wk.left = 0 => Brought)
InvRead == call.op = "read" /\ wk.at # "REST" => RCommand \/ RBlocks \/ RStop

DInv == InvSame /\ InvCall /\ InvWrite /\ InvRead /\ Stored /\ Delivers

-----------------------------------------------------------------------------
\* A block stands where its place says.
LEMMA UnitBlock ==
  ASSUME NEW c, NEW s \in Nat, NEW k \in Nat
  PROVE  /\ Kind[c] = "SDHC" => Unit(c, s, k) = s + k
         /\ Kind[c] # "SDHC" => Unit(c, s, k) \div BlockLen = s + k
<1>1. ASSUME NEW n \in Nat PROVE (n * BlockLen) \div BlockLen = n
  BY BlocksAssumption
<1>2. s + k \in Nat
  OBVIOUS
<1>3. QED  BY <1>1, <1>2 DEF Unit

\* The next block is the next place.
LEMMA UnitNext ==
  ASSUME NEW c, NEW s \in Nat, NEW k \in Nat
  PROVE  Unit(c, s, k + 1) = IF Kind[c] = "SDHC" THEN Unit(c, s, k) + 1 ELSE Unit(c, s, k) + BlockLen
<1>1. (s + (k + 1)) * BlockLen = (s + k) * BlockLen + BlockLen
  BY BlocksAssumption
<1>2. QED  BY <1>1 DEF Unit

\* One more block
LEMMA StoredNext ==
  ASSUME NEW c, NEW s \in Nat, NEW k \in Nat
  PROVE  StoredTo(c, s, k + 1) = StoredTo(c, s, k) \union {<<c, s + k, k>>}
<1>1. 0 .. (k + 1) - 1 = (0 .. k - 1) \union {k}
  OBVIOUS
<1>2. QED  BY <1>1, Zenon DEF StoredTo
\* Fewer blocks
LEMMA StoredLess ==
  ASSUME NEW c, NEW s \in Nat, NEW k \in Nat, NEW n \in Nat, k <= n
  PROVE  StoredTo(c, s, k) \subseteq StoredTo(c, s, n)
<1>1. 0 .. k - 1 \subseteq 0 .. n - 1
  OBVIOUS
<1>2. QED  BY <1>1 DEF StoredTo
\* One more block
LEMMA BroughtNext ==
  ASSUME NEW c, NEW s \in Nat, NEW k \in Nat
  PROVE  BroughtTo(c, s, k + 1) = Append(BroughtTo(c, s, k), <<c, s + k>>)
<1> DEFINE S == {<<c, s + i - 1>> : i \in 1 .. k + 1}
           b == BroughtTo(c, s, k)
           d == BroughtTo(c, s, k + 1)
<1>1. b \in [1 .. k -> S] /\ d \in [1 .. k + 1 -> S] /\ <<c, s + k>> \in S
  BY DEF BroughtTo
<1>2. (\A i \in 1 .. k : d[i] = b[i]) /\ d[k + 1] = <<c, s + k>>
  BY DEF BroughtTo
<1> HIDE DEF S, b, d
<1>3. b \in Seq(S) /\ Len(b) = k /\ d \in Seq(S) /\ Len(d) = k + 1
  BY <1>1
<1>4. d = Append(b, <<c, s + k>>)
  BY <1>1, <1>2, <1>3, AppendProperties, SeqEqual
<1>5. QED  BY <1>4 DEF b, d
\* Nothing was moved at first.
LEMMA NoneMoved == \A c, s : StoredTo(c, s, 0) = {} /\ BroughtTo(c, s, 0) = <<>>
  BY DEF StoredTo, BroughtTo

-----------------------------------------------------------------------------
\* The commands that start something
Starting == {"CMD17", "CMD18", "CMD24", "CMD25", "CMD9", "CMD10", "CMD13"}
\* What an ordinary answer starts in a card
LEMMA OrdinaryRun ==
  ASSUME IsCd(cd), cd.mode # "native", cd.op # "none" => cd.mode = "ready",
         NEW cmd, NEW arg, NEW a \in Ordinary(cmd, arg)
  PROVE  /\ a.cd.op # "none" => a.cd.mode = "ready"
         /\ a.cd.busy = cd.busy
         /\ a.cd.op # "none" => a.cd.op = Starts(cmd) /\ a.cd.addr = arg /\ cd.mode = "ready"
         /\ a.cd.op # "none" =>
              a.r = "ready" /\ cmd \in Starting
<1> DEFINE still == [cd EXCEPT !.op = "none", !.token = "none"]
<1>1. IsCd(still) /\ still.op = "none" /\ still.busy = cd.busy
  BY DEF IsCd, CdFields, CdModes
<1>2. \A r, c : Yes(r, c).cd = c /\ Yes(r, c).r = r
  BY DEF Yes
<1>3. CASE \E r : a = Yes(r, still)
  <2>1. a.cd = still
    BY <1>2, <1>3
  <2>2. a.cd.op = "none" /\ a.cd.busy = cd.busy
    BY <1>1, <2>1
  <2>3. QED  BY <2>2
<1>4. CASE \E r : a = Yes(r, [still EXCEPT !.mode = "ready"])
  <2>1. a.cd = [still EXCEPT !.mode = "ready"]
    BY <1>2, <1>4
  <2>2. a.cd.op = "none" /\ a.cd.busy = cd.busy
    BY <1>1, <2>1 DEF IsCd, CdFields
  <2>3. QED  BY <2>2
<1>5. CASE /\ cmd \in Starting /\ R1 = "ready"
           /\ a = Yes("ready", [still EXCEPT !.op = Starts(cmd), !.addr = arg])
  <2>1. a.cd = [still EXCEPT !.op = Starts(cmd), !.addr = arg] /\ a.r = "ready"
    BY <1>2, <1>5
  <2>2. /\ a.cd.op = Starts(cmd) /\ a.cd.addr = arg /\ a.cd.busy = cd.busy
        /\ a.cd.mode = cd.mode
    BY <1>1, <2>1 DEF IsCd, CdFields
  <2>3. cd.mode = "ready"
    BY <1>5 DEF R1, IsCd, CdModes
  <2>4. QED  BY <1>5, <2>1, <2>2, <2>3
<1>6. QED
  BY <1>3, <1>4, <1>5 DEF Ordinary, Starting

\* What any answer starts, and stops
LEMMA AnswersRun ==
  ASSUME IsCd(cd), slot = NoCard => cd.mode = "native", cd.op # "none" => cd.mode = "ready",
         NEW cmd, NEW arg, NEW a \in Answers(cmd, arg)
  PROVE  /\ a.cd.op # "none" => a.cd.mode = "ready"
         /\ a.cd.busy => cd.busy \/ cmd = "CMD12"
         /\ \/ a.cd.op = "none"
            \/ a.cd = cd /\ a.r = "error"
            \/ /\ a.cd.op = Starts(cmd) /\ a.cd.addr = arg /\ slot # NoCard /\ cd.mode = "ready"
               /\ a.r = "ready" /\ cmd \in Starting
         /\ a.r = "ready" => a.cd.op \in {"none", Starts(cmd)}
         /\ a.cd.op # "none" /\ a.r = "ready" =>
              cmd \in Starting
         /\ Good /\ cmd = "CMD12" /\ cd.op = "reads" => a.cd.op = "none"
<1>1. \A r, c : Yes(r, c).cd = c /\ Yes(r, c).r = r
  BY DEF Yes
<1>2. CASE ~Good /\ a = Yes("error", cd)
  BY <1>1, <1>2
<1>3. CASE slot # NoCard /\ a \in Proper(cmd, arg)
  <2>1. CASE cmd = "CMD0"
    <3>1. a.cd = Stirred("idle")
      BY <1>1, <1>3, <2>1 DEF Proper
    <3>2. a.cd.op = "none" /\ a.cd.busy = FALSE
      BY <3>1 DEF Stirred, Asleep
    <3>3. QED  BY <2>1, <3>2
  <2>2. CASE /\ cmd # "CMD0" /\ a = Yes("error", cd)
             /\ cd.mode = "native" \/ cd.op = "writes" \/ (cd.op = "reads" /\ cmd # "CMD12")
    BY <1>1, <2>2
  <2>3. CASE cmd = "CMD12" /\ \E b : a = Yes("ready", [cd EXCEPT !.op = "none", !.token = "none", !.busy = b])
    <3>1. PICK b : a = Yes("ready", [cd EXCEPT !.op = "none", !.token = "none", !.busy = b])
      BY <2>3
    <3>2. a.cd = [cd EXCEPT !.op = "none", !.token = "none", !.busy = b]
      BY <1>1, <3>1
    <3>3. a.cd.op = "none"
      BY <3>2 DEF IsCd, CdFields, CdModes
    <3>4. QED  BY <2>3, <3>3
  <2>4. CASE /\ cmd # "CMD0" /\ a \in Ordinary(cmd, arg) /\ cd.mode # "native"
             /\ ~(cmd = "CMD12" /\ cd.op = "reads")
    BY <1>3, <2>4, OrdinaryRun
  <2>5. QED  BY <1>3, <2>1, <2>2, <2>3, <2>4 DEF Proper
<1>4. QED  BY <1>2, <1>3 DEF Answers

\* What happens outside the driver
Outside == CardWorks \/ (\E i \in 1 .. 2 : Tick(i)) \/ Swap \/ Wobble
\* Without the driver the card may be pulled, or become good or bad.
LEMMA OutsideFacts ==
  ASSUME IInv, InvSame, InvCall, Outside \/ UNCHANGED vars
  PROVE  /\ UNCHANGED <<noinit, CardType, call, answer, wk, buffer, stored>>
         /\ \/ slot' = slot /\ cd'.mode = cd.mode /\ cd'.op = cd.op /\ cd'.addr = cd.addr
            \/ cd'.mode = "native" /\ cd'.op = "none"
         /\ cd'.busy => cd.busy
         /\ IsPast(past') /\ past'.card = past.card /\ past'.torn = past.torn
         /\ past'.closed = past.closed /\ (past'.sound => past.sound)
<1>1. IsCd(cd) /\ IsPast(past) /\ (slot = NoCard => cd.mode = "native")
  BY DEF IInv, InvShape, InvEmpty, InvCall
<1>2. Asleep.mode = "native" /\ Asleep.op = "none" /\ Asleep.busy = FALSE
  BY DEF Asleep
<1> DEFINE pulled == [past EXCEPT !.sound = FALSE]
<1>3. /\ IsPast(pulled) /\ pulled.card = past.card /\ pulled.torn = past.torn
      /\ pulled.closed = past.closed /\ pulled.sound = FALSE
  BY <1>1 DEF IsPast, PastFields
<1> HIDE DEF pulled
<1>4. CASE CardWorks
  <2>1. UNCHANGED <<slot, noinit, CardType, call, answer, wk, buffer, stored, past>>
    BY <1>4 DEF CardWorks, data
  <2>2. (cd.busy /\ cd' = [cd EXCEPT !.busy = FALSE]) \/ \E t : cd' = [cd EXCEPT !.token = t]
    BY <1>4 DEF CardWorks, Unbusy, Prepare
  <2>3. cd'.mode = cd.mode /\ cd'.op = cd.op /\ cd'.addr = cd.addr /\ (cd'.busy => cd.busy)
    <3>1. CASE cd' = [cd EXCEPT !.busy = FALSE]
      BY <1>1, <3>1 DEF IsCd, CdFields
    <3>2. ASSUME NEW t, cd' = [cd EXCEPT !.token = t]
          PROVE  cd'.mode = cd.mode /\ cd'.op = cd.op /\ cd'.addr = cd.addr /\ cd'.busy = cd.busy
      BY <1>1, <3>2 DEF IsCd, CdFields
    <3>3. CASE cd.busy
      BY <2>2, <3>1, <3>2, <3>3
    <3>4. CASE ~cd.busy
      BY <2>2, <3>2, <3>4
    <3>5. QED  BY <3>3, <3>4
  <2>4. QED  BY <1>1, <2>1, <2>3
<1>5. CASE (\E i \in 1 .. 2 : Tick(i)) \/ UNCHANGED vars
  BY <1>1, <1>5 DEF Tick, card, data, vars
<1>6. CASE Swap
  <2>1. UNCHANGED <<noinit, CardType, call, answer, wk, buffer, stored>>
    BY <1>6 DEF Swap, data
  <2>2. CASE cd' = Asleep /\ past' = pulled
    BY <1>2, <1>3, <2>1, <2>2
  <2>3. CASE slot = NoCard /\ UNCHANGED <<cd, past>>
    BY <1>1, <2>1, <2>3 DEF InvSame
  <2>4. QED  BY <1>6, <2>2, <2>3 DEF Swap, Pulled, pulled
<1>7. CASE Wobble
  <2>1. UNCHANGED <<slot, cd, noinit, CardType, call, answer, wk, buffer, stored>> /\ past' = pulled
    BY <1>7 DEF Wobble, data, pulled
  <2>2. QED  BY <1>3, <2>1
<1>8. QED  BY <1>4, <1>5, <1>6, <1>7 DEF Outside

\* These keep what is said of the blocks.
LEMMA OutsideData ==
  ASSUME IInv, DInv, Outside \/ UNCHANGED vars
  PROVE  DInv'
<1>1. /\ UNCHANGED <<noinit, CardType, call, answer, wk, buffer, stored>>
      /\ \/ slot' = slot /\ cd'.mode = cd.mode /\ cd'.op = cd.op /\ cd'.addr = cd.addr
         \/ cd'.mode = "native" /\ cd'.op = "none"
      /\ IsPast(past') /\ past'.card = past.card /\ past'.torn = past.torn
  BY OutsideFacts DEF DInv
<1>2. InvSame' /\ InvCall'
  BY <1>1 DEF DInv, InvSame, InvCall, Moving
<1>3. Placed => Placed'
  BY <1>1 DEF Placed, Fits, Sent
<1>4. Due' = Due /\ Address(call.sector)' = Address(call.sector) /\ Opened' = Opened
  BY <1>1 DEF Due, Address, Opened
<1>5. InvWrite'
  <2>1. WErase => WErase'
    BY <1>1 DEF WErase
  <2>2. WCommand => WCommand'
    BY <1>1, <1>3, <1>4 DEF WCommand
  <2>3. WData => WData'
    BY <1>1, <1>3 DEF WData, Fits, Sent
  <2>4. WStop => WStop'
    BY <1>1, <1>4 DEF WStop, Fits
  <2>5. QED  BY <1>1, <2>1, <2>2, <2>3, <2>4 DEF DInv, InvWrite
<1>6. InvRead'
  <2>1. Brought => Brought'
    BY <1>1 DEF Brought, Fits, Sent
  <2>2. RCommand => RCommand'
    BY <1>1, <1>3, <1>4 DEF RCommand, ReadsOnly
  <2>3. RBlocks => RBlocks'
    BY <1>1, <1>3, <2>1 DEF RBlocks, ReadsOnly
  <2>4. RStop => RStop'
    BY <1>1, <2>1 DEF RStop
  <2>5. QED  BY <1>1, <2>2, <2>3, <2>4 DEF DInv, InvRead
<1>7. Stored'
  BY <1>1, <1>4 DEF DInv, Stored, Fits, Answered, At
<1>8. Delivers'
  BY <1>1 DEF DInv, Delivers, Fits, Answered, At
<1>9. QED  BY <1>2, <1>5, <1>6, <1>7, <1>8 DEF DInv

-----------------------------------------------------------------------------
\* How disk_read and disk_write begin
LEMMA OpeningOf ==
  ASSUME NEW c, c.op \in {"read", "write"}, c.count \in Nat \ {0}
  PROVE  LET s  == Head(Opening(c))
             cs == Tail(Opening(c))
         IN \/ /\ c.op = "read" /\ s = "READ"
               /\ (c.count = 1 /\ cs = <<"CMD17">>) \/ (c.count # 1 /\ cs = <<"CMD18">>)
            \/ /\ c.op = "write" /\ s = "WRITE"
               /\ (c.count = 1 /\ cs = <<"CMD24">>) \/ (c.count # 1 /\ cs = <<"CMD25">>)
            \/ c.op = "write" /\ s = "ERASE" /\ cs = <<"CMD55", "CMD23">> /\ c.count # 1
<1>1. CASE c.op = "read" /\ c.count = 1
  BY <1>1, TwoHeads DEF Opening
<1>2. CASE c.op = "read" /\ c.count # 1
  BY <1>2, TwoHeads DEF Opening
<1>3. CASE c.op = "write" /\ c.count > 1 /\ CardType # 1
  <2>1. Opening(c) = <<"ERASE", "CMD55", "CMD23">>
    BY <1>3 DEF Opening
  <2>2. QED  BY <1>3, <2>1
<1>4. CASE c.op = "write" /\ ~(c.count > 1 /\ CardType # 1) /\ c.count = 1
  BY <1>4, TwoHeads DEF Opening
<1>5. CASE c.op = "write" /\ ~(c.count > 1 /\ CardType # 1) /\ c.count # 1
  BY <1>5, TwoHeads DEF Opening
<1>6. QED  BY <1>1, <1>2, <1>3, <1>4, <1>5

\* What every call does first
LEMMA BegunData ==
  ASSUME DInv, NEW c, NEW a, Begin(c, a)
  PROVE  /\ call' = c /\ answer' = a /\ buffer' = <<>> /\ stored' = {} /\ InvSame'
         /\ UNCHANGED <<card, noinit, CardType>>
         /\ IsPast(past') /\ past'.card = slot /\ past'.torn = FALSE
         /\ past'.sound = Good /\ past'.closed = (cd.op \notin {"reads", "writes"})
<1>1. /\ call' = c /\ answer' = a /\ buffer' = <<>> /\ stored' = {}
      /\ UNCHANGED <<card, noinit, CardType>>
  BY DEF Begin
<1>2. /\ IsPast(past') /\ past'.card = slot /\ past'.torn = FALSE
      /\ past'.sound = Good /\ past'.closed = (cd.op \notin {"reads", "writes"})
  BY DEF Begin, IsPast, PastFields
<1>3. InvSame'
  BY <1>1, <1>2 DEF DInv, InvSame, card
<1>4. QED  BY <1>1, <1>2, <1>3

\* A call that begins has moved nothing.
LEMMA BeginData ==
  ASSUME IInv, DInv, Poll \/ Initialize \/ Transfer \/ Ioctl
  PROVE  DInv'
<1>1. IsWk(wk) /\ wk.at = "REST"
  BY DEF IInv, InvShape, Poll, Initialize, Transfer, Ioctl, At
<1>2. CASE Poll \/ Initialize \/ Ioctl
  <2>1. PICK c, a : Begin(c, a) /\ c.op \notin {"read", "write"}
    BY <1>2 DEF Poll, Initialize, Ioctl
  <2>2. /\ call'.op \notin {"read", "write"} /\ InvSame' /\ IsPast(past') /\ CardType' = CardType
    BY <2>1, BegunData
  <2>3. InvCall'
    BY <2>2 DEF DInv, InvCall, Moving
  <2>4. QED
    BY <2>2, <2>3 DEF DInv, InvWrite, InvRead, Stored, Delivers, Answered
<1>3. CASE Transfer
  <2>1. PICK c \in Calls :
          /\ c.op \in {"read", "write"}
          /\ \/ noinit /\ Begin(c, "NOTRDY") /\ UNCHANGED wk
             \/ /\ ~noinit /\ Begin(c, "NONE")
                /\ Wait([Packet(Head(Opening(c)), Tail(Opening(c)), Address(c.sector)) EXCEPT !.left = c.count])
    BY <1>3 DEF Transfer
  <2>2. /\ call' = c /\ answer' \in {"NOTRDY", "NONE"} /\ buffer' = <<>> /\ stored' = {} /\ InvSame'
        /\ UNCHANGED <<noinit, CardType>> /\ IsPast(past')
    BY <2>1, BegunData
  <2>3. Stored' /\ Delivers'
    BY <2>2 DEF Stored, Delivers, Answered
  <2>4. CASE noinit /\ UNCHANGED wk
    <3>1. InvCall' /\ InvWrite' /\ InvRead'
      BY <1>1, <2>1, <2>2, <2>4 DEF DInv, InvCall, Moving, InvWrite, InvRead
    <3>2. QED  BY <2>2, <2>3, <3>1 DEF DInv
  <2>5. CASE /\ ~noinit
             /\ Wait([Packet(Head(Opening(c)), Tail(Opening(c)), Address(c.sector)) EXCEPT !.left = c.count])
    <3> DEFINE s == Head(Opening(c))
               cs == Tail(Opening(c))
               w == [Packet(s, cs, Address(c.sector)) EXCEPT !.left = c.count]
    <3>1. IsWk(w) /\ w.step = s /\ w.cmds = cs /\ w.arg = Address(c.sector) /\ w.left = c.count
      BY <1>1 DEF IsWk, WkFields, Packet
    <3>2. /\ wk'.at = "WAIT" /\ wk'.step = s /\ wk'.cmds = cs /\ wk'.left = c.count
          /\ wk'.arg = Address(c.sector)
      BY <2>5, <3>1, WaitFacts
    <3>3. InvCall'
      BY <2>1, <2>2, <2>5, <3>2 DEF DInv, InvCall, Moving
    <3>4. wk'.arg = Address(call.sector)'
      BY <2>2, <3>2 DEF Address
    <3>5. \/ /\ c.op = "read" /\ s = "READ"
             /\ (c.count = 1 /\ cs = <<"CMD17">>) \/ (c.count # 1 /\ cs = <<"CMD18">>)
          \/ /\ c.op = "write" /\ s = "WRITE"
             /\ (c.count = 1 /\ cs = <<"CMD24">>) \/ (c.count # 1 /\ cs = <<"CMD25">>)
          \/ c.op = "write" /\ s = "ERASE" /\ cs = <<"CMD55", "CMD23">> /\ c.count # 1
      BY <2>1, OpeningOf, CallsAssumption
    <3> HIDE DEF s, cs, w
    <3>6. c.op = "read" => RCommand'
      BY <2>2, <3>2, <3>4, <3>5 DEF RCommand, Asking, Opened
    <3>7. c.op = "write" => WCommand' \/ WErase'
      BY <2>2, <3>2, <3>4, <3>5 DEF WCommand, WErase, Asking, Opened
    <3>8. InvWrite' /\ InvRead'
      BY <2>2, <3>6, <3>7 DEF InvWrite, InvRead
    <3>9. QED  BY <2>2, <2>3, <3>3, <3>8 DEF DInv
  <2>6. QED  BY <2>1, <2>4, <2>5
<1>4. QED  BY <1>2, <1>3

-----------------------------------------------------------------------------
\* The loop that waits for a byte
LEMMA ReadByteFacts ==
  ASSUME IsWk(wk), ReadByte
  PROVE  /\ wk.at = "WAIT" /\ wk'.at = "TEST" /\ wk'.step = wk.step /\ wk'.cmds = wk.cmds
         /\ wk'.arg = wk.arg /\ wk'.left = wk.left /\ wk'.r = wk.r
         /\ UNCHANGED <<slot, bad, cd, noinit, CardType, call, answer, buffer, stored, timer, fresh, past>>
<1>1. PICK ff : wk' = [wk EXCEPT !.at = "TEST", !.ff = ff]
  BY DEF ReadByte
<1>2. /\ wk'.at = "TEST" /\ wk'.step = wk.step /\ wk'.cmds = wk.cmds
      /\ wk'.arg = wk.arg /\ wk'.left = wk.left /\ wk'.r = wk.r
  BY <1>1 DEF IsWk, WkFields
<1>3. QED  BY <1>2 DEF ReadByte, At, card, data

\* It goes on, is done, or gives up.
LEMMA TestFacts ==
  ASSUME IsWk(wk), Test
  PROVE  /\ wk.at = "TEST" /\ wk'.step = wk.step /\ wk'.cmds = wk.cmds
         /\ wk'.arg = wk.arg /\ wk'.left = wk.left
         /\ UNCHANGED <<slot, bad, cd, noinit, CardType, call, answer, buffer, stored, timer, past>>
         /\ \/ wk'.at = "WAIT" /\ wk'.r = wk.r /\ ~wk.ff /\ timer[2] > 0 /\ fresh' = fresh \union {2}
            \/ wk'.at = "SEND" /\ wk.cmds # <<>> /\ wk.ff
            \/ /\ wk'.at = "REPLIED" /\ wk'.r = "error" /\ wk.cmds # <<>>
               /\ ~wk.ff /\ ~(timer[2] > 0)
            \/ /\ wk'.at = wk.step /\ wk.cmds = <<>>
               /\ (wk.ff /\ wk'.r = "ready") \/ (wk'.r = "error" /\ ~wk.ff /\ ~(timer[2] > 0))
<1>1. /\ wk.at = "TEST"
      /\ UNCHANGED <<slot, bad, cd, noinit, CardType, call, answer, buffer, stored, timer, past>>
  BY DEF Test, At, card, data
<1>2. CASE ~wk.ff /\ timer[2] > 0
  <2>1. wk' = [wk EXCEPT !.at = "WAIT"] /\ fresh' = fresh \union {2}
    BY <1>2 DEF Test
  <2>2. /\ wk'.at = "WAIT" /\ wk'.step = wk.step /\ wk'.cmds = wk.cmds
        /\ wk'.arg = wk.arg /\ wk'.left = wk.left /\ wk'.r = wk.r
    BY <2>1 DEF IsWk, WkFields
  <2>3. QED  BY <1>1, <1>2, <2>1, <2>2
<1>3. CASE ~(~wk.ff /\ timer[2] > 0)
  <2>1. PICK p, r : /\ wk' = [wk EXCEPT !.at = p, !.r = r]
                    /\ \/ wk.cmds # <<>> /\ wk.ff /\ p = "SEND"
                       \/ wk.cmds # <<>> /\ ~wk.ff /\ p = "REPLIED" /\ r = "error"
                       \/ wk.cmds = <<>> /\ p = wk.step /\ wk.ff /\ r = "ready"
                       \/ wk.cmds = <<>> /\ p = wk.step /\ ~wk.ff /\ r = "error"
    BY <1>3 DEF Test, Ready
  <2>2. /\ wk'.at = p /\ wk'.step = wk.step /\ wk'.cmds = wk.cmds
        /\ wk'.arg = wk.arg /\ wk'.left = wk.left /\ wk'.r = r
    BY <2>1 DEF IsWk, WkFields
  <2>3. QED  BY <1>1, <1>3, <2>1, <2>2
<1>4. QED  BY <1>2, <1>3

\* A command is sent, and the next one will be, or it was the last.
LEMMA ExchangeFacts ==
  ASSUME IsWk(wk), Exchange
  PROVE  /\ wk.at = "SEND" /\ wk'.step = wk.step /\ wk'.arg = wk.arg /\ wk'.left = wk.left
         /\ wk'.ty = wk.ty
         /\ UNCHANGED <<slot, bad, noinit, CardType, call, answer, buffer, stored, past>>
         /\ \E a \in Answers(Head(wk.cmds), wk.arg) :
              /\ cd' = a.cd
              /\ \/ /\ Len(wk.cmds) > 1 /\ a.r # "error" /\ wk'.at = "WAIT" /\ wk'.cmds = Tail(wk.cmds)
                    /\ Set(2, WaitTime)
                 \/ /\ wk'.at = "REPLIED" /\ wk'.cmds = wk.cmds /\ wk'.r = a.r
                    /\ Len(wk.cmds) > 1 => a.r = "error"
                    /\ UNCHANGED <<timer, fresh>>
<1>1. /\ wk.at = "SEND"
      /\ UNCHANGED <<slot, bad, noinit, CardType, call, answer, buffer, stored, past>>
  BY DEF Exchange, At, data
<1>2. PICK a \in Answers(Head(wk.cmds), wk.arg) :
        /\ cd' = a.cd
        /\ IF Len(wk.cmds) > 1 /\ a.r # "error"
           THEN Wait([wk EXCEPT !.cmds = Tail(@)])
           ELSE wk' = [wk EXCEPT !.at = "REPLIED", !.r = a.r] /\ UNCHANGED <<timer, fresh>>
  BY DEF Exchange
<1>3. CASE Len(wk.cmds) > 1 /\ a.r # "error" /\ Wait([wk EXCEPT !.cmds = Tail(@)])
  <2> DEFINE w == [wk EXCEPT !.cmds = Tail(@)]
  <2>1. /\ IsWk(w) /\ w.step = wk.step /\ w.cmds = Tail(wk.cmds) /\ w.arg = wk.arg /\ w.left = wk.left
        /\ w.ty = wk.ty
    BY DEF IsWk, WkFields
  <2>2. Wait(w)
    BY <1>3
  <2> HIDE DEF w
  <2>3. /\ wk'.at = "WAIT" /\ wk'.step = wk.step /\ wk'.cmds = Tail(wk.cmds)
        /\ wk'.arg = wk.arg /\ wk'.left = wk.left /\ wk'.ty = wk.ty /\ Set(2, WaitTime)
    BY <2>1, <2>2, WaitFacts DEF Wait
  <2>4. QED  BY <1>1, <1>2, <1>3, <2>3
<1>4. CASE /\ Len(wk.cmds) > 1 => a.r = "error"
           /\ wk' = [wk EXCEPT !.at = "REPLIED", !.r = a.r] /\ UNCHANGED <<timer, fresh>>
  <2>1. /\ wk'.at = "REPLIED" /\ wk'.step = wk.step /\ wk'.cmds = wk.cmds
        /\ wk'.arg = wk.arg /\ wk'.left = wk.left /\ wk'.ty = wk.ty /\ wk'.r = a.r
    BY <1>4 DEF IsWk, WkFields
  <2>2. QED  BY <1>1, <1>2, <1>4, <2>1
<1>5. QED  BY <1>2, <1>3, <1>4

\* What moving a block, and the stop token, do to the card
LEMMA BlockCard ==
  ASSUME IsCd(cd), TakeBlock \/ SendBlock \/ SendStop
  PROVE  \/ slot' = slot /\ cd'.mode = cd.mode /\ cd'.op \in {cd.op, "none"}
         \/ cd'.mode = "native" /\ cd'.op = "none" /\ ~cd'.busy
<1>1. \/ UNCHANGED <<slot, cd>>
      \/ cd' = Asleep
      \/ slot' = slot /\ cd' = Next1("read")
      \/ slot' = slot /\ cd' = [Next1("write") EXCEPT !.busy = TRUE]
      \/ slot' = slot /\ cd' = [cd EXCEPT !.op = "none"]
      \/ slot' = slot /\ cd' = [cd EXCEPT !.op = "none", !.busy = TRUE]
  BY DEF TakeBlock, SendBlock, SendStop, Programmed, Rejected
<1>2. ASSUME NEW op PROVE IsCd(Next1(op)) /\ Next1(op).mode = cd.mode /\ Next1(op).op \in {cd.op, "none"}
  BY DEF Next1, IsCd, CdFields, CdModes
<1>3. CASE UNCHANGED <<slot, cd>>
  BY <1>3
<1>4. CASE cd' = Asleep
  BY <1>4 DEF Asleep
<1>5. CASE slot' = slot /\ cd' = Next1("read")
  BY <1>2, <1>5
<1>6. CASE slot' = slot /\ cd' = [Next1("write") EXCEPT !.busy = TRUE]
  <2> DEFINE c == Next1("write")
  <2>1. IsCd(c) /\ c.mode = cd.mode /\ c.op \in {cd.op, "none"}
    BY <1>2
  <2> HIDE DEF c
  <2>2. cd' = [c EXCEPT !.busy = TRUE]
    BY <1>6 DEF c
  <2>3. cd'.mode = cd.mode /\ cd'.op \in {cd.op, "none"}
    BY <2>1, <2>2 DEF IsCd, CdFields
  <2>4. QED  BY <1>6, <2>3
<1>7. CASE slot' = slot /\ cd' = [cd EXCEPT !.op = "none"]
  BY <1>7 DEF IsCd, CdFields
<1>8. CASE slot' = slot /\ cd' = [cd EXCEPT !.op = "none", !.busy = TRUE]
  BY <1>8 DEF IsCd, CdFields
<1>9. QED  BY <1>1, <1>3, <1>4, <1>5, <1>6, <1>7, <1>8

\* What the history of a call is at its next step
LEMMA PastFacts ==
  ASSUME IsPast(past), Driver
  PROVE  /\ IsPast(past') /\ past'.card = past.card /\ past'.closed = past.closed
         /\ past'.sound => past.sound
         /\ TakeBlock \/ UNCHANGED <<past>> \/ (SendBlock /\ past'.torn = past.torn)
<1>1. \/ UNCHANGED past
      \/ TakeBlock /\ past' = [past EXCEPT !.sound = FALSE, !.torn = TRUE]
      \/ TakeBlock /\ past' = [past EXCEPT !.torn = TRUE]
      \/ SendBlock /\ past' = [past EXCEPT !.sound = @ /\ slot' # NoCard]
  BY DEF Driver, ReadByte, Test, Exchange, Polled, GoIdle, IfCond, OpCond, Ocr, Sdc, Leave, SetBlockLen,
         PowerOff, ReadOpened, ReadToken, TokenTest, TakeBlock, Stopped, Erased, WriteOpened, SendBlock,
         SendStop, Synced, Registered, TakeRegister
<1>2. CASE UNCHANGED past
  BY <1>2
<1>3. CASE TakeBlock /\ past' = [past EXCEPT !.sound = FALSE, !.torn = TRUE]
  BY <1>3 DEF IsPast, PastFields
<1>4. CASE TakeBlock /\ past' = [past EXCEPT !.torn = TRUE]
  BY <1>4 DEF IsPast, PastFields
<1>5. CASE SendBlock /\ past' = [past EXCEPT !.sound = @ /\ slot' # NoCard]
  <2> DEFINE b == past.sound /\ slot' # NoCard
  <2>1. past' = [past EXCEPT !.sound = b]
    BY <1>5
  <2> HIDE DEF b
  <2>2. /\ IsPast(past') /\ past'.card = past.card /\ past'.closed = past.closed
        /\ past'.torn = past.torn /\ past'.sound = b
    BY <2>1 DEF IsPast, PastFields
  <2>3. QED  BY <1>5, <2>2 DEF b
<1>6. QED  BY <1>1, <1>2, <1>3, <1>4, <1>5

\* What the other actions of the driver have in common
InitOnly == GoIdle \/ IfCond \/ OpCond \/ Ocr \/ Sdc \/ Leave \/ SetBlockLen
\* disk_initialize is not a part of another call.
LEMMA OnlyInit == ASSUME IInv, call.op # "init" PROVE ~InitOnly
<1>1. wk.at # "REST" => wk.step \in OtherSteps
  BY DEF IInv, InvOther, Quiet
<1>2. QED  BY <1>1 DEF InitOnly, GoIdle, IfCond, OpCond, Ocr, Sdc, Leave, SetBlockLen, Step, At, OtherSteps

\* The places of a transfer
LEMMA MovingPlaces ==
  ASSUME DInv, Moving, wk.at # "REST"
  PROVE  wk.at \in Asking \union {"DATA", "STOP", "TOKEN", "TOKENTEST", "BLOCK"}
  BY DEF DInv, Moving, InvWrite, InvRead, WErase, WCommand, WData, WStop, RCommand, RBlocks, RStop, Asking

\* The type that disk_initialize finds
LEMMA TypeFound ==
  ASSUME IInv, InvCall, Driver
  PROVE  CardType' \in {0, 1, 2, 4, 12}
<1>1. CardType' = CardType \/ InitOnly
  BY DEF Driver, ReadByte, Test, Exchange, Polled, PowerOff, ReadOpened, ReadToken, TokenTest, TakeBlock,
         Stopped, Erased, WriteOpened, SendBlock, SendStop, Synced, Registered, TakeRegister, InitOnly
<1>2. CASE InitOnly
  <2>1. CardType' \in {CardType, 0, wk.ty, Capacity} /\ (CardType' = wk.ty => SetBlockLen \/ CardType' \in {CardType, 0, Capacity})
    BY <1>2 DEF InitOnly, GoIdle, IfCond, OpCond, Ocr, Sdc, Leave, SetBlockLen, Finish, Go, Retry, LeaveIdle
  <2>2. Capacity \in {4, 12}
    BY DEF Capacity
  <2>3. SetBlockLen => wk.ty \in {1, 2}
    <3>1. call.op = "init"
      BY <1>2, OnlyInit
    <3>2. QED  BY <3>1 DEF IInv, InvInit, Sends, Sendable, SetBlockLen, Step, At
  <2>4. QED  BY <2>1, <2>2, <2>3 DEF InvCall
<1>3. QED  BY <1>1, <1>2 DEF InvCall

\* Every step of the driver keeps what is known of the card and the call.
LEMMA DriverFrame ==
  ASSUME IInv, DInv, Driver
  PROVE  call' = call /\ wk.at # "REST" /\ InvSame' /\ InvCall'
<1>1. call' = call
  BY DEF Driver, ReadByte, Test, Exchange, Polled, GoIdle, IfCond, OpCond, Ocr, Sdc, Leave, SetBlockLen,
         PowerOff, ReadOpened, ReadToken, TokenTest, TakeBlock, Stopped, Erased, WriteOpened, SendBlock,
         SendStop, Synced, Registered, TakeRegister
<1>2. wk.at # "REST"
  BY DEF Driver, ReadByte, Test, Exchange, Polled, GoIdle, IfCond, OpCond, Ocr, Sdc, Leave, SetBlockLen,
         PowerOff, ReadOpened, ReadToken, TokenTest, TakeBlock, Stopped, Erased, WriteOpened, SendBlock,
         SendStop, Synced, Registered, TakeRegister, Step, At
<1>3. IsCd(cd) /\ IsWk(wk) /\ IsPast(past) /\ (slot = NoCard => cd.mode = "native")
  BY DEF IInv, DInv, InvShape, InvCall, InvEmpty
<1>4. IsPast(past') /\ past'.card = past.card
  BY <1>3, PastFacts
<1>5. InvSame'
  <2>1. CASE Exchange
    <3>1. PICK a \in Answers(Head(wk.cmds), wk.arg) : cd' = a.cd
      BY <1>3, <2>1, ExchangeFacts
    <3>2. cd'.op # "none" => cd'.mode = "ready"
      BY <1>3, <3>1, AnswersRun DEF DInv, InvSame
    <3>3. call.op # "init" => cd'.mode = cd.mode
      <4>1. call.op # "init" => Head(wk.cmds) \notin Changing
        BY <2>1, OtherHeads DEF IInv, InvOther, Quiet, Exchange, At
      <4>2. QED  BY <1>3, <3>1, <4>1, AnswersMode
    <3>4. slot' = slot
      BY <2>1 DEF Exchange
    <3>5. QED  BY <1>1, <1>4, <3>2, <3>3, <3>4 DEF DInv, InvSame
  <2>2. CASE TakeBlock \/ SendBlock \/ SendStop
    <3>1. \/ slot' = slot /\ cd'.mode = cd.mode /\ cd'.op \in {cd.op, "none"}
          \/ cd'.mode = "native" /\ cd'.op = "none"
      BY <1>3, <2>2, BlockCard
    <3>2. QED  BY <1>1, <1>4, <3>1 DEF DInv, InvSame
  <2>3. CASE ~(Exchange \/ TakeBlock \/ SendBlock \/ SendStop)
    <3>1. UNCHANGED card
      BY <2>3 DEF Driver, ReadByte, Test, Polled, GoIdle, IfCond, OpCond, Ocr, Sdc, Leave, SetBlockLen,
         PowerOff, ReadOpened, ReadToken, TokenTest, Stopped, Erased, WriteOpened,
         Synced, Registered, TakeRegister
    <3>2. QED  BY <1>1, <1>4, <3>1 DEF DInv, InvSame, card
  <2>4. QED  BY <2>1, <2>2, <2>3
<1>6. InvCall'
  <2>1. CardType' \in {0, 1, 2, 4, 12}
    BY TypeFound DEF DInv
  <2>2. Moving => noinit' = noinit
    <3> SUFFICES ASSUME Moving PROVE noinit' = noinit
      OBVIOUS
    <3>1. ~InitOnly
      BY OnlyInit DEF Moving
    <3>2. ~PowerOff
      BY <1>2, MovingPlaces DEF PowerOff, At, Asking
    <3>3. QED
      BY <3>1, <3>2 DEF InitOnly, Driver, ReadByte, Test, Exchange, Polled,
         ReadOpened, ReadToken, TokenTest, TakeBlock, Stopped, Erased, WriteOpened, SendBlock,
         SendStop, Synced, Registered, TakeRegister
  <2>3. QED  BY <1>1, <1>2, <1>4, <2>1, <2>2 DEF DInv, InvCall, Moving
<1>7. QED  BY <1>1, <1>2, <1>5, <1>6

-----------------------------------------------------------------------------
\* The command that opens a transfer is sent to the card of the call, at the
\* place of the first block.
LEMMA OpenedPlaced ==
  ASSUME IInv, DInv, Moving, wk.at # "REST", wk.arg = Address(call.sector), wk.left = call.count,
         NEW cmd, NEW a \in Answers(cmd, wk.arg), a.r = "ready", cd' = a.cd,
         UNCHANGED <<slot, CardType, call>>, wk'.left = wk.left, past'.card = past.card
  PROVE  Placed'
<1> SUFFICES ASSUME Fits, cd'.op # "none"
             PROVE  cd'.addr = Unit(past.card, call.sector, 0)
  <2>1. call.count \in Nat
    BY CallsAssumption DEF DInv, InvCall, Moving
  <2>2. QED  BY <2>1 DEF Placed, Fits, Sent
<1>1. /\ IsCd(cd) /\ (slot = NoCard => cd.mode = "native") /\ (cd.op # "none" => cd.mode = "ready")
      /\ TypeMatches
  BY DEF IInv, DInv, InvShape, InvEmpty, InvSame
<1>2. /\ \A r, c : Yes(r, c).cd = c /\ Yes(r, c).r = r
      /\ cd'.addr = wk.arg /\ slot # NoCard /\ cd.mode = "ready"
  <2>1. \A r, c : Yes(r, c).cd = c /\ Yes(r, c).r = r
    BY DEF Yes
  <2>2. QED  BY <1>1, <2>1, AnswersRun
<1>3. slot = past.card /\ (CardType = 12) = (Kind[slot] = "SDHC")
  BY <1>1, <1>2 DEF DInv, InvSame, InvCall, Moving, TypeMatches
<1>4. call.sector \in Nat
  BY CallsAssumption DEF DInv, InvCall, Moving
<1>5. CASE CardType = 12
  BY <1>2, <1>3, <1>4, <1>5 DEF Address, Unit
<1>6. CASE CardType # 12
  <2>1. Address(call.sector) = (call.sector * BlockLen) % AddrMod
    BY <1>6 DEF Address, DInv, InvCall
  <2>2. \A x \in Nat : x < AddrMod => x % AddrMod = x
    BY BlocksAssumption
  <2>3. call.sector * BlockLen \in Nat
    BY <1>4, BlocksAssumption
  <2>4. Address(call.sector) = call.sector * BlockLen
    BY <1>3, <1>6, <2>1, <2>2, <2>3 DEF Fits
  <2>5. QED  BY <1>2, <1>3, <1>4, <1>6, <2>4 DEF Unit
<1>7. QED  BY <1>5, <1>6

-----------------------------------------------------------------------------
\* What a call is about
LEMMA MovingFacts ==
  ASSUME InvCall, Moving
  PROVE  call.sector \in Nat /\ call.count \in Nat \ {0}
  BY CallsAssumption DEF InvCall, Moving

\* While disk_write is under way, what is stored is due.
LEMMA WriteStored ==
  ASSUME InvCall', InvWrite', wk'.at # "REST"
  PROVE  Stored'
<1> SUFFICES ASSUME call'.op = "write", Fits' PROVE stored' \subseteq Due'
  BY DEF Stored, Answered, At
<1>1. call'.sector \in Nat /\ call'.count \in Nat \ {0}
  BY CallsAssumption DEF InvCall, Moving
<1>2. CASE WErase' \/ WCommand'
  BY <1>2 DEF WErase, WCommand
<1>3. CASE WData'
  <2>1. stored' = StoredTo(past'.card, call'.sector, call'.count - wk'.left) /\ wk'.left \in 1 .. call'.count
    BY <1>3 DEF WData, Sent
  <2>2. Due' = StoredTo(past'.card, call'.sector, call'.count)
    BY DEF Due, StoredTo
  <2>3. call'.count - wk'.left \in Nat /\ call'.count - wk'.left <= call'.count
    BY <1>1, <2>1
  <2>4. QED  BY <1>1, <2>1, <2>2, <2>3, StoredLess
<1>4. CASE WStop'
  BY <1>4 DEF WStop
<1>5. QED  BY <1>2, <1>3, <1>4 DEF InvWrite

\* disk_write waits and sends commands.
LEMMA WriteSends ==
  ASSUME IInv, DInv, call.op = "write", ReadByte \/ Test \/ Exchange
  PROVE  InvWrite' /\ wk'.at # "REST"
<1>1. IsWk(wk) /\ IsPast(past) /\ InvCall
  BY DEF IInv, InvShape, DInv, InvCall
<1>2. wk.at # "REST"
  BY DEF ReadByte, Test, Exchange, At
<1>3. WErase \/ WCommand \/ WData \/ WStop
  BY <1>2 DEF DInv, InvWrite
<1>4. CASE ReadByte \/ Test
  <2>1. /\ wk'.step = wk.step /\ wk'.cmds = wk.cmds /\ wk'.arg = wk.arg /\ wk'.left = wk.left
        /\ UNCHANGED <<slot, cd, CardType, call, stored, past>>
        /\ \/ wk'.at \in {"WAIT", "TEST"}
           \/ wk'.at \in {"SEND", "REPLIED"} /\ wk.cmds # <<>> /\ (wk'.at = "REPLIED" => wk'.r = "error")
           \/ wk'.at = wk.step /\ wk.cmds = <<>>
    BY <1>1, <1>4, ReadByteFacts, TestFacts
  <2>2. ~Opened'
    <3>1. CASE WErase \/ WCommand
      <4>1. wk.cmds # <<>>
        BY <3>1, OneHead, TwoHeads DEF WErase, WCommand
      <4>2. QED  BY <2>1, <4>1 DEF Opened
    <3>2. CASE WData \/ WStop
      BY <2>1, <3>2 DEF WData, WStop, Opened
    <3>3. QED  BY <1>3, <3>1, <3>2
  <2>3. Address(call.sector)' = Address(call.sector) /\ Due' = Due
    BY <2>1 DEF Address, Due
  <2>4. Placed => Placed'
    BY <2>1 DEF Placed, Fits, Sent
  <2>5. CASE WErase
    <3>1. wk.cmds # <<>>
      BY <2>5, OneHead, TwoHeads DEF WErase
    <3>2. WErase'
      BY <2>1, <2>5, <3>1 DEF WErase, Asking
    <3>3. QED  BY <2>1, <3>1, <3>2 DEF InvWrite
  <2>6. CASE WCommand
    <3>1. wk.cmds # <<>>
      BY <2>6, OneHead DEF WCommand
    <3>2. WCommand'
      BY <2>1, <2>2, <2>3, <2>6, <3>1 DEF WCommand, Asking
    <3>3. QED  BY <2>1, <3>1, <3>2 DEF InvWrite
  <2>7. CASE WData
    <3>1. WData' /\ wk'.at # "REST"
      BY <2>1, <2>4, <2>7 DEF WData, Fits, Sent
    <3>2. QED  BY <3>1 DEF InvWrite
  <2>8. CASE WStop
    <3>1. WStop' /\ wk'.at # "REST"
      BY <2>1, <2>3, <2>8 DEF WStop, Fits
    <3>2. QED  BY <3>1 DEF InvWrite
  <2>9. QED  BY <1>3, <2>5, <2>6, <2>7, <2>8
<1>5. CASE Exchange
  <2>1. /\ wk.at = "SEND" /\ wk'.step = wk.step /\ wk'.arg = wk.arg /\ wk'.left = wk.left
        /\ UNCHANGED <<slot, CardType, call, stored, past>>
    BY <1>1, <1>5, ExchangeFacts
  <2>2. PICK a \in Answers(Head(wk.cmds), wk.arg) :
          /\ cd' = a.cd
          /\ \/ Len(wk.cmds) > 1 /\ wk'.at = "WAIT" /\ wk'.cmds = Tail(wk.cmds)
             \/ wk'.at = "REPLIED" /\ wk'.cmds = wk.cmds /\ wk'.r = a.r
    BY <1>1, <1>5, ExchangeFacts
  <2>3. CASE WErase
    <3>1. Len(wk.cmds) > 1 => Tail(wk.cmds) = <<"CMD23">>
      <4>1. CASE wk.cmds = <<"CMD23">>
        BY <4>1, OneHead
      <4>2. CASE wk.cmds = <<"CMD55", "CMD23">>
        BY <4>2, TwoHeads
      <4>3. QED  BY <2>3, <4>1, <4>2 DEF WErase
    <3>2. WErase'
      <4>1. wk'.step = "ERASE" /\ call'.count # 1 /\ wk'.left = call'.count /\ stored' = {}
        BY <2>1, <2>3 DEF WErase
      <4>2. wk'.at \in Asking
        BY <2>2 DEF Asking
      <4>3. wk'.cmds \in {<<"CMD55", "CMD23">>, <<"CMD23">>}
        <5>1. wk.cmds \in {<<"CMD55", "CMD23">>, <<"CMD23">>}
          BY <2>3 DEF WErase
        <5>2. QED  BY <2>2, <3>1, <5>1
      <4>4. QED  BY <4>1, <4>2, <4>3 DEF WErase
    <3>3. QED  BY <2>2, <3>2 DEF InvWrite
  <2>4. CASE WCommand
    <3>1. ~(Len(wk.cmds) > 1)
      BY <2>4, OneHead DEF WCommand
    <3>2. wk'.at = "REPLIED" /\ wk'.cmds = wk.cmds /\ wk'.r = a.r
      BY <2>2, <3>1
    <3>3. Opened' => Placed'
      BY <1>2, <2>1, <2>2, <2>4, <3>2, OpenedPlaced DEF Moving, WCommand, Opened
    <3>4. Address(call.sector)' = Address(call.sector)
      BY <2>1 DEF Address
    <3>5. WCommand'
      BY <2>1, <2>4, <3>2, <3>3, <3>4 DEF WCommand, Asking
    <3>6. QED  BY <3>2, <3>5 DEF InvWrite
  <2>5. ~WData /\ ~WStop
    BY <2>1 DEF WData, WStop
  <2>6. QED  BY <1>3, <2>3, <2>4, <2>5
<1>6. QED  BY <1>4, <1>5

\* The block that is next is stored in its place, and the card goes on to the next.
LEMMA ProgrammedNext ==
  ASSUME IInv, DInv, call.op = "write", WData, Programmed, Fits
  PROVE  /\ stored' = StoredTo(past.card, call.sector, Sent + 1)
         /\ cd'.op # "none" => cd'.addr = Unit(past.card, call.sector, Sent + 1)
<1>1. call.sector \in Nat /\ call.count \in Nat \ {0} /\ wk.left \in 1 .. call.count /\ Sent \in Nat
  BY MovingFacts DEF DInv, Moving, WData, Sent
<1>2. cd.op \in {"write", "writes"} /\ stored' = stored \union {<<slot, Block(cd.addr), Sent>>}
  BY DEF Programmed, Writing
<1>3. slot = past.card /\ cd.addr = Unit(past.card, call.sector, Sent)
  BY <1>2 DEF DInv, InvSame, WData, Placed
<1>4. Block(cd.addr) = call.sector + Sent
  <2>1. /\ Kind[past.card] = "SDHC" => Unit(past.card, call.sector, Sent) = call.sector + Sent
        /\ Kind[past.card] # "SDHC" => Unit(past.card, call.sector, Sent) \div BlockLen = call.sector + Sent
    BY <1>1, UnitBlock
  <2>2. QED  BY <1>3, <2>1 DEF Block
<1>5. stored' = StoredTo(past.card, call.sector, Sent + 1)
  <2>1. stored = StoredTo(past.card, call.sector, Sent)
    BY DEF WData
  <2>2. StoredTo(past.card, call.sector, Sent + 1)
          = StoredTo(past.card, call.sector, Sent) \union {<<past.card, call.sector + Sent, Sent>>}
    BY <1>1, StoredNext
  <2>3. QED  BY <1>2, <1>3, <1>4, <2>1, <2>2
<1>6. cd'.op # "none" => cd'.addr = Further
  <2> DEFINE c == Next1("write")
  <2>1. IsCd(c) /\ (c.op # "none" => c.addr = Further)
    BY DEF IInv, InvShape, Next1, IsCd, CdFields, CdModes
  <2>2. cd' = [c EXCEPT !.busy = TRUE]
    BY DEF Programmed
  <2> HIDE DEF c
  <2>3. cd'.op = c.op /\ cd'.addr = c.addr
    BY <2>1, <2>2 DEF IsCd, CdFields
  <2>4. QED  BY <2>1, <2>3
<1>7. Further = Unit(past.card, call.sector, Sent + 1)
  <2>1. Unit(past.card, call.sector, Sent + 1)
          = IF Kind[past.card] = "SDHC" THEN Unit(past.card, call.sector, Sent) + 1
                                         ELSE Unit(past.card, call.sector, Sent) + BlockLen
    BY <1>1, UnitNext
  <2>2. QED  BY <1>3, <2>1 DEF Further
<1>8. QED  BY <1>5, <1>6, <1>7

\* A block is sent, or the transfer is broken off.
LEMMA WriteBlock ==
  ASSUME IInv, DInv, call.op = "write", SendBlock, InvCall'
  PROVE  InvWrite' /\ Stored'
<1>1. IsWk(wk) /\ wk.at = "DATA" /\ call' = call
  BY DEF IInv, InvShape, SendBlock, At
<1>2. WData
  BY <1>1 DEF DInv, InvWrite, WErase, WCommand, WStop, Asking
<1>3. call.sector \in Nat /\ call.count \in Nat \ {0} /\ wk.left \in 1 .. call.count
  BY <1>2, MovingFacts DEF DInv, Moving, WData
<1>4. past'.card = past.card
  BY PastFacts DEF DInv, InvCall, Driver
<1>5. Due' = Due /\ Due = StoredTo(past.card, call.sector, call.count) /\ (Fits' <=> Fits)
  BY <1>1, <1>4 DEF Due, StoredTo, Fits
<1>6. Single <=> call.count = 1
  BY DEF Single
<1>7. CASE /\ Programmed
           /\ IF Single THEN Return("OK")
              ELSE Transmit(IF wk.left > 1 THEN "DATA" ELSE "STOP", wk.left - 1)
  <2>1. Fits => /\ stored' = StoredTo(past.card, call.sector, Sent + 1)
                /\ cd'.op # "none" => cd'.addr = Unit(past.card, call.sector, Sent + 1)
    BY <1>2, <1>7, ProgrammedNext
  <2>2. CASE Single
    <3>1. wk'.at = "REST"
      BY <1>7, <2>2, ReturnFacts
    <3>2. Sent + 1 = call.count
      BY <1>3, <1>6, <2>2 DEF Sent
    <3>3. Fits => stored' = Due'
      BY <1>5, <2>1, <3>2
    <3>4. QED  BY <1>5, <3>1, <3>3 DEF InvWrite, Stored
  <2>3. CASE ~Single /\ wk.left > 1
    <3>1. wk'.at = "WAIT" /\ wk'.step = "DATA" /\ wk'.cmds = <<>> /\ wk'.left = wk.left - 1
      BY <1>1, <1>7, <2>3, TransmitFacts
    <3>2. Sent' = Sent + 1 /\ wk'.left \in 1 .. call.count
      BY <1>1, <1>3, <2>3, <3>1 DEF Sent
    <3>3. Placed'
      BY <1>1, <1>4, <1>5, <2>1, <3>2 DEF Placed
    <3>4. WData'
      BY <1>1, <1>4, <1>5, <2>1, <3>1, <3>2, <3>3 DEF WData
    <3>5. InvWrite' /\ wk'.at # "REST"
      BY <3>1, <3>4 DEF InvWrite
    <3>6. QED  BY <3>5, WriteStored
  <2>4. CASE ~Single /\ ~(wk.left > 1)
    <3>1. wk'.at = "WAIT" /\ wk'.step = "STOP" /\ wk'.cmds = <<>>
      BY <1>1, <1>7, <2>4, TransmitFacts
    <3>2. Sent + 1 = call.count
      BY <1>3, <2>4 DEF Sent
    <3>3. Fits' => stored' = Due'
      BY <1>5, <2>1, <3>2
    <3>4. WStop'
      BY <1>1, <1>6, <2>4, <3>1, <3>3 DEF WStop
    <3>5. InvWrite' /\ wk'.at # "REST"
      BY <3>1, <3>4 DEF InvWrite
    <3>6. QED  BY <3>5, WriteStored
  <2>5. QED  BY <2>2, <2>3, <2>4
<1>8. CASE Rejected /\ (IF Single THEN Return("ERROR") ELSE Transmit("STOP", wk.left))
  <2>1. Fits => stored' \subseteq Due'
    <3> SUFFICES ASSUME Fits PROVE stored' \subseteq Due'
      OBVIOUS
    <3>1. Sent \in Nat /\ Sent + 1 \in Nat /\ Sent <= call.count /\ Sent + 1 <= call.count
      BY <1>3 DEF Sent
    <3>2. CASE UNCHANGED stored
      BY <1>2, <1>3, <1>5, <3>1, <3>2, StoredLess DEF WData
    <3>3. CASE Programmed
      BY <1>2, <1>3, <1>5, <3>1, <3>3, ProgrammedNext, StoredLess
    <3>4. QED  BY <1>8, <3>2, <3>3 DEF Rejected
  <2>2. CASE Single
    <3>1. wk'.at = "REST" /\ answer' = "ERROR"
      BY <1>8, <2>2, ReturnFacts DEF Return
    <3>2. QED  BY <1>5, <2>1, <3>1 DEF InvWrite, Stored, Answered
  <2>3. CASE ~Single
    <3>1. wk'.at = "WAIT" /\ wk'.step = "STOP" /\ wk'.cmds = <<>> /\ wk'.left = wk.left
      BY <1>1, <1>8, <2>3, TransmitFacts
    <3>2. wk'.left # 0
      BY <1>3, <3>1
    <3>3. WStop'
      BY <1>1, <1>5, <1>6, <2>1, <2>3, <3>1, <3>2 DEF WStop
    <3>4. InvWrite' /\ wk'.at # "REST"
      BY <3>1, <3>3 DEF InvWrite
    <3>5. QED  BY <3>4, WriteStored
  <2>4. QED  BY <2>2, <2>3
<1>9. QED  BY <1>7, <1>8 DEF SendBlock

\* The steps of disk_write
LEMMA WriteActions ==
  ASSUME IInv, DInv, call.op = "write", Driver
  PROVE  ReadByte \/ Test \/ Exchange \/ Erased \/ WriteOpened \/ SendBlock \/ SendStop
<1>1. WErase \/ WCommand \/ WData \/ WStop
  BY DriverFrame DEF DInv, InvWrite
<1>2. ~InitOnly
  BY OnlyInit
<1>3. ~(Polled \/ PowerOff \/ ReadOpened \/ ReadToken \/ TokenTest \/ TakeBlock \/ Stopped \/ Synced
        \/ Registered \/ TakeRegister)
  BY <1>1 DEF WErase, WCommand, WData, WStop, Asking, Polled, PowerOff, ReadOpened, ReadToken, TokenTest,
              TakeBlock, Stopped, Synced, Registered, TakeRegister, Step, At
<1>4. QED  BY <1>2, <1>3 DEF Driver, InitOnly

\* Every step of disk_write stores only what is due.
LEMMA WriteStep ==
  ASSUME IInv, DInv, call.op = "write", Driver
  PROVE  InvWrite' /\ Stored'
<1>1. call' = call /\ wk.at # "REST" /\ InvCall' /\ IsWk(wk)
  BY DriverFrame DEF IInv, InvShape
<1>2. WErase \/ WCommand \/ WData \/ WStop
  BY <1>1 DEF DInv, InvWrite
<1>3. ReadByte \/ Test \/ Exchange \/ Erased \/ WriteOpened \/ SendBlock \/ SendStop
  BY WriteActions
<1>4. CASE ReadByte \/ Test \/ Exchange
  BY <1>1, <1>4, WriteSends, WriteStored
<1>5. CASE Erased
  <2>1. WErase /\ Command("WRITE", <<"CMD25">>, Address(call.sector))
    BY <1>2, <1>5 DEF Erased, Step, At, WErase, WCommand, WData, WStop
  <2>2. /\ wk'.at = "WAIT" /\ wk'.step = "WRITE" /\ wk'.cmds = <<"CMD25">> /\ wk'.left = wk.left
        /\ wk'.arg = Address(call.sector)
    BY <1>1, <2>1, CommandFacts
  <2>3. UNCHANGED <<CardType, call, stored>>
    BY <1>5 DEF Erased, data
  <2>4. WCommand'
    BY <2>1, <2>2, <2>3 DEF WErase, WCommand, Asking, Opened, Address
  <2>5. InvWrite' /\ wk'.at # "REST"
    BY <2>2, <2>4 DEF InvWrite
  <2>6. QED  BY <1>1, <2>5, WriteStored
<1>6. CASE WriteOpened
  <2>1. WCommand /\ wk.at = "REPLIED" /\ UNCHANGED <<card, call, stored, past>>
    BY <1>2, <1>6 DEF WriteOpened, Step, At, WErase, WCommand, WData, WStop, data
  <2>2. CASE wk.r = "ready" /\ Transmit("DATA", wk.left)
    <3>1. wk'.at = "WAIT" /\ wk'.step = "DATA" /\ wk'.cmds = <<>> /\ wk'.left = wk.left
      BY <1>1, <2>2, TransmitFacts
    <3>2. call.count \in Nat \ {0} /\ wk.left = call.count /\ Placed
      BY <2>1, <2>2, MovingFacts DEF DInv, Moving, WCommand, Opened
    <3>3. Placed'
      BY <2>1, <3>1, <3>2 DEF Placed, Fits, Sent, card
    <3>4. Sent' = 0
      BY <2>1, <3>1, <3>2 DEF Sent
    <3>5. stored' = StoredTo(past'.card, call'.sector, 0)
      BY <2>1, NoneMoved DEF WCommand
    <3>6. WData'
      BY <2>1, <3>1, <3>2, <3>3, <3>4, <3>5 DEF WData
    <3>7. InvWrite' /\ wk'.at # "REST"
      BY <3>1, <3>6 DEF InvWrite
    <3>8. QED  BY <1>1, <3>7, WriteStored
  <2>3. CASE Return("ERROR")
    <3>1. wk'.at = "REST" /\ answer' = "ERROR" /\ stored' = {}
      BY <2>1, <2>3, ReturnFacts DEF Return, WCommand
    <3>2. QED  BY <3>1 DEF InvWrite, Stored, Answered
  <2>4. QED  BY <1>6, <2>2, <2>3 DEF WriteOpened
<1>7. CASE SendBlock
  BY <1>1, <1>7, WriteBlock
<1>8. CASE SendStop
  <2>1. WStop /\ UNCHANGED <<call, stored, past>> /\ Return(Written)
    BY <1>2, <1>8 DEF SendStop, At, WErase, WCommand, WData, WStop, Asking, data
  <2>2. wk'.at = "REST" /\ answer' = Written /\ Due' = Due
    BY <2>1, ReturnFacts DEF Return, Due
  <2>3. Written = "OK" => wk.left = 0
    BY DEF Written
  <2>4. QED  BY <2>1, <2>2, <2>3 DEF InvWrite, Stored, WStop, Fits, Answered
<1>9. QED  BY <1>3, <1>4, <1>5, <1>6, <1>7, <1>8

-----------------------------------------------------------------------------
\* disk_read waits and sends commands.
LEMMA ReadSends ==
  ASSUME IInv, DInv, call.op = "read", ReadByte \/ Test \/ Exchange
  PROVE  InvRead' /\ wk'.at # "REST"
<1>1. IsWk(wk) /\ InvCall
  BY DEF IInv, InvShape, DInv
<1>2. wk.at # "REST"
  BY DEF ReadByte, Test, Exchange, At
<1>3. RCommand \/ RStop
  <2>1. wk.at \in Asking
    BY DEF ReadByte, Test, Exchange, At, Asking
  <2>2. QED  BY <1>2, <2>1 DEF DInv, InvRead, RBlocks, Asking
<1>4. wk.cmds # <<>> /\ ~(Len(wk.cmds) > 1)
  BY <1>3, OneHead DEF RCommand, RStop
<1>5. CASE ReadByte \/ Test
  <2>1. /\ wk'.step = wk.step /\ wk'.cmds = wk.cmds /\ wk'.arg = wk.arg /\ wk'.left = wk.left
        /\ UNCHANGED <<slot, cd, CardType, call, buffer, past>>
        /\ \/ wk'.at \in {"WAIT", "TEST"}
           \/ wk'.at \in {"SEND", "REPLIED"} /\ (wk'.at = "REPLIED" => wk'.r = "error")
    BY <1>1, <1>4, <1>5, ReadByteFacts, TestFacts
  <2>2. ~Opened' /\ wk'.at \in Asking
    BY <2>1 DEF Opened, Asking
  <2>3. Address(call.sector)' = Address(call.sector) /\ (Brought => Brought')
    BY <2>1 DEF Address, Brought, Fits, Sent
  <2>4. RCommand => RCommand'
    BY <2>1, <2>2, <2>3 DEF RCommand
  <2>5. RStop => RStop'
    BY <2>1, <2>2, <2>3 DEF RStop
  <2>6. QED  BY <1>3, <2>1, <2>4, <2>5 DEF InvRead
<1>6. CASE Exchange
  <2>1. /\ wk.at = "SEND" /\ wk'.step = wk.step /\ wk'.arg = wk.arg /\ wk'.left = wk.left
        /\ UNCHANGED <<slot, CardType, call, buffer, past>>
    BY <1>1, <1>6, ExchangeFacts
  <2>2. PICK a \in Answers(Head(wk.cmds), wk.arg) :
          cd' = a.cd /\ wk'.at = "REPLIED" /\ wk'.cmds = wk.cmds /\ wk'.r = a.r
    BY <1>1, <1>4, <1>6, ExchangeFacts
  <2>3. Address(call.sector)' = Address(call.sector) /\ (Brought => Brought')
    BY <2>1 DEF Address, Brought, Fits, Sent
  <2>4. CASE RCommand
    <3>1. Opened' => Placed'
      BY <1>2, <2>1, <2>2, <2>4, OpenedPlaced DEF Moving, RCommand, Opened
    <3>2. Opened' => ReadsOnly'
      <4>1. Head(wk.cmds) \in {"CMD17", "CMD18"}
        BY <2>4, OneHead DEF RCommand
      <4>2. a.r = "ready" => a.cd.op \in {"none", Starts(Head(wk.cmds))}
        BY AnswersRun DEF IInv, InvShape, InvEmpty, DInv, InvSame
      <4>3. QED  BY <2>2, <4>1, <4>2 DEF Opened, ReadsOnly, Starts
    <3>3. RCommand'
      BY <2>1, <2>2, <2>3, <2>4, <3>1, <3>2 DEF RCommand, Asking
    <3>4. QED  BY <2>2, <3>3 DEF InvRead
  <2>5. CASE RStop
    <3>1. RStop'
      BY <2>1, <2>2, <2>3, <2>5 DEF RStop, Asking
    <3>2. QED  BY <2>2, <3>1 DEF InvRead
  <2>6. QED  BY <1>3, <2>4, <2>5
<1>7. QED  BY <1>5, <1>6

\* The block that is next is brought, or the card was pulled within it; the card
\* goes on to the next.
LEMMA BroughtMore ==
  ASSUME IInv, DInv, call.op = "read", RBlocks, TakeBlock, past'.card = past.card
  PROVE  /\ Fits /\ ~past'.torn => buffer' = BroughtTo(past.card, call.sector, Sent + 1)
         /\ Fits /\ cd'.op # "none" => cd'.addr = Unit(past.card, call.sector, Sent + 1)
<1>1. call.sector \in Nat /\ call.count \in Nat \ {0} /\ wk.left \in 1 .. call.count /\ Sent \in Nat
  BY MovingFacts DEF DInv, Moving, RBlocks, Sent
<1>2. IsCd(cd) /\ IsPast(past)
  BY DEF IInv, InvShape, DInv, InvCall
<1>3. CASE /\ Reading /\ cd.token = "data" /\ cd' = Next1("read")
           /\ buffer' = Append(buffer, <<slot, Block(cd.addr)>>) /\ UNCHANGED <<slot, past>>
  <2> SUFFICES ASSUME Fits
               PROVE  /\ ~past'.torn => buffer' = BroughtTo(past.card, call.sector, Sent + 1)
                      /\ cd'.op # "none" => cd'.addr = Unit(past.card, call.sector, Sent + 1)
    OBVIOUS
  <2>1. slot = past.card /\ cd.addr = Unit(past.card, call.sector, Sent)
    BY <1>3 DEF Reading, Sending, DInv, InvSame, RBlocks, Placed
  <2>2. Block(cd.addr) = call.sector + Sent
    <3>1. /\ Kind[past.card] = "SDHC" => Unit(past.card, call.sector, Sent) = call.sector + Sent
          /\ Kind[past.card] # "SDHC" => Unit(past.card, call.sector, Sent) \div BlockLen = call.sector + Sent
      BY <1>1, UnitBlock
    <3>2. QED  BY <2>1, <3>1 DEF Block
  <2>3. ~past'.torn => buffer' = BroughtTo(past.card, call.sector, Sent + 1)
    <3>1. ~past'.torn => buffer = BroughtTo(past.card, call.sector, Sent)
      BY <1>3 DEF RBlocks, Brought
    <3>2. BroughtTo(past.card, call.sector, Sent + 1)
            = Append(BroughtTo(past.card, call.sector, Sent), <<past.card, call.sector + Sent>>)
      BY <1>1, BroughtNext
    <3>3. QED  BY <1>3, <2>1, <2>2, <3>1, <3>2
  <2>4. cd'.op # "none" => cd'.addr = Further
    BY <1>2, <1>3 DEF Next1, IsCd, CdFields
  <2>5. Further = Unit(past.card, call.sector, Sent + 1)
    <3>1. Unit(past.card, call.sector, Sent + 1)
            = IF Kind[past.card] = "SDHC" THEN Unit(past.card, call.sector, Sent) + 1
                                           ELSE Unit(past.card, call.sector, Sent) + BlockLen
      BY <1>1, UnitNext
    <3>2. QED  BY <2>1, <3>1 DEF Further
  <2>6. QED  BY <2>3, <2>4, <2>5
<1>4. CASE cd' = Asleep /\ past' = [past EXCEPT !.sound = FALSE, !.torn = TRUE]
  <2>1. past'.torn
    BY <1>2, <1>4 DEF IsPast, PastFields
  <2>2. QED  BY <1>4, <2>1 DEF Asleep
<1>5. CASE ~Reading /\ past' = [past EXCEPT !.torn = TRUE] /\ UNCHANGED <<slot, cd>>
  <2>1. past'.torn
    BY <1>2, <1>5 DEF IsPast, PastFields
  <2>2. cd.op = "none"
    <3>1. cd.op # "none" => slot # NoCard
      BY DEF IInv, InvEmpty, DInv, InvSame
    <3>2. QED  BY <1>5, <3>1 DEF Reading, Sending, RBlocks, ReadsOnly
  <2>3. QED  BY <1>5, <2>1, <2>2
<1>6. QED  BY <1>3, <1>4, <1>5 DEF TakeBlock

\* A block is taken.
LEMMA ReadBlock ==
  ASSUME IInv, DInv, call.op = "read", TakeBlock, InvCall'
  PROVE  InvRead' /\ Delivers'
<1>1. IsWk(wk) /\ wk.at = "BLOCK" /\ call' = call
  BY DEF IInv, InvShape, TakeBlock, At
<1>2. RBlocks
  BY <1>1 DEF DInv, InvRead, RCommand, RStop, Asking
<1>3. call.sector \in Nat /\ call.count \in Nat \ {0} /\ wk.left \in 1 .. call.count
  BY <1>2, MovingFacts DEF DInv, Moving, RBlocks
<1>4. past'.card = past.card
  BY PastFacts DEF DInv, InvCall, Driver
<1>5. /\ Fits /\ ~past'.torn => buffer' = BroughtTo(past.card, call.sector, Sent + 1)
      /\ Fits /\ cd'.op # "none" => cd'.addr = Unit(past.card, call.sector, Sent + 1)
  BY <1>2, <1>4, BroughtMore
<1>6. (Single <=> call.count = 1) /\ (Fits' <=> Fits)
  BY <1>1, <1>4 DEF Single, Fits
<1>7. ReadsOnly'
  <2>1. cd'.op \in {cd.op, "none"}
    BY BlockCard DEF IInv, InvShape
  <2>2. QED  BY <1>2, <2>1 DEF RBlocks, ReadsOnly
<1>8. CASE Single
  <2>1. wk'.at = "REST"
    BY <1>8, ReturnFacts DEF TakeBlock
  <2>2. Sent + 1 = call.count
    BY <1>3, <1>6, <1>8 DEF Sent
  <2>3. Delivers'
    BY <1>1, <1>4, <1>5, <1>6, <2>2 DEF Delivers, BroughtTo
  <2>4. QED  BY <2>1, <2>3 DEF InvRead
<1>9. CASE ~Single /\ wk.left > 1
  <2> DEFINE w == [wk EXCEPT !.left = @ - 1]
  <2>1. IsWk(w) /\ w.step = wk.step /\ w.left = wk.left - 1
    BY <1>1 DEF IsWk, WkFields
  <2>2. Receive(w)
    BY <1>9 DEF TakeBlock
  <2> HIDE DEF w
  <2>3. wk'.at = "TOKEN" /\ wk'.step = wk.step /\ wk'.left = wk.left - 1
    BY <2>1, <2>2, ReceiveFacts
  <2>4. Sent' = Sent + 1 /\ wk'.left \in 1 .. call.count
    BY <1>1, <1>3, <1>9, <2>3 DEF Sent
  <2>5. Placed' /\ Brought'
    BY <1>1, <1>4, <1>5, <1>6, <2>4 DEF Placed, Brought
  <2>6. RBlocks'
    BY <1>1, <1>2, <1>7, <2>3, <2>4, <2>5 DEF RBlocks
  <2>7. QED  BY <2>3, <2>6 DEF InvRead, Delivers, Answered, At
<1>10. CASE ~Single /\ ~(wk.left > 1)
  <2> DEFINE w == [Packet("STOPPED", <<"CMD12">>, 0) EXCEPT !.left = 0]
  <2>1. IsWk(w) /\ w.step = "STOPPED" /\ w.cmds = <<"CMD12">> /\ w.left = 0
    BY <1>1 DEF IsWk, WkFields, Packet
  <2>2. Wait(w)
    BY <1>10 DEF TakeBlock
  <2> HIDE DEF w
  <2>3. wk'.at = "WAIT" /\ wk'.step = "STOPPED" /\ wk'.cmds = <<"CMD12">> /\ wk'.left = 0
    BY <2>1, <2>2, WaitFacts
  <2>4. Sent' = Sent + 1 /\ wk'.left \in 0 .. call.count
    BY <1>1, <1>3, <1>10, <2>3 DEF Sent
  <2>5. Brought'
    BY <1>1, <1>4, <1>5, <1>6, <2>4 DEF Brought
  <2>6. RStop'
    BY <1>1, <1>6, <1>10, <2>3, <2>4, <2>5 DEF RStop, Asking
  <2>7. QED  BY <2>3, <2>6 DEF InvRead, Delivers, Answered, At
<1>11. QED  BY <1>8, <1>9, <1>10

\* The steps of disk_read
LEMMA ReadActions ==
  ASSUME IInv, DInv, call.op = "read", Driver
  PROVE  ReadByte \/ Test \/ Exchange \/ ReadOpened \/ ReadToken \/ TokenTest \/ TakeBlock \/ Stopped
<1>1. RCommand \/ RBlocks \/ RStop
  BY DriverFrame DEF DInv, InvRead
<1>2. ~InitOnly
  BY OnlyInit
<1>3. ~(Polled \/ PowerOff \/ Erased \/ WriteOpened \/ SendBlock \/ SendStop \/ Synced
        \/ Registered \/ TakeRegister)
  BY <1>1 DEF RCommand, RBlocks, RStop, Asking, Polled, PowerOff, Erased, WriteOpened, SendBlock,
              SendStop, Synced, Registered, TakeRegister, Step, At
<1>4. QED  BY <1>2, <1>3 DEF Driver, InitOnly

\* Every step of disk_read brings what is next.
LEMMA ReadStep ==
  ASSUME IInv, DInv, call.op = "read", Driver
  PROVE  InvRead' /\ Delivers'
<1>1. call' = call /\ wk.at # "REST" /\ InvCall' /\ IsWk(wk)
  BY DriverFrame DEF IInv, InvShape
<1>2. RCommand \/ RBlocks \/ RStop
  BY <1>1 DEF DInv, InvRead
<1>3. ReadByte \/ Test \/ Exchange \/ ReadOpened \/ ReadToken \/ TokenTest \/ TakeBlock \/ Stopped
  BY ReadActions
<1>4. ASSUME wk'.at # "REST" PROVE Delivers'
  BY <1>4 DEF Delivers, Answered, At
<1>5. CASE ReadByte \/ Test \/ Exchange
  BY <1>4, <1>5, ReadSends
<1>6. CASE ReadOpened
  <2>1. RCommand /\ wk.at = "REPLIED" /\ UNCHANGED <<card, call, buffer, past>>
    BY <1>2, <1>6 DEF ReadOpened, Step, At, RCommand, RBlocks, RStop, data
  <2>2. CASE wk.r = "ready" /\ Receive(wk)
    <3>1. wk'.at = "TOKEN" /\ wk'.step = wk.step /\ wk'.left = wk.left
      BY <1>1, <2>2, ReceiveFacts
    <3>2. call.count \in Nat \ {0} /\ wk.left = call.count /\ Placed /\ ReadsOnly
      BY <2>1, <2>2, MovingFacts DEF DInv, Moving, RCommand, Opened
    <3>3. Placed' /\ ReadsOnly'
      BY <2>1, <3>1, <3>2 DEF Placed, Fits, Sent, card, ReadsOnly
    <3>4. Sent' = 0
      BY <2>1, <3>1, <3>2 DEF Sent
    <3>5. Brought'
      BY <2>1, <3>4, NoneMoved DEF Brought, RCommand
    <3>6. RBlocks'
      BY <2>1, <3>1, <3>2, <3>3, <3>5 DEF RBlocks, RCommand
    <3>7. QED  BY <1>4, <3>1, <3>6 DEF InvRead
  <2>3. CASE Return("ERROR")
    <3>1. wk'.at = "REST" /\ answer' = "ERROR"
      BY <2>3, ReturnFacts DEF Return
    <3>2. QED  BY <3>1 DEF InvRead, Delivers, Answered
  <2>4. QED  BY <1>6, <2>2, <2>3 DEF ReadOpened
<1>7. CASE ReadToken \/ TokenTest
  <2>1. RBlocks /\ UNCHANGED <<card, call, buffer, past>>
    BY <1>2, <1>7 DEF ReadToken, TokenTest, At, RCommand, RStop, Asking, data
  <2>2. \/ \E r : wk' = [wk EXCEPT !.at = "TOKENTEST", !.r = r]
        \/ \E p \in {"BLOCK", "TOKEN"} : wk' = [wk EXCEPT !.at = p]
        \/ NoBlock
    BY <1>7 DEF ReadToken, TokenTest
  <2>3. ASSUME wk'.at \in {"TOKEN", "TOKENTEST", "BLOCK"}, wk'.step = wk.step, wk'.left = wk.left
        PROVE  InvRead' /\ Delivers'
    <3>1. Placed' /\ ReadsOnly' /\ Brought'
      BY <2>1, <2>3 DEF RBlocks, Placed, ReadsOnly, Brought, Fits, Sent, card
    <3>2. RBlocks'
      BY <2>1, <2>3, <3>1 DEF RBlocks
    <3>3. QED  BY <1>4, <2>3, <3>2 DEF InvRead
  <2>4. ASSUME NEW r, wk' = [wk EXCEPT !.at = "TOKENTEST", !.r = r]
        PROVE  InvRead' /\ Delivers'
    <3>1. wk'.at = "TOKENTEST" /\ wk'.step = wk.step /\ wk'.left = wk.left
      BY <1>1, <2>4 DEF IsWk, WkFields
    <3>2. QED  BY <2>3, <3>1
  <2>5. ASSUME NEW p \in {"BLOCK", "TOKEN"}, wk' = [wk EXCEPT !.at = p]
        PROVE  InvRead' /\ Delivers'
    <3>1. wk'.at = p /\ wk'.step = wk.step /\ wk'.left = wk.left
      BY <1>1, <2>5 DEF IsWk, WkFields
    <3>2. QED  BY <2>3, <3>1
  <2>6. CASE Single /\ Return("ERROR")
    <3>1. wk'.at = "REST" /\ answer' = "ERROR"
      BY <2>6, ReturnFacts DEF Return
    <3>2. QED  BY <3>1 DEF InvRead, Delivers, Answered
  <2>7. CASE ~Single /\ Command("STOPPED", <<"CMD12">>, 0)
    <3>1. wk'.at = "WAIT" /\ wk'.step = "STOPPED" /\ wk'.cmds = <<"CMD12">> /\ wk'.left = wk.left
      BY <1>1, <2>7, CommandFacts
    <3>2. wk.left \in 1 .. call.count /\ call.count \in Nat \ {0}
      BY <2>1, MovingFacts DEF DInv, Moving, RBlocks
    <3>3. wk'.left \in 0 .. call.count /\ wk'.left # 0 /\ call.count # 1
      BY <2>7, <3>1, <3>2 DEF Single
    <3>4. RStop'
      BY <2>1, <3>1, <3>3 DEF RStop, Asking
    <3>5. QED  BY <1>4, <3>1, <3>4 DEF InvRead
  <2>8. QED  BY <2>2, <2>4, <2>5, <2>6, <2>7 DEF NoBlock
<1>8. CASE TakeBlock
  BY <1>1, <1>8, ReadBlock
<1>9. CASE Stopped
  <2>1. RStop /\ UNCHANGED <<call, buffer, past>> /\ Return(IF wk.left = 0 THEN "OK" ELSE "ERROR")
    BY <1>2, <1>9 DEF Stopped, Step, At, RCommand, RBlocks, RStop, data
  <2>2. wk'.at = "REST" /\ (answer' = "OK" => wk.left = 0)
    BY <2>1, ReturnFacts DEF Return
  <2>3. call.count \in Nat \ {0}
    BY MovingFacts DEF DInv, Moving
  <2>4. wk.left = 0 => Sent = call.count
    BY <2>3 DEF Sent
  <2>5. Delivers'
    BY <2>1, <2>2, <2>4 DEF Delivers, Answered, RStop, Brought, BroughtTo, Fits
  <2>6. QED  BY <2>2, <2>5 DEF InvRead
<1>10. QED  BY <1>3, <1>5, <1>6, <1>7, <1>8, <1>9

-----------------------------------------------------------------------------
\* Nothing was asked for at first.
LEMMA InitDInv == Init => DInv
<1> SUFFICES ASSUME Init PROVE DInv
  OBVIOUS
<1>1. call.op = "none" /\ past.card = NoCard /\ IsPast(past) /\ cd.op = "none" /\ cd.mode = "native"
  BY DEF Init, IsPast, PastFields, Asleep
<1>2. CardType = 0
  BY DEF Init
<1>3. QED
  BY <1>1, <1>2 DEF DInv, InvSame, InvCall, Moving, InvWrite, InvRead, Stored, Delivers, Answered

\* Every step keeps what is said of the blocks.
LEMMA NextDInv ==
  ASSUME IInv, DInv, [Next]_vars
  PROVE  DInv'
<1>1. CASE Driver
  <2>1. call' = call /\ InvSame' /\ InvCall'
    BY <1>1, DriverFrame
  <2>2. InvWrite' /\ Stored'
    <3>1. CASE call.op = "write"
      BY <1>1, <3>1, WriteStep
    <3>2. CASE call.op # "write"
      BY <2>1, <3>2 DEF InvWrite, Stored
    <3>3. QED  BY <3>1, <3>2
  <2>3. InvRead' /\ Delivers'
    <3>1. CASE call.op = "read"
      BY <1>1, <3>1, ReadStep
    <3>2. CASE call.op # "read"
      BY <2>1, <3>2 DEF InvRead, Delivers, Answered
    <3>3. QED  BY <3>1, <3>2
  <2>4. QED  BY <2>1, <2>2, <2>3 DEF DInv
<1>2. CASE Poll \/ Initialize \/ Transfer \/ Ioctl
  BY <1>2, BeginData
<1>3. CASE Outside \/ UNCHANGED vars
  BY <1>3, OutsideData
<1>4. QED  BY <1>1, <1>2, <1>3 DEF Next, Outside

\* disk_write stores blocks only where they belong, in the card that was in the
\* slot when it was called, and all of them if it answers OK.
THEOREM StoredCorrect == Spec => []Stored
<1>1. DInv => Stored
  BY DEF DInv
<1>2. QED  BY <1>1, InitIInv, NextIInv, InitDInv, NextDInv, PTL DEF Spec

\* disk_read that answers OK brings the blocks asked for, of that card, unless it
\* was pulled within a block.
THEOREM DeliversCorrect == Spec => []Delivers
<1>1. DInv => Delivers
  BY DEF DInv
<1>2. QED  BY <1>1, InitIInv, NextIInv, InitDInv, NextDInv, PTL DEF Spec

-----------------------------------------------------------------------------
(***************************************************************************)
(* A card that works.  That it listens to what is sent to it (Heard) and   *)
(* is served (Serves) needs the timers: such a card is ready before the    *)
(* driver gives up, so that what was started is stopped; the loops of      *)
(* disk_initialize and rcvr_datablock leave it the time it takes; and the  *)
(* block that it is asked for is one that it has.                          *)
(***************************************************************************)

\* What can run in a card
Ops == {"none", "read", "reads", "write", "writes", "register"}
IsTimer(t) == t = [i \in 1 .. 2 |-> t[i]]
InvClock == IsTimer(timer) /\ cd.op \in Ops

\* What disk_poll and disk_ioctl send, and where
Questions == {<<"CMD9">>, <<"CMD10">>, <<"CMD58">>, <<"CMD13">>, <<"CMD55", "CMD13">>}
ALock ==
  /\ wk.step \in {"OFF", "SYNC"} /\ wk.at \in {"WAIT", "TEST", "OFF", "SYNC"} /\ wk.cmds = <<>>
ARegister ==
  /\ wk.step = "REGISTER" /\ wk.at \in Asking \union {"TOKEN", "TOKENTEST", "BLOCK"}
  /\ wk.cmds \in Questions
APoll == wk.step = "POLL" /\ wk.at \in Asking /\ wk.cmds = <<"CMD58">>
InvAsk ==
  /\ call.op \in {"none", "init", "poll", "read", "write", "ioctl"}
  /\ call.op = "none" => wk.at = "REST"
  /\ call.op = "poll" /\ wk.at # "REST" => APoll
  /\ call.op = "ioctl" /\ wk.at # "REST" => ALock \/ ARegister
AInv == InvClock /\ InvAsk

\* What disk_ioctl asks for
LEMMA QuestionAsked ==
  ASSUME NEW ctrl \in Controls \ {"POWER_OFF", "CTRL_SYNC", "GET_SECTOR_SIZE", "MMC_GET_TYPE"}
  PROVE  Question(ctrl) \in Questions
<1>1. \/ Question(ctrl) = <<"CMD9">>
      \/ Question(ctrl) = <<"CMD10">>
      \/ Question(ctrl) = <<"CMD58">>
      \/ Question(ctrl) = <<"CMD55", "CMD13">>
  BY DEF Question, Controls
<1>2. QED  BY <1>1, Zenon DEF Questions
\* One command after the other
LEMMA QuestionHeads ==
  ASSUME NEW cs \in Questions
  PROVE  /\ Head(cs) \in {"CMD9", "CMD10", "CMD58", "CMD13", "CMD55"} /\ cs # <<>>
         /\ Len(cs) > 1 => Head(cs) = "CMD55" /\ Tail(cs) \in Questions
<1>1. ASSUME NEW x \in {"CMD9", "CMD10", "CMD58", "CMD13"}, cs = <<x>>
      PROVE  Head(cs) = x /\ ~(Len(cs) > 1) /\ cs # <<>>
  BY <1>1, OneHead
<1>2. CASE cs = <<"CMD55", "CMD13">>
  <2>1. Head(cs) = "CMD55" /\ Tail(cs) = <<"CMD13">> /\ cs # <<>>
    BY <1>2, TwoHeads
  <2>2. QED  BY <2>1 DEF Questions
<1>3. QED  BY <1>1, <1>2, Zenon DEF Questions

\* Setting a timer
LEMMA SetFacts ==
  ASSUME IsTimer(timer), NEW n
  PROVE  /\ timer' = [timer EXCEPT ![1] = n] => IsTimer(timer') /\ timer'[2] = timer[2]
         /\ timer' = [timer EXCEPT ![2] = n] => IsTimer(timer') /\ timer'[2] = n
         /\ UNCHANGED timer => IsTimer(timer')
  BY DEF IsTimer

\* Where a step of the driver that does not belong to send_cmd leads, and how
\* much time is left there
Landed ==
  /\ IsTimer(timer')
  /\ \/ wk'.at \in {"REST", "TOKEN", "TOKENTEST", "BLOCK"}
     \/ wk'.at = "WAIT" /\ timer'[2] = WaitTime
\* All the other steps of the driver lead there.
LEMMA PlaceAfter ==
  ASSUME IsWk(wk), IsTimer(timer), Driver, ~(ReadByte \/ Test \/ Exchange)
  PROVE  Landed
<1>1. ASSUME NEW a, Return(a) PROVE Landed
  <2>1. timer' = <<0, 0>> /\ wk'.at = "REST"
    BY <1>1, ReturnFacts DEF Return
  <2>2. QED  BY <2>1 DEF IsTimer, Landed
<1>2. ASSUME NEW w, IsWk(w), Wait(w) PROVE Landed
  <2>1. wk'.at = "WAIT" /\ timer' = [timer EXCEPT ![2] = WaitTime]
    BY <1>2, WaitFacts DEF Wait, Set
  <2>2. QED  BY <2>1, SetFacts DEF Landed
<1>3. ASSUME NEW s, NEW cs, NEW n, Command(s, cs, n) PROVE Landed
  BY <1>2, <1>3, PacketFacts DEF Command
<1>4. ASSUME NEW s, NEW n, Transmit(s, n) PROVE Landed
  <2>1. Wait([wk EXCEPT !.step = s, !.cmds = <<>>, !.left = n])
    BY <1>4 DEF Transmit
  <2>2. IsWk([wk EXCEPT !.step = s, !.cmds = <<>>, !.left = n])
    BY DEF IsWk, WkFields
  <2>3. QED  BY <1>2, <2>1, <2>2
<1>5. ASSUME NEW w, IsWk(w), Receive(w) PROVE Landed
  <2>1. wk'.at = "TOKEN" /\ timer' = [timer EXCEPT ![1] = TokenTime]
    BY <1>5, ReceiveFacts DEF Receive, Set
  <2>2. QED  BY <2>1, SetFacts DEF Landed
<1>6. ASSUME NEW s, NEW cs, NEW n, NEW ty,
             wk' = Packet(s, cs, n) \/ wk' = [Packet(s, cs, n) EXCEPT !.ty = ty],
             timer' = [timer EXCEPT ![2] = WaitTime] \/ timer' = <<InitTime, WaitTime>>
      PROVE  Landed
  <2>1. wk'.at = "WAIT"
    <3>1. IsWk(Packet(s, cs, n)) /\ Packet(s, cs, n).at = "WAIT"
      BY PacketFacts
    <3>2. [Packet(s, cs, n) EXCEPT !.ty = ty].at = "WAIT"
      BY <3>1 DEF IsWk, WkFields
    <3>3. QED  BY <1>6, <3>1, <3>2
  <2>2. CASE timer' = <<InitTime, WaitTime>>
    BY <2>1, <2>2 DEF IsTimer, Landed
  <2>3. CASE timer' = [timer EXCEPT ![2] = WaitTime]
    BY <2>1, <2>3, SetFacts DEF Landed
  <2>4. QED  BY <1>6, <2>2, <2>3
<1>7. ASSUME NEW ty, Finish(ty) PROVE Landed
  <2>1. IsWk([Resting EXCEPT !.step = "OFF"])
    BY RestingFacts
  <2>2. QED  BY <1>1, <1>2, <1>7, <2>1 DEF Finish
<1>8. CASE GoIdle \/ IfCond \/ OpCond \/ Ocr \/ Sdc \/ Leave \/ SetBlockLen
  <2>1. \/ \E ty : Finish(ty)
        \/ \E s, cs, n : Go(s, cs, n)
        \/ \E s, cs, n : Retry(s, cs, n)
        \/ \E ty : LeaveIdle(ty)
        \/ wk' = Packet("IF_COND", <<"CMD8">>, 0) /\ timer' = <<InitTime, WaitTime>>
    BY <1>8 DEF GoIdle, IfCond, OpCond, Ocr, Sdc, Leave, SetBlockLen
  <2>2. ASSUME NEW ty, LeaveIdle(ty) PROVE Landed
    BY <1>6, <1>7, <2>2 DEF LeaveIdle
  <2>3. ASSUME NEW s, NEW cs, NEW n, Go(s, cs, n) \/ Retry(s, cs, n) PROVE Landed
    BY <1>3, <1>6, <2>3 DEF Go, Retry
  <2>4. QED  BY <1>6, <1>7, <2>1, <2>2, <2>3
<1>9. CASE Polled \/ PowerOff \/ Stopped \/ SendStop \/ Synced \/ TakeRegister \/ Erased \/ WriteOpened
           \/ ReadOpened \/ Registered \/ SendBlock
  <2>1. \/ \E a : Return(a)
        \/ \E st, cs, n : Command(st, cs, n)
        \/ \E st, n : Transmit(st, n)
        \/ Receive(wk)
    BY <1>9 DEF Polled, PowerOff, Stopped, SendStop, Synced, TakeRegister, Erased,
       WriteOpened, ReadOpened, Registered, SendBlock
  <2>2. QED  BY <1>1, <1>3, <1>4, <1>5, <2>1
<1>10. CASE ReadToken
  <2>1. wk'.at = "TOKENTEST" /\ timer' = timer
    BY <1>10 DEF ReadToken, IsWk, WkFields
  <2>2. QED  BY <2>1, SetFacts DEF Landed
<1>11. CASE TokenTest
  <2>1. \/ \E p \in {"BLOCK", "TOKEN"} : wk' = [wk EXCEPT !.at = p] /\ timer' = timer
        \/ NoBlock
    BY <1>11 DEF TokenTest
  <2>2. ASSUME NEW p \in {"BLOCK", "TOKEN"}, wk' = [wk EXCEPT !.at = p], timer' = timer PROVE Landed
    <3>1. wk'.at = p
      BY <2>2 DEF IsWk, WkFields
    <3>2. QED  BY <2>2, <3>1, SetFacts DEF Landed
  <2>3. QED  BY <1>1, <1>3, <2>1, <2>2 DEF NoBlock
<1>12. CASE TakeBlock
  <2>1. /\ IsWk([wk EXCEPT !.left = @ - 1])
        /\ IsWk([Packet("STOPPED", <<"CMD12">>, 0) EXCEPT !.left = 0])
    BY DEF IsWk, WkFields, Packet
  <2>2. \/ \E a : Return(a)
        \/ Receive([wk EXCEPT !.left = @ - 1])
        \/ Wait([Packet("STOPPED", <<"CMD12">>, 0) EXCEPT !.left = 0])
    BY <1>12 DEF TakeBlock
  <2>3. QED  BY <1>1, <1>2, <1>5, <2>1, <2>2
<1>13. QED  BY <1>8, <1>9, <1>10, <1>11, <1>12 DEF Driver

\* Which calls send what starts a transfer
LEMMA Senders ==
  ASSUME IInv, DInv, InvAsk, wk.at = "SEND", NEW cmd, cmd = Head(wk.cmds),
         cmd \in {"CMD17", "CMD18", "CMD24", "CMD25", "CMD12"}
  PROVE  /\ ~(Len(wk.cmds) > 1)
         /\ cmd = "CMD18" => call.op = "read" /\ call.count # 1 /\ wk.step = "READ"
         /\ cmd = "CMD24" => call.op = "write" /\ wk.step = "WRITE"
         /\ cmd = "CMD25" => call.op = "write" /\ call.count # 1 /\ wk.step = "WRITE"
<1>1. CASE call.op = "init"
  <2>1. wk.cmds \in Opens \union {<<"CMD0">>, <<"CMD8">>, <<"CMD58">>, <<"CMD1">>, <<"CMD16">>}
    BY <1>1 DEF IInv, InvInit, Sends, Sendable
  <2>2. Head(wk.cmds) \in {"CMD55", "CMD41", "CMD0", "CMD8", "CMD58", "CMD1", "CMD16"}
    BY <2>1, OpensHeads, OneHead
  <2>3. QED  BY <2>2
<1>2. CASE call.op = "poll"
  BY <1>2, OneHead DEF InvAsk, APoll
<1>3. CASE call.op = "ioctl"
  BY <1>3, QuestionHeads DEF InvAsk, ALock, ARegister, Asking
<1>4. CASE call.op = "read"
  BY <1>4, OneHead DEF DInv, InvRead, RCommand, RBlocks, RStop
<1>5. CASE call.op = "write"
  <2>1. WErase \/ WCommand
    BY <1>5 DEF DInv, InvWrite, WData, WStop
  <2>2. WErase => cmd \in {"CMD55", "CMD23"}
    BY OneHead, TwoHeads DEF WErase
  <2>3. QED  BY <1>5, <2>1, <2>2, OneHead DEF WCommand
<1>6. QED  BY <1>1, <1>2, <1>3, <1>4, <1>5 DEF InvAsk

\* What runs in the card at the next step of the driver
LEMMA OpAfter ==
  ASSUME IInv, DInv, Driver, cd.op \in Ops
  PROVE  cd'.op \in Ops /\ (~Exchange => cd'.op \in {cd.op, "none"})
<1>1. IsCd(cd) /\ IsWk(wk) /\ (slot = NoCard => cd.mode = "native") /\ (cd.op # "none" => cd.mode = "ready")
  BY DEF IInv, DInv, InvShape, InvEmpty, InvSame
<1>2. CASE Exchange
  <2>1. PICK a \in Answers(Head(wk.cmds), wk.arg) : cd' = a.cd
    BY <1>1, <1>2, ExchangeFacts
  <2>2. QED  BY <1>1, <1>2, <2>1, AnswersRun DEF Ops, Starting, Starts
<1>3. CASE TakeBlock \/ SendBlock \/ SendStop
  BY <1>1, <1>3, BlockCard DEF Ops
<1>4. CASE ~(Exchange \/ TakeBlock \/ SendBlock \/ SendStop)
  BY <1>4 DEF Driver, ReadByte, Test, Polled, GoIdle, IfCond, OpCond, Ocr, Sdc, Leave, SetBlockLen,
     PowerOff, ReadOpened, ReadToken, TokenTest, Stopped, Erased, WriteOpened,
     Synced, Registered, TakeRegister, card
<1>5. QED  BY <1>2, <1>3, <1>4

\* disk_poll and disk_ioctl go on.
LEMMA AskStep ==
  ASSUME IInv, DInv, AInv, call.op \in {"poll", "ioctl"}, Driver
  PROVE  InvAsk'
<1>1. call' = call /\ wk.at # "REST" /\ IsWk(wk)
  BY DriverFrame DEF IInv, InvShape
<1>2. IF call.op = "poll" THEN APoll ELSE ALock \/ ARegister
  BY <1>1 DEF AInv, InvAsk
<1> SUFFICES ASSUME wk'.at # "REST"
             PROVE  IF call.op = "poll" THEN APoll' ELSE ALock' \/ ARegister'
  BY <1>1 DEF InvAsk
<1>3. ReadByte \/ Test \/ Exchange \/ Registered \/ ReadToken \/ TokenTest
  <2>1. ~InitOnly
    BY OnlyInit
  <2>2. ~(ReadOpened \/ Stopped \/ Erased \/ WriteOpened \/ SendBlock \/ SendStop \/ TakeBlock)
    BY <1>2 DEF APoll, ALock, ARegister, Asking, ReadOpened, Stopped, Erased, WriteOpened, SendBlock, SendStop,
                TakeBlock, Step, At
  <2>3. ~(Polled \/ PowerOff \/ Synced \/ TakeRegister)
    BY ReturnFacts DEF Polled, PowerOff, Synced, TakeRegister
  <2>4. QED  BY <2>1, <2>2, <2>3 DEF Driver, InitOnly
<1>4. CASE ReadByte \/ Test
  <2>1. /\ wk'.step = wk.step /\ wk'.cmds = wk.cmds /\ wk.at \in {"WAIT", "TEST"}
        /\ \/ wk'.at \in {"WAIT", "TEST"}
           \/ wk'.at \in {"SEND", "REPLIED"} /\ wk.cmds # <<>>
           \/ wk'.at = wk.step /\ wk.cmds = <<>>
    BY <1>1, <1>4, ReadByteFacts, TestFacts
  <2>2. APoll \/ ARegister => wk.cmds # <<>>
    BY OneHead, QuestionHeads DEF APoll, ARegister
  <2>3. APoll => APoll'
    BY <2>1, <2>2 DEF APoll, Asking
  <2>4. ARegister => ARegister'
    BY <2>1, <2>2 DEF ARegister, Asking
  <2>5. ALock => ALock'
    BY <2>1 DEF ALock
  <2>6. QED  BY <1>2, <2>3, <2>4, <2>5
<1>5. CASE Exchange
  <2>1. /\ wk.at = "SEND" /\ wk'.step = wk.step
        /\ \/ Len(wk.cmds) > 1 /\ wk'.at = "WAIT" /\ wk'.cmds = Tail(wk.cmds)
           \/ wk'.at = "REPLIED" /\ wk'.cmds = wk.cmds
    BY <1>1, <1>5, ExchangeFacts
  <2>2. APoll => APoll'
    BY <2>1, OneHead DEF APoll, Asking
  <2>3. ARegister => ARegister'
    BY <2>1, QuestionHeads DEF ARegister, Asking
  <2>4. ~ALock
    BY <2>1 DEF ALock
  <2>5. QED  BY <1>2, <2>2, <2>3, <2>4
<1>6. CASE Registered \/ ReadToken \/ TokenTest
  <2>1. call.op = "ioctl" /\ ARegister
    BY <1>2, <1>6 DEF APoll, ALock, Asking, Registered, ReadToken, TokenTest, Step, At
  <2>2. \/ Receive(wk)
        \/ \E r : wk' = [wk EXCEPT !.at = "TOKENTEST", !.r = r]
        \/ \E p \in {"BLOCK", "TOKEN"} : wk' = [wk EXCEPT !.at = p]
    <3>1. ASSUME NEW a, Return(a) PROVE FALSE
      BY <3>1, ReturnFacts
    <3>2. Single
      BY <2>1 DEF Single
    <3>3. QED  BY <1>6, <3>1, <3>2 DEF Registered, ReadToken, TokenTest, NoBlock
  <2>3. wk'.at \in {"TOKEN", "TOKENTEST", "BLOCK"} /\ wk'.step = wk.step /\ wk'.cmds = wk.cmds
    <3>1. CASE Receive(wk)
      BY <1>1, <3>1, ReceiveFacts
    <3>2. ASSUME NEW r, wk' = [wk EXCEPT !.at = "TOKENTEST", !.r = r]
          PROVE  wk'.at = "TOKENTEST" /\ wk'.step = wk.step /\ wk'.cmds = wk.cmds
      BY <1>1, <3>2 DEF IsWk, WkFields
    <3>3. ASSUME NEW p \in {"BLOCK", "TOKEN"}, wk' = [wk EXCEPT !.at = p]
          PROVE  wk'.at = p /\ wk'.step = wk.step /\ wk'.cmds = wk.cmds
      BY <1>1, <3>3 DEF IsWk, WkFields
    <3>4. QED  BY <2>2, <3>1, <3>2, <3>3
  <2>4. ARegister'
    BY <2>1, <2>3 DEF ARegister
  <2>5. QED  BY <2>1, <2>4
<1>7. QED  BY <1>3, <1>4, <1>5, <1>6

\* A call begins, at most with a command to be sent.
LEMMA AskBegins ==
  ASSUME IInv, DInv, AInv, Poll \/ Initialize \/ Transfer \/ Ioctl
  PROVE  /\ AInv' /\ UNCHANGED <<slot, bad, cd>> /\ wk.at = "REST" /\ wk'.at \in {"REST", "WAIT"}
         /\ wk'.at = "WAIT" => timer'[2] = WaitTime
         /\ past'.sound = Good /\ past'.closed = (cd.op \notin {"reads", "writes"})
<1>1. IsWk(wk) /\ IsTimer(timer) /\ wk.at = "REST"
  BY DEF IInv, InvShape, AInv, InvClock, Poll, Initialize, Transfer, Ioctl, At
<1>2. PICK c, a : /\ Begin(c, a) /\ c.op \in {"poll", "init", "read", "write", "ioctl"}
                  /\ c.op \in {"read", "write", "ioctl"} => c \in Calls
  BY DEF Poll, Initialize, Transfer, Ioctl
<1>3. /\ call' = c /\ UNCHANGED <<slot, bad, cd>>
      /\ past'.sound = Good /\ past'.closed = (cd.op \notin {"reads", "writes"})
  BY <1>2, BegunData DEF card
<1>4. \/ UNCHANGED <<wk, timer>>
      \/ \E w : IsWk(w) /\ Wait(w)
  <2>1. \A s, cs, n : IsWk(Packet(s, cs, n))
    BY <1>1, PacketFacts
  <2>2. \A s, cs, n, k : IsWk([Packet(s, cs, n) EXCEPT !.left = k])
    <3> SUFFICES ASSUME NEW s, NEW cs, NEW n, NEW k PROVE IsWk([Packet(s, cs, n) EXCEPT !.left = k])
      OBVIOUS
    <3> DEFINE p == Packet(s, cs, n)
    <3>1. IsWk(p)
      BY <2>1
    <3> HIDE DEF p
    <3>2. IsWk([p EXCEPT !.left = k])
      BY <3>1 DEF IsWk, WkFields
    <3>3. QED  BY <3>2 DEF p
  <2>3. \A s : IsWk([Resting EXCEPT !.step = s])
    BY RestingFacts
  <2>4. CASE Poll \/ Initialize \/ Transfer
    BY <2>1, <2>2, <2>4 DEF Poll, Initialize, Transfer, Command
  <2>5. CASE Ioctl
    BY <2>1, <2>3, <2>5 DEF Ioctl, Command
  <2>6. QED  BY <2>4, <2>5
<1>5. /\ IsTimer(timer') /\ wk'.at \in {"REST", "WAIT"}
      /\ wk'.at = "WAIT" => timer'[2] = WaitTime
  <2>1. ASSUME NEW w, IsWk(w), Wait(w) PROVE IsTimer(timer') /\ wk'.at = "WAIT" /\ timer'[2] = WaitTime
    BY <1>1, <2>1, WaitFacts, SetFacts DEF Wait, Set
  <2>2. QED  BY <1>1, <1>4, <2>1
<1>6. wk'.at # "REST" /\ c.op \in {"poll", "ioctl"} => IF c.op = "poll" THEN APoll' ELSE ALock' \/ ARegister'
  <2>1. CASE Poll
    <3>1. wk'.at = "WAIT" /\ wk'.step = "POLL" /\ wk'.cmds = <<"CMD58">>
      BY <1>1, <2>1, CommandFacts DEF Poll
    <3>2. call' = [op |-> "poll"]
      BY <2>1, Begun DEF Poll
    <3>3. QED  BY <1>3, <3>1, <3>2 DEF APoll, Asking
  <2>2. CASE Initialize \/ Transfer
    <3>1. call'.op \in {"init", "read", "write"}
      <4>1. CASE Initialize
        <5>1. call' = [op |-> "init"]
          BY <4>1, Begun DEF Initialize
        <5>2. QED  BY <5>1
      <4>2. CASE Transfer
        <5>1. PICK d \in Calls : d.op \in {"read", "write"} /\ \E b : Begin(d, b)
          BY <4>2 DEF Transfer
        <5>2. QED  BY <5>1, Begun
      <4>3. QED  BY <2>2, <4>1, <4>2
    <3>2. QED  BY <1>3, <3>1
  <2>3. CASE Ioctl
    <3>1. PICK d \in Calls :
            /\ d.op = "ioctl"
            /\ \/ UNCHANGED wk
               \/ \E s : s \in {"OFF", "SYNC"} /\ Wait([Resting EXCEPT !.step = s])
               \/ /\ d.ctrl \in Controls \ {"POWER_OFF", "CTRL_SYNC", "GET_SECTOR_SIZE", "MMC_GET_TYPE"}
                  /\ Command("REGISTER", Question(d.ctrl), 0)
            /\ \E b : Begin(d, b)
      BY <2>3, CallsAssumption DEF Ioctl
    <3>2. c.op = "ioctl"
      BY <1>3, <3>1, Begun
    <3>3. ASSUME NEW s \in {"OFF", "SYNC"}, Wait([Resting EXCEPT !.step = s]) PROVE ALock'
      <4>1. wk'.at = "WAIT" /\ wk'.step = s /\ wk'.cmds = <<>>
        BY <3>3, RestingFacts, WaitFacts
      <4>2. QED  BY <4>1 DEF ALock
    <3>4. CASE /\ d.ctrl \in Controls \ {"POWER_OFF", "CTRL_SYNC", "GET_SECTOR_SIZE", "MMC_GET_TYPE"}
               /\ Command("REGISTER", Question(d.ctrl), 0)
      <4>1. wk'.at = "WAIT" /\ wk'.step = "REGISTER" /\ wk'.cmds = Question(d.ctrl)
        BY <1>1, <3>4, CommandFacts
      <4>2. Question(d.ctrl) \in Questions
        BY <3>4, QuestionAsked
      <4>3. ARegister'
        BY <4>1, <4>2 DEF ARegister, Asking
      <4>4. QED  BY <3>2, <4>3
    <3>5. QED  BY <1>1, <3>1, <3>2, <3>3, <3>4
  <2>4. QED  BY <2>1, <2>2, <2>3
<1>7. InvAsk' /\ InvClock'
  BY <1>2, <1>3, <1>5, <1>6 DEF InvAsk, AInv, InvClock
<1>8. QED  BY <1>1, <1>3, <1>5, <1>7 DEF AInv

\* Every step keeps what is sent, and where.
LEMMA NextAInv ==
  ASSUME IInv, DInv, AInv, [Next]_vars
  PROVE  AInv'
<1>1. CASE Driver
  <2>1. IsWk(wk) /\ call' = call /\ cd'.op \in Ops
    BY <1>1, DriverFrame, OpAfter DEF IInv, InvShape, AInv, InvClock
  <2>2. IsTimer(timer')
    <3>1. CASE ReadByte \/ Test
      BY <2>1, <3>1, ReadByteFacts, TestFacts, SetFacts DEF AInv, InvClock
    <3>2. CASE Exchange
      <4>1. timer' = [timer EXCEPT ![2] = WaitTime] \/ UNCHANGED timer
        BY <2>1, <3>2, ExchangeFacts DEF Set
      <4>2. QED  BY <4>1, SetFacts DEF AInv, InvClock
    <3>3. CASE ~(ReadByte \/ Test \/ Exchange)
      BY <1>1, <2>1, <3>3, PlaceAfter DEF AInv, InvClock, Landed
    <3>4. QED  BY <3>1, <3>2, <3>3
  <2>3. InvAsk'
    <3>1. wk.at # "REST"
      BY <1>1, DriverFrame
    <3>2. CASE call.op \in {"poll", "ioctl"}
      BY <1>1, <3>2, AskStep
    <3>3. CASE call.op \notin {"poll", "ioctl"}
      BY <2>1, <3>1, <3>3 DEF AInv, InvAsk
    <3>4. QED  BY <3>2, <3>3
  <2>4. QED  BY <2>1, <2>2, <2>3 DEF AInv, InvClock
<1>2. CASE Poll \/ Initialize \/ Transfer \/ Ioctl
  BY <1>2, AskBegins
<1>3. CASE Outside \/ UNCHANGED vars
  <2>1. UNCHANGED <<call, wk>> /\ (cd'.op = cd.op \/ cd'.op = "none")
    BY <1>3, OutsideFacts DEF DInv
  <2>2. UNCHANGED timer \/ \E i \in 1 .. 2 : timer' = [timer EXCEPT ![i] = @ - 1]
    BY <1>3 DEF Outside, CardWorks, Tick, Swap, Wobble, vars
  <2>3. IsTimer(timer')
    BY <2>2 DEF AInv, InvClock, IsTimer
  <2>4. QED  BY <2>1, <2>3 DEF AInv, InvClock, InvAsk, APoll, ALock, ARegister, Ops
<1>4. QED  BY <1>1, <1>2, <1>3 DEF Next, Outside

-----------------------------------------------------------------------------
\* A card is not busy once the driver has found it ready.
InvBusy ==
  /\ At("TEST") /\ wk.ff => ~cd.busy
  /\ At("SEND") \/ (wk.at \in {"DATA", "STOP"} /\ wk.r = "ready") => ~cd.busy
\* A card that waits for its only block is ready for it, so that it gets it.
InvOne ==
  cd.op = "write" =>
    /\ call.op = "write" /\ ~cd.busy
    /\ \/ wk.step = "WRITE" /\ Opened
       \/ wk.step = "DATA" /\ wk.at \in {"WAIT", "TEST", "DATA"}
    /\ At("TEST") => wk.ff
    /\ At("DATA") => wk.r = "ready"
\* A card that works is waited for long enough.
InvTimer ==
  past.sound =>
    /\ Good
    /\ wk.at \in {"WAIT", "TEST"} /\ cd.busy => timer[2] = WaitTime
    /\ At("TEST") /\ ~wk.ff => timer[2] = WaitTime \/ (timer[2] = WaitTime - 1 /\ 2 \notin fresh)
    /\ wk.at \in {"DATA", "STOP"} => wk.r = "ready"
\* So what was started is also stopped.
RunsReads ==
  cd.op = "reads" =>
    /\ call.op = "read" /\ call.count # 1
    /\ \/ wk.step = "READ" /\ (Opened \/ wk.at \in {"TOKEN", "TOKENTEST", "BLOCK"})
       \/ wk.step = "STOPPED" /\ wk.at \in {"WAIT", "TEST", "SEND"}
RunsWrites ==
  cd.op = "writes" =>
    /\ call.op = "write" /\ call.count # 1
    /\ (wk.step = "WRITE" /\ Opened) \/ (wk.step \in {"DATA", "STOP"} /\ wk.at # "REST")
InvRuns == past.sound /\ past.closed => RunsReads /\ RunsWrites
HInv == InvBusy /\ InvOne /\ InvTimer /\ InvRuns

\* Outside the driver a card is pulled, or time passes that it does not need.
LEMMA OutsideHeard ==
  ASSUME IInv, DInv, AInv, HInv, Outside \/ UNCHANGED vars
  PROVE  HInv'
<1>1. /\ UNCHANGED <<call, wk>> /\ (cd'.op = cd.op \/ cd'.op = "none") /\ (cd'.busy => cd.busy)
      /\ past'.closed = past.closed /\ (past'.sound => past.sound)
  BY OutsideFacts DEF DInv
<1>2. InvBusy' /\ InvOne' /\ InvRuns'
  BY <1>1 DEF HInv, InvBusy, InvOne, InvRuns, RunsReads, RunsWrites, Opened, At
<1>3. InvTimer'
  <2> SUFFICES ASSUME past'.sound PROVE InvTimer'
    BY DEF InvTimer
  <2>1. past.sound /\ Good /\ IsPast(past)
    BY <1>1 DEF HInv, InvTimer, DInv, InvCall
  <2>2. CASE CardWorks \/ UNCHANGED vars
    <3>1. UNCHANGED <<slot, bad, timer, fresh>>
      BY <2>2 DEF CardWorks, vars, card
    <3>2. QED  BY <1>1, <2>1, <3>1 DEF HInv, InvTimer, Good, At
  <2>3. CASE Tick(1)
    <3>1. UNCHANGED <<slot, bad, cd>> /\ timer'[2] = timer[2] /\ fresh' = fresh \ {1}
      BY <2>3 DEF Tick, card, AInv, InvClock, IsTimer
    <3>2. QED  BY <1>1, <2>1, <3>1 DEF HInv, InvTimer, Good, At
  <2>4. CASE Tick(2)
    <3>1. /\ UNCHANGED <<slot, bad, cd>> /\ timer'[2] = timer[2] - 1 /\ fresh' = fresh \ {2} /\ 2 \in fresh
          /\ ~cd.busy
      BY <2>1, <2>4 DEF Tick, card, AInv, InvClock, IsTimer
    <3>2. QED  BY <1>1, <2>1, <3>1 DEF HInv, InvTimer, Good, At
  <2>5. CASE Swap \/ Wobble
    <3>1. slot # NoCard
      BY <2>1 DEF Good
    <3>2. past' = [past EXCEPT !.sound = FALSE]
      BY <2>5, <3>1 DEF Swap, Wobble, Pulled
    <3>3. QED  BY <2>1, <3>2 DEF IsPast, PastFields
  <2>6. QED  BY <2>2, <2>3, <2>4, <2>5 DEF Outside
<1>4. QED  BY <1>2, <1>3 DEF HInv

\* A call begins with a card that runs nothing, or does not count on it.
LEMMA BeginHeard ==
  ASSUME IInv, DInv, AInv, HInv, Poll \/ Initialize \/ Transfer \/ Ioctl
  PROVE  HInv'
<1>1. /\ UNCHANGED <<slot, bad, cd>> /\ wk.at = "REST" /\ wk'.at \in {"REST", "WAIT"}
      /\ wk'.at = "WAIT" => timer'[2] = WaitTime
      /\ past'.sound = Good /\ past'.closed = (cd.op \notin {"reads", "writes"})
  BY AskBegins
<1>2. cd.op # "write"
  BY <1>1 DEF HInv, InvOne, Opened
<1>3. QED
  BY <1>1, <1>2 DEF HInv, InvBusy, InvOne, InvTimer, InvRuns, RunsReads, RunsWrites, Good, At

\* The driver does not make a card bad that works, or it knows.
LEMMA SoundAfter ==
  ASSUME DInv, InvTimer, Driver
  PROVE  past'.sound => past.sound /\ Good' /\ Good
<1>1. IsPast(past) /\ (past'.sound => past.sound)
  BY PastFacts DEF DInv, InvCall
<1>2. CASE TakeBlock
  <2>1. bad' = bad /\ (slot' = slot \/ past' = [past EXCEPT !.sound = FALSE, !.torn = TRUE])
    BY <1>2 DEF TakeBlock
  <2>2. past'.sound => slot' = slot
    BY <1>1, <2>1 DEF IsPast, PastFields
  <2>3. QED  BY <1>1, <2>1, <2>2 DEF InvTimer, Good
<1>3. CASE SendBlock
  <2>1. bad' = bad /\ past' = [past EXCEPT !.sound = @ /\ slot' # NoCard]
    BY <1>3 DEF SendBlock
  <2>2. past'.sound => slot' # NoCard
    <3> DEFINE b == past.sound /\ slot' # NoCard
    <3>1. past' = [past EXCEPT !.sound = b]
      BY <2>1
    <3> HIDE DEF b
    <3>2. past'.sound = b
      BY <1>1, <3>1 DEF IsPast, PastFields
    <3>3. QED  BY <3>2 DEF b
  <2>3. QED  BY <1>1, <2>1, <2>2 DEF InvTimer, Good
<1>4. CASE ~TakeBlock /\ ~SendBlock
  <2>1. UNCHANGED <<slot, bad>>
    BY <1>4 DEF Driver, ReadByte, Test, Exchange, Polled, GoIdle, IfCond, OpCond, Ocr, Sdc, Leave, SetBlockLen,
       PowerOff, ReadOpened, ReadToken, TokenTest, Stopped, Erased, WriteOpened, SendStop,
       Synced, Registered, TakeRegister, card
  <2>2. QED  BY <1>1, <2>1 DEF InvTimer, Good
<1>5. QED  BY <1>2, <1>3, <1>4

\* The driver reads a byte while it waits.
LEMMA ReadByteHeard ==
  ASSUME IInv, DInv, HInv, ReadByte
  PROVE  HInv'
<1>1. IsWk(wk)
  BY DEF IInv, InvShape
<1>2. /\ wk.at = "WAIT" /\ wk'.at = "TEST" /\ wk'.step = wk.step
      /\ UNCHANGED <<slot, bad, cd, call, timer, fresh, past>>
  BY <1>1, ReadByteFacts
<1>3. PICK ff \in IF cd.busy THEN {FALSE}
                  ELSE IF Sending /\ timer[2] = WaitTime THEN BOOLEAN ELSE {TRUE} :
        wk' = [wk EXCEPT !.at = "TEST", !.ff = ff]
  BY DEF ReadByte
<1>4. wk'.ff = ff
  BY <1>1, <1>3 DEF IsWk, WkFields
<1>5. wk'.ff => ~cd.busy
  BY <1>3, <1>4
<1>6. ~wk'.ff => cd.busy \/ (timer[2] = WaitTime /\ cd.op # "write")
  BY <1>3, <1>4 DEF Sending
<1>7. InvBusy' /\ InvOne'
  BY <1>2, <1>5, <1>6 DEF HInv, InvBusy, InvOne, At, Opened
<1>8. InvTimer'
  BY <1>2, <1>6 DEF HInv, InvTimer, Good, At
<1>9. InvRuns'
  BY <1>2 DEF HInv, InvRuns, RunsReads, RunsWrites, Opened
<1>10. QED  BY <1>7, <1>8, <1>9 DEF HInv

\* Where the driver waits without a command to send
LEMMA TestPlaces ==
  ASSUME IInv, DInv, AInv, wk.at = "TEST", wk.cmds = <<>>
  PROVE  wk.step \in {"DATA", "STOP", "OFF", "SYNC"}
<1>1. CASE call.op \in {"read", "write"}
  <2>1. WErase \/ WCommand \/ RCommand \/ RStop => wk.cmds # <<>>
    BY OneHead, TwoHeads DEF WErase, WCommand, RCommand, RStop
  <2>2. QED  BY <1>1, <2>1 DEF DInv, InvRead, InvWrite, WData, WStop, RBlocks
<1>2. CASE call.op \in {"poll", "ioctl"}
  <2>1. APoll \/ ARegister => wk.cmds # <<>>
    BY OneHead, QuestionHeads DEF APoll, ARegister
  <2>2. QED  BY <1>2, <2>1 DEF AInv, InvAsk, ALock
<1>3. CASE call.op = "init"
  <2>1. wk.step = "OFF" \/ wk.cmds \in Opens \/ \E x : wk.cmds = <<x>>
    BY <1>3 DEF IInv, InvInit, Sends, Sendable
  <2>2. QED  BY <2>1, OpensHeads, OneHead
<1>4. QED  BY <1>1, <1>2, <1>3 DEF AInv, InvAsk

\* It looks at the byte, and finds a card that works ready in time.
LEMMA TestHeard ==
  ASSUME IInv, DInv, AInv, HInv, Test
  PROVE  HInv'
<1>1. IsWk(wk)
  BY DEF IInv, InvShape
<1>2. /\ wk.at = "TEST" /\ wk'.step = wk.step /\ wk'.cmds = wk.cmds
      /\ UNCHANGED <<slot, bad, cd, call, timer, past>>
  BY <1>1, TestFacts
<1>3. \/ wk'.at = "WAIT" /\ ~wk.ff
      \/ wk'.at = "SEND" /\ wk.cmds # <<>> /\ wk.ff
      \/ wk'.at = "REPLIED" /\ wk'.r = "error" /\ wk.cmds # <<>> /\ ~wk.ff /\ ~(timer[2] > 0)
      \/ /\ wk'.at = wk.step /\ wk.cmds = <<>>
         /\ (wk.ff /\ wk'.r = "ready") \/ (wk'.r = "error" /\ ~wk.ff /\ ~(timer[2] > 0))
  BY <1>1, TestFacts
<1>4. past.sound /\ ~wk.ff => timer[2] > 0
  BY <1>2, TimesAssumption DEF HInv, InvTimer, At
<1>5. wk.cmds = <<>> => wk.step \in {"DATA", "STOP", "OFF", "SYNC"}
  BY <1>2, TestPlaces
<1>6. InvBusy'
  BY <1>2, <1>3, <1>5 DEF HInv, InvBusy, At
<1>7. InvOne'
  <2> SUFFICES ASSUME cd.op = "write" PROVE InvOne'
    BY <1>2 DEF InvOne
  <2>1. call.op = "write" /\ ~cd.busy /\ wk.step = "DATA" /\ wk.ff
    BY <1>2 DEF HInv, InvOne, Opened, At
  <2>2. WData
    BY <1>2, <2>1 DEF DInv, InvWrite, WErase, WCommand, WStop
  <2>3. wk'.at = "DATA" /\ wk'.r = "ready"
    BY <1>3, <2>1, <2>2 DEF WData
  <2>4. QED  BY <1>2, <2>1, <2>3 DEF InvOne, At
<1>8. InvTimer'
  BY <1>2, <1>3, <1>4, <1>5 DEF HInv, InvTimer, Good, At
<1>9. InvRuns'
  <2> SUFFICES ASSUME past.sound, past.closed PROVE RunsReads' /\ RunsWrites'
    BY <1>2 DEF InvRuns
  <2>1. wk.ff \/ timer[2] > 0
    BY <1>4
  <2>2. RunsReads'
    <3> SUFFICES ASSUME cd.op = "reads" PROVE RunsReads'
      BY <1>2 DEF RunsReads
    <3>1. call.op = "read" /\ call.count # 1 /\ wk.step = "STOPPED"
      BY <1>2 DEF HInv, InvRuns, RunsReads, Opened
    <3>2. wk.cmds # <<>>
      BY <1>5, <3>1
    <3>3. wk'.at \in {"WAIT", "SEND"}
      BY <1>3, <2>1, <3>2
    <3>4. QED  BY <1>2, <3>1, <3>3 DEF RunsReads
  <2>3. RunsWrites'
    <3> SUFFICES ASSUME cd.op = "writes" PROVE RunsWrites'
      BY <1>2 DEF RunsWrites
    <3>1. call.op = "write" /\ call.count # 1 /\ wk.step \in {"DATA", "STOP"}
      BY <1>2 DEF HInv, InvRuns, RunsWrites, Opened
    <3>2. wk'.at # "REST"
      BY <1>3, <3>1
    <3>3. QED  BY <1>2, <3>1, <3>2 DEF RunsWrites
  <2>4. QED  BY <2>2, <2>3
<1>10. QED  BY <1>6, <1>7, <1>8, <1>9 DEF HInv

\* It sends a command, to which a card that works listens.
LEMMA ExchangeHeard ==
  ASSUME IInv, DInv, AInv, HInv, Exchange
  PROVE  HInv'
<1>1. /\ IsWk(wk) /\ IsCd(cd) /\ (slot = NoCard => cd.mode = "native") /\ (cd.op # "none" => cd.mode = "ready")
      /\ IsTimer(timer)
  BY DEF IInv, DInv, AInv, InvShape, InvEmpty, InvSame, InvClock
<1>2. wk.at = "SEND" /\ wk'.step = wk.step /\ UNCHANGED <<slot, bad, call, past>>
  BY <1>1, ExchangeFacts
<1>3. PICK a \in Answers(Head(wk.cmds), wk.arg) :
        /\ cd' = a.cd
        /\ \/ Len(wk.cmds) > 1 /\ wk'.at = "WAIT" /\ Set(2, WaitTime)
           \/ wk'.at = "REPLIED" /\ wk'.r = a.r
  BY <1>1, ExchangeFacts
<1>4. /\ cd'.busy => cd.busy \/ Head(wk.cmds) = "CMD12"
      /\ \/ cd'.op = "none"
         \/ cd' = cd
         \/ cd'.op = Starts(Head(wk.cmds)) /\ a.r = "ready" /\ Head(wk.cmds) \in Starting
      /\ Good /\ Head(wk.cmds) = "CMD12" /\ cd.op = "reads" => cd'.op = "none"
  BY <1>1, <1>3, AnswersRun
<1>5. ~cd.busy /\ cd.op # "write"
  BY <1>2 DEF HInv, InvBusy, InvOne, At, Opened
<1>6. wk'.at = "WAIT" => timer'[2] = WaitTime
  BY <1>1, <1>3, SetFacts DEF Set
<1>7. InvBusy' /\ InvTimer'
  BY <1>2, <1>3, <1>6 DEF HInv, InvBusy, InvTimer, Good, At
<1>8. ASSUME cd'.op # "none", cd' # cd
      PROVE  /\ cd'.op = Starts(Head(wk.cmds)) /\ ~cd'.busy
             /\ cd'.op \in {"reads", "write", "writes"} => Opened'
             /\ cd'.op = "reads" => call.op = "read" /\ call.count # 1 /\ wk.step = "READ"
             /\ cd'.op = "write" => call.op = "write" /\ wk.step = "WRITE"
             /\ cd'.op = "writes" => call.op = "write" /\ call.count # 1 /\ wk.step = "WRITE"
  <2>1. /\ cd'.op = Starts(Head(wk.cmds)) /\ a.r = "ready" /\ Head(wk.cmds) \in Starting /\ ~cd'.busy
    BY <1>4, <1>5, <1>8 DEF Starting
  <2>2. /\ cd'.op = "reads" => Head(wk.cmds) = "CMD18"
        /\ cd'.op = "write" => Head(wk.cmds) = "CMD24"
        /\ cd'.op = "writes" => Head(wk.cmds) = "CMD25"
    BY <2>1 DEF Starts, Starting
  <2>3. QED  BY <1>2, <1>3, <2>1, <2>2, Senders DEF AInv, Opened
<1>9. InvOne'
  BY <1>2, <1>5, <1>8 DEF InvOne, Opened, At
<1>10. InvRuns'
  <2> SUFFICES ASSUME past.sound, past.closed PROVE RunsReads' /\ RunsWrites'
    BY <1>2 DEF InvRuns
  <2>1. Good
    BY DEF HInv, InvTimer
  <2>2. RunsReads'
    <3>1. CASE cd' = cd /\ cd.op = "reads"
      <4>1. wk.step = "STOPPED" /\ call.op = "read"
        BY <1>2, <3>1 DEF HInv, InvRuns, RunsReads, Opened
      <4>2. Head(wk.cmds) = "CMD12"
        BY <1>2, <4>1, OneHead DEF DInv, InvRead, RCommand, RBlocks, RStop
      <4>3. QED  BY <1>4, <2>1, <3>1, <4>2
    <3>2. CASE ~(cd' = cd /\ cd.op = "reads")
      BY <1>2, <1>8, <3>2 DEF RunsReads
    <3>3. QED  BY <3>1, <3>2
  <2>3. RunsWrites'
    <3>1. cd.op # "writes"
      <4>1. cd.op = "writes" => call.op = "write" /\ wk.step \in {"DATA", "STOP"}
        BY <1>2 DEF HInv, InvRuns, RunsWrites, Opened
      <4>2. ~(call.op = "write" /\ wk.step \in {"DATA", "STOP"})
        BY <1>2 DEF DInv, InvWrite, WErase, WCommand, WData, WStop
      <4>3. QED  BY <4>1, <4>2
    <3>2. QED  BY <1>2, <1>8, <3>1 DEF RunsWrites
  <2>4. QED  BY <2>2, <2>3
<1>11. QED  BY <1>7, <1>9, <1>10 DEF HInv

\* A block sent to a card that waits for its only one, and the stop token sent
\* to one that waits for more, end what runs.
LEMMA SentEnds ==
  ASSUME IsCd(cd), slot # NoCard, wk.r = "ready"
  PROVE  /\ cd.op = "write" /\ SendBlock => cd'.op = "none"
         /\ cd.op = "writes" /\ SendStop => cd'.op = "none"
<1>1. ASSUME cd.op = "write", SendBlock PROVE cd'.op = "none"
  <2>1. Writing
    BY <1>1 DEF Writing
  <2>2. \/ cd' = [Next1("write") EXCEPT !.busy = TRUE]
        \/ cd' = [cd EXCEPT !.op = "none"]
        \/ cd' = Asleep
    BY <1>1, <2>1 DEF SendBlock, Programmed, Rejected
  <2>3. CASE cd' = [Next1("write") EXCEPT !.busy = TRUE]
    <3> DEFINE c == Next1("write")
    <3>1. IsCd(c) /\ c.op = "none"
      BY <1>1 DEF Next1, IsCd, CdFields, CdModes
    <3> HIDE DEF c
    <3>2. cd' = [c EXCEPT !.busy = TRUE]
      BY <2>3 DEF c
    <3>3. QED  BY <3>1, <3>2 DEF IsCd, CdFields
  <2>4. CASE cd' = [cd EXCEPT !.op = "none"] \/ cd' = Asleep
    BY <2>4 DEF IsCd, CdFields, Asleep
  <2>5. QED  BY <2>2, <2>3, <2>4
<1>2. ASSUME cd.op = "writes", SendStop PROVE cd'.op = "none"
  <2>1. cd' = [cd EXCEPT !.op = "none", !.busy = TRUE]
    BY <1>2 DEF SendStop, Writing
  <2>2. QED  BY <2>1 DEF IsCd, CdFields
<1>3. QED  BY <1>1, <1>2

\* The steps of a write that runs, other than waiting and sending commands
LEMMA RunsOnWriting ==
  ASSUME IInv, DInv, call.op = "write", Driver, ~(ReadByte \/ Test \/ Exchange), call.count # 1
  PROVE  /\ wk.step = "WRITE" /\ Opened => wk'.step = "DATA" /\ wk'.at = "WAIT"
         /\ wk.step \in {"DATA", "STOP"} =>
              (wk'.step \in {"DATA", "STOP"} /\ wk'.at = "WAIT") \/ (SendStop /\ wk.at = "STOP")
<1>1. IsWk(wk) /\ ~Single
  BY DEF IInv, InvShape, Single
<1>2. Erased \/ WriteOpened \/ SendBlock \/ SendStop
  BY WriteActions
<1>3. CASE Erased
  BY <1>3 DEF Erased, Step, At
<1>4. CASE WriteOpened
  <2>1. wk.step = "WRITE" /\ (wk.r = "ready" => Transmit("DATA", wk.left))
    BY <1>4 DEF WriteOpened, Step
  <2>2. Transmit("DATA", wk.left) => wk'.step = "DATA" /\ wk'.at = "WAIT"
    BY <1>1, TransmitFacts
  <2>3. QED  BY <2>1, <2>2 DEF Opened
<1>5. CASE SendBlock
  <2>1. \E s \in {"DATA", "STOP"} : \E n : Transmit(s, n)
    BY <1>1, <1>5 DEF SendBlock
  <2>2. wk'.step \in {"DATA", "STOP"} /\ wk'.at = "WAIT"
    BY <1>1, <2>1, TransmitFacts
  <2>3. QED  BY <1>5, <2>2 DEF SendBlock, At, Opened
<1>6. CASE SendStop
  BY <1>6 DEF SendStop, At, Opened
<1>7. QED  BY <1>2, <1>3, <1>4, <1>5, <1>6

\* The steps of a read that runs
LEMMA RunsOnReading ==
  ASSUME IInv, DInv, call.op = "read", Driver, ~(ReadByte \/ Test \/ Exchange), call.count # 1,
         wk.step = "READ", Opened \/ wk.at \in {"TOKEN", "TOKENTEST", "BLOCK"}
  PROVE  \/ wk'.step = "READ" /\ wk'.at \in {"TOKEN", "TOKENTEST", "BLOCK"}
         \/ wk'.step = "STOPPED" /\ wk'.at = "WAIT"
<1>1. IsWk(wk) /\ ~Single
  BY DEF IInv, InvShape, Single
<1>2. ReadOpened \/ ReadToken \/ TokenTest \/ TakeBlock
  BY ReadActions DEF Stopped, Step
<1>3. \/ Receive(wk)
      \/ \E p \in {"TOKEN", "BLOCK"} : wk' = [wk EXCEPT !.at = p]
      \/ \E r : wk' = [wk EXCEPT !.at = "TOKENTEST", !.r = r]
      \/ Command("STOPPED", <<"CMD12">>, 0)
      \/ Receive([wk EXCEPT !.left = @ - 1])
      \/ Wait([Packet("STOPPED", <<"CMD12">>, 0) EXCEPT !.left = 0])
  BY <1>1, <1>2 DEF ReadOpened, Opened, ReadToken, TokenTest, NoBlock, TakeBlock, Step, At
<1>4. CASE Receive(wk) \/ Command("STOPPED", <<"CMD12">>, 0)
  BY <1>1, <1>4, ReceiveFacts, CommandFacts
<1>5. ASSUME NEW p \in {"TOKEN", "BLOCK"}, wk' = [wk EXCEPT !.at = p] PROVE wk'.step = wk.step /\ wk'.at = p
  BY <1>1, <1>5 DEF IsWk, WkFields
<1>6. ASSUME NEW r, wk' = [wk EXCEPT !.at = "TOKENTEST", !.r = r]
      PROVE  wk'.step = wk.step /\ wk'.at = "TOKENTEST"
  BY <1>1, <1>6 DEF IsWk, WkFields
<1>7. CASE Receive([wk EXCEPT !.left = @ - 1])
  <2>1. IsWk([wk EXCEPT !.left = @ - 1]) /\ [wk EXCEPT !.left = @ - 1].step = wk.step
    BY <1>1 DEF IsWk, WkFields
  <2>2. QED  BY <1>7, <2>1, ReceiveFacts
<1>8. CASE Wait([Packet("STOPPED", <<"CMD12">>, 0) EXCEPT !.left = 0])
  <2> DEFINE w == [Packet("STOPPED", <<"CMD12">>, 0) EXCEPT !.left = 0]
  <2>1. IsWk(w) /\ w.step = "STOPPED"
    BY <1>1 DEF IsWk, WkFields, Packet
  <2> HIDE DEF w
  <2>2. Wait(w)
    BY <1>8 DEF w
  <2>3. QED  BY <2>1, <2>2, WaitFacts
<1>9. QED  BY <1>3, <1>4, <1>5, <1>6, <1>7, <1>8

\* The other steps of the driver
LEMMA OthersHeard ==
  ASSUME IInv, DInv, AInv, HInv, Driver, ~(ReadByte \/ Test \/ Exchange)
  PROVE  HInv'
<1>1. /\ IsWk(wk) /\ IsCd(cd) /\ IsTimer(timer) /\ call' = call
      /\ (slot = NoCard => cd.mode = "native") /\ (cd.op # "none" => cd.mode = "ready")
  BY DriverFrame DEF IInv, DInv, AInv, InvShape, InvClock, InvEmpty, InvSame
<1>2. \/ wk'.at \in {"REST", "TOKEN", "TOKENTEST", "BLOCK"}
      \/ wk'.at = "WAIT" /\ timer'[2] = WaitTime
  BY <1>1, PlaceAfter DEF Landed
<1>3. past'.sound => past.sound /\ Good /\ Good'
  BY SoundAfter DEF HInv
<1>4. past'.closed = past.closed
  BY PastFacts DEF DInv, InvCall
<1>5. cd'.op \in {cd.op, "none"}
  BY OpAfter DEF AInv, InvClock
<1>6. InvBusy' /\ InvTimer'
  BY <1>2, <1>3 DEF InvBusy, InvTimer, At
<1>7. InvOne'
  <2> SUFFICES ASSUME cd.op = "write", cd'.op = "write" PROVE InvOne'
    BY <1>5 DEF InvOne
  <2>1. /\ call.op = "write" /\ ~cd.busy /\ slot # NoCard
        /\ \/ wk.step = "WRITE" /\ Opened
           \/ wk.step = "DATA" /\ wk.at \in {"WAIT", "TEST", "DATA"}
        /\ wk.at = "DATA" => wk.r = "ready"
    BY <1>1 DEF HInv, InvOne, At
  <2>2. Erased \/ WriteOpened \/ SendBlock \/ SendStop
    BY <2>1, WriteActions
  <2>3. WriteOpened /\ wk.r = "ready"
    <3>1. ~SendBlock
      BY <1>1, <2>1, SentEnds DEF SendBlock, At
    <3>2. ~SendStop /\ ~Erased
      BY <2>1 DEF SendStop, Erased, Step, At, Opened
    <3>3. QED  BY <2>1, <2>2, <3>1, <3>2 DEF WriteOpened, Step, At, Opened
  <2>4. wk'.step = "DATA" /\ wk'.at = "WAIT" /\ cd' = cd
    BY <1>1, <2>3, TransmitFacts DEF WriteOpened, card
  <2>5. QED  BY <1>1, <2>1, <2>4 DEF InvOne, At
<1>8. InvRuns'
  <2> SUFFICES ASSUME past'.sound, past.closed PROVE RunsReads' /\ RunsWrites'
    BY <1>4 DEF InvRuns
  <2>1. RunsReads /\ RunsWrites /\ slot # NoCard
    BY <1>3 DEF HInv, InvRuns, Good
  <2>2. RunsReads'
    <3> SUFFICES ASSUME cd.op = "reads" PROVE RunsReads'
      BY <1>5 DEF RunsReads
    <3>1. call.op = "read" /\ call.count # 1
      BY <2>1 DEF RunsReads
    <3>2. wk.step = "READ" /\ (Opened \/ wk.at \in {"TOKEN", "TOKENTEST", "BLOCK"})
      <4>1. ~(wk.step = "STOPPED" /\ wk.at \in {"WAIT", "TEST", "SEND"})
        <5>1. ReadOpened \/ ReadToken \/ TokenTest \/ TakeBlock \/ Stopped
          BY <3>1, ReadActions
        <5>2. QED  BY <5>1 DEF ReadOpened, ReadToken, TokenTest, TakeBlock, Stopped, Step, At
      <4>2. QED  BY <2>1, <4>1 DEF RunsReads
    <3>3. QED  BY <1>1, <3>1, <3>2, RunsOnReading DEF RunsReads
  <2>3. RunsWrites'
    <3> SUFFICES ASSUME cd.op = "writes", cd'.op = "writes" PROVE RunsWrites'
      BY <1>5 DEF RunsWrites
    <3>1. /\ call.op = "write" /\ call.count # 1
          /\ (wk.step = "WRITE" /\ Opened) \/ wk.step \in {"DATA", "STOP"}
      BY <2>1 DEF RunsWrites
    <3>2. ~(SendStop /\ wk.at = "STOP")
      <4>1. wk.at = "STOP" => wk.r = "ready"
        BY <1>3 DEF HInv, InvTimer
      <4>2. QED  BY <1>1, <2>1, <4>1, SentEnds
    <3>3. QED  BY <1>1, <3>1, <3>2, RunsOnWriting DEF RunsWrites
  <2>4. QED  BY <2>2, <2>3
<1>9. QED  BY <1>6, <1>7, <1>8 DEF HInv

\* At first nothing runs, and the card is not asked anything.
LEMMA InitHeard == Init => AInv /\ HInv
<1> SUFFICES ASSUME Init PROVE AInv /\ HInv
  OBVIOUS
<1>1. cd.op = "none" /\ wk.at = "REST" /\ past.sound = FALSE /\ call.op = "none" /\ timer = <<0, 0>>
  BY DEF Init, Asleep, Resting
<1>2. AInv
  BY <1>1 DEF AInv, InvClock, InvAsk, IsTimer, Ops
<1>3. HInv
  BY <1>1 DEF HInv, InvBusy, InvOne, InvTimer, InvRuns, At
<1>4. QED  BY <1>2, <1>3

\* Every step keeps what is said of a card that works.
LEMMA NextHeard ==
  ASSUME IInv, DInv, AInv, HInv, [Next]_vars
  PROVE  AInv' /\ HInv'
<1>1. CASE Driver
  BY <1>1, NextAInv, ReadByteHeard, TestHeard, ExchangeHeard, OthersHeard DEF Next
<1>2. CASE Poll \/ Initialize \/ Transfer \/ Ioctl
  BY <1>2, AskBegins, BeginHeard
<1>3. CASE Outside \/ UNCHANGED vars
  BY <1>3, NextAInv, OutsideHeard DEF Next, Outside
<1>4. QED  BY <1>1, <1>2, <1>3 DEF Next, Outside

\* What is known of the card, the call and the timers says what is heard.
LEMMA HeardHolds ==
  ASSUME IInv, DInv, AInv, HInv
  PROVE  Heard
<1>1. At("SEND") \/ (wk.at \in {"DATA", "STOP"} /\ wk.r = "ready") => ~cd.busy
  BY DEF HInv, InvBusy
<1>2. ASSUME At("SEND"), past.sound, past.closed
      PROVE  cd.op \in {"none", "read", "register"} \/ (cd.op = "reads" /\ wk.cmds = <<"CMD12">>)
  <2>1. cd.op # "write"
    BY <1>2 DEF HInv, InvOne, At, Opened
  <2>2. cd.op # "writes"
    <3>1. cd.op = "writes" => call.op = "write" /\ wk.step \in {"DATA", "STOP"}
      BY <1>2 DEF HInv, InvRuns, RunsWrites, Opened, At
    <3>2. ~(call.op = "write" /\ wk.step \in {"DATA", "STOP"})
      BY <1>2 DEF DInv, InvWrite, WErase, WCommand, WData, WStop, At
    <3>3. QED  BY <3>1, <3>2
  <2>3. cd.op = "reads" => wk.cmds = <<"CMD12">>
    <3>1. cd.op = "reads" => call.op = "read" /\ wk.step = "STOPPED"
      BY <1>2 DEF HInv, InvRuns, RunsReads, Opened, At
    <3>2. call.op = "read" /\ wk.step = "STOPPED" => wk.cmds = <<"CMD12">>
      BY <1>2 DEF DInv, InvRead, RCommand, RBlocks, RStop, At
    <3>3. QED  BY <3>1, <3>2
  <2>4. QED  BY <2>1, <2>2, <2>3 DEF AInv, InvClock, Ops
<1>3. At("REST") /\ past.sound /\ past.closed => cd.op \notin {"reads", "writes"}
  BY DEF HInv, InvRuns, RunsReads, RunsWrites, Opened, At
<1>4. QED  BY <1>1, <1>2, <1>3 DEF Heard

\* Nothing is sent to a card that is busy, nor a command but the one that stops
\* it to one in the middle of a transfer, and no call leaves a transfer running,
\* as long as the card works and was at rest when it was called.
THEOREM HeardCorrect == Spec => []Heard
<1>1. IInv /\ DInv /\ AInv /\ HInv => Heard
  BY HeardHolds
<1>2. QED
  BY <1>1, InitIInv, NextIInv, InitDInv, NextDInv, InitHeard, NextHeard, PTL DEF Spec

-----------------------------------------------------------------------------
\* A card that works throughout the call, and was left at rest by the one before
Well   == past.sound /\ past.closed
Usable == Well /\ ~noinit /\ cd.mode = "ready"

InvSlot == slot \in Cards \union {NoCard}
\* An MMC card is not taken for one that knows CMD8.
ByHcs(w) == \/ w.step \in {"OP_COND", "OCR"}
            \/ w.step = "IF_COND" /\ w.at = "REPLIED" /\ w.r = "idle"
InvMmc ==
  slot # NoCard /\ Kind[slot] = "MMC" =>
    /\ call.op = "init" /\ wk.at # "REST" /\ ByHcs(wk) => cd.mode = "native"
    /\ ~noinit /\ cd.mode = "ready" /\ (At("REST") \/ call.op # "init") => CardType # 4

\* disk_initialize: Timer1 lasts until a card that works is ready.
Modern == Kind[slot] \in {"SDv2", "SDHC"}
First  == timer[1] = InitTime \/ (timer[1] = InitTime - 1 /\ 1 \notin fresh)
Loop   == \/ timer[1] = InitTime
          \/ timer[1] = InitTime - 1 /\ (At("REPLIED") => wk.r = "ready" \/ 1 \notin fresh)
          \/ timer[1] = InitTime - 2 /\ 1 \notin fresh /\ (At("REPLIED") => wk.r = "ready")
Found == At("REPLIED") /\ wk.r = "ready" => cd.mode = "ready"
SGoIdle == At("REPLIED") => wk.r = "idle" /\ cd.mode = "idle"
SIfCond == cd.mode = "idle" /\ First /\ (At("REPLIED") => wk.r = IF Modern THEN "idle" ELSE "error")
SOpCond == cd.mode # "native" /\ Modern /\ wk.arg = Hcs /\ Loop /\ Found
SSdc    == /\ cd.mode # "native" /\ ~Modern /\ First
           /\ wk.cmds = <<"CMD41">> \/ (At("REPLIED") /\ wk.r # "error") => Kind[slot] # "MMC"
SLeave  == /\ cd.mode # "native" /\ ~Modern /\ Loop /\ Found
           /\ wk.ty = 2 \/ wk.cmds # <<"CMD1">> => Kind[slot] # "MMC"
SLast   == cd.mode = "ready" /\ (At("REPLIED") => wk.r = "ready")
SPlace ==
  \/ wk.step = "GO_IDLE" /\ SGoIdle
  \/ wk.step = "IF_COND" /\ SIfCond
  \/ wk.step = "OP_COND" /\ SOpCond
  \/ wk.step = "SDC" /\ SSdc
  \/ wk.step = "LEAVE" /\ SLeave
  \/ wk.step \in {"OCR", "BLOCKLEN"} /\ SLast
SInit == Well /\ call.op = "init" => IF At("REST") THEN answer = "OK" ELSE ~At("OFF") /\ SPlace

\* The other calls: what they are answered, and that a block comes in time.
Wanted   == Moving => Asked \subseteq 0 .. NBlocks - 1
Known    == call.op = "ioctl" => Kind[slot] # "MMC" \/ call.ctrl # "MMC_GET_SDSTAT"
Running  == CASE call.op = "read"  -> IF call.count = 1 THEN "read" ELSE "reads"
              [] call.op = "write" -> IF call.count = 1 THEN "write" ELSE "writes"
              [] OTHER -> "register"
Coming   == wk.at \in {"TOKEN", "TOKENTEST", "BLOCK"}
Underway == \/ At("REPLIED") /\ wk.step \in {"READ", "WRITE", "REGISTER"} /\ wk.cmds # <<"CMD58">>
            \/ Coming \/ (wk.step = "DATA" /\ ~At("REST"))
SReply == At("REPLIED") /\ wk.step \in {"POLL", "READ", "WRITE", "REGISTER"} => wk.r = "ready"
SRun   == Underway => cd.op = Running /\ cd.token \in {"none", "data"}
STime ==
  /\ At("TOKEN") /\ cd.token = "none" => timer[1] = TokenTime
  /\ At("TOKENTEST") =>
       \/ wk.r = "data" /\ cd.token = "data"
       \/ wk.r = "none" /\ timer[1] = TokenTime
       \/ wk.r = "none" /\ timer[1] = TokenTime - 1 /\ 1 \notin fresh /\ cd.token = "data"
  /\ At("BLOCK") => cd.token = "data"
SLeft == wk.step \in {"STOPPED", "STOP"} /\ ~At("REST") => wk.left = 0
SSync == At("SYNC") => wk.r = "ready"
SEnd  == At("REST") /\ call.op # "none" => answer = "OK"
Served == SReply /\ SRun /\ STime /\ SLeft /\ SSync /\ SEnd
InvServed == Usable /\ Wanted /\ Known /\ call.op # "init" => Served
InvRegister ==
  call.op = "ioctl" /\ wk.at # "REST" /\ wk.step = "REGISTER" =>
    /\ wk.arg = 0 /\ (call.ctrl = "MMC_GET_OCR") = (wk.cmds = <<"CMD58">>)
    /\ Usable /\ Known /\ Kind[slot] = "MMC" => wk.cmds \in {<<"CMD9">>, <<"CMD10">>, <<"CMD58">>}
    /\ Usable /\ Underway /\ cd.op = "register" => cd.addr = 0
SInv == InvSlot /\ InvMmc /\ SInit /\ InvRegister /\ InvServed

\* A card that works, and runs nothing, does as it is told.
LEMMA GoodAnswers ==
  ASSUME IsCd(cd), Good, NEW cmd, cmd # "CMD0", NEW arg, NEW a \in Answers(cmd, arg),
         cd.mode # "native", cd.op \notin {"reads", "writes"}
  PROVE  a \in Ordinary(cmd, arg)
  BY DEF Answers, Proper, Good

\* What is asked of a card that is ready is answered, and what is begun runs.
LEMMA ReadyAnswers ==
  ASSUME IsCd(cd), cd.mode = "ready", NEW cmd, NEW arg, NEW a \in Ordinary(cmd, arg)
  PROVE  /\ cmd \in {"CMD16", "CMD58"} => a.r = "ready"
         /\ cmd = "CMD55" /\ Kind[slot] # "MMC" => a.r = "ready"
         /\ cmd \in Starting /\ OnCard(arg) =>
              a.r = "ready" /\ a.cd.op = Starts(cmd) /\ a.cd.token = "none" /\ a.cd.addr = arg
<1>1. \A r, c : Yes(r, c).cd = c /\ Yes(r, c).r = r
  BY DEF Yes
<1>2. R1 = "ready"
  BY DEF R1
<1>3. CASE cmd \in {"CMD16", "CMD58"} \/ (cmd = "CMD55" /\ Kind[slot] # "MMC")
  <2>1. \E c : a = Yes("ready", c)
    BY <1>2, <1>3 DEF Ordinary
  <2>2. QED  BY <1>1, <1>3, <2>1 DEF Starting
<1>4. CASE cmd \in Starting /\ OnCard(arg)
  <2> DEFINE still == [cd EXCEPT !.op = "none", !.token = "none"]
  <2>1. a = Yes("ready", [still EXCEPT !.op = Starts(cmd), !.addr = arg])
    BY <1>2, <1>4 DEF Ordinary, Starting
  <2>2. a.r = "ready" /\ a.cd = [still EXCEPT !.op = Starts(cmd), !.addr = arg]
    BY <1>1, <2>1
  <2>3. a.cd.op = Starts(cmd) /\ a.cd.token = "none" /\ a.cd.addr = arg
    BY <2>2 DEF IsCd, CdFields, CdModes
  <2>4. QED  BY <1>4, <2>2, <2>3 DEF Starting
<1>5. QED  BY <1>3, <1>4

\* What disk_initialize is told by a card that is not ready.
LEMMA EarlyAnswers ==
  ASSUME IsCd(cd), cd.mode # "native", NEW cmd, NEW arg, NEW a \in Ordinary(cmd, arg)
  PROVE  /\ cmd = "CMD8" /\ cd.mode = "idle" => a.r = IF Modern THEN "idle" ELSE "error"
         /\ cmd = "CMD55" => (a.r = "error" <=> Kind[slot] = "MMC")
         /\ cmd \in {"CMD1", "CMD41"} =>
              /\ a.r = "ready" => a.cd.mode = "ready"
              /\ a.cd.mode \in {cd.mode, "ready"}
              /\ arg = Hcs \/ Kind[slot] # "SDHC" => a.r = "ready" \/ timer[1] = InitTime
<1> DEFINE still == [cd EXCEPT !.op = "none", !.token = "none"]
<1>1. \A r, c : Yes(r, c).cd = c /\ Yes(r, c).r = r
  BY DEF Yes
<1>2. R1 \in {"idle", "ready"} /\ (cd.mode = "idle" => R1 = "idle")
  BY DEF R1
<1>3. CASE cmd = "CMD8"
  <2>1. \E c : a = Yes(IF Modern THEN R1 ELSE "error", c)
    BY <1>3 DEF Ordinary, Modern
  <2>2. QED  BY <1>1, <1>2, <1>3, <2>1
<1>4. CASE cmd = "CMD55"
  <2>1. \E c : a = Yes(IF Kind[slot] = "MMC" THEN "error" ELSE R1, c)
    BY <1>4 DEF Ordinary
  <2>2. QED  BY <1>1, <1>2, <1>4, <2>1
<1>5. CASE cmd \in {"CMD1", "CMD41"}
  <2>1. \/ a = Yes("ready", [still EXCEPT !.mode = "ready"])
        \/ a = Yes("idle", still) /\ (timer[1] = InitTime \/ ~(arg = Hcs \/ Kind[slot] # "SDHC"))
    BY <1>5 DEF Ordinary
  <2>2. [still EXCEPT !.mode = "ready"].mode = "ready" /\ still.mode = cd.mode
    BY DEF IsCd, CdFields, CdModes
  <2>3. \/ a.r = "ready" /\ a.cd.mode = "ready"
        \/ a.r = "idle" /\ a.cd.mode = cd.mode /\ (timer[1] = InitTime \/ ~(arg = Hcs \/ Kind[slot] # "SDHC"))
    <3>1. CASE a = Yes("ready", [still EXCEPT !.mode = "ready"])
      <4>1. a.r = "ready" /\ a.cd = [still EXCEPT !.mode = "ready"]
        BY <1>1, <3>1
      <4>2. QED  BY <2>2, <4>1
    <3>2. CASE a = Yes("idle", still) /\ (timer[1] = InitTime \/ ~(arg = Hcs \/ Kind[slot] # "SDHC"))
      <4> HIDE DEF still
      <4>1. a.r = "idle" /\ a.cd = still
        BY <1>1, <3>2
      <4>2. QED  BY <2>2, <3>2, <4>1
    <3>3. QED  BY <2>1, <3>1, <3>2
  <2>4. QED  BY <1>5, <2>3
<1>6. QED  BY <1>3, <1>4, <1>5

\* A block that was asked for is on the card.
LEMMA PlaceOnCard ==
  ASSUME slot \in Cards, NEW s \in Nat, NEW k \in Nat, s + k < NBlocks
  PROVE  OnCard(Unit(slot, s, k)) /\ (Kind[slot] # "SDHC" => s * BlockLen < AddrMod)
<1>1. ASSUME NEW n \in Nat PROVE (n * BlockLen) % BlockLen = 0 /\ (n * BlockLen) \div BlockLen = n
  BY BlocksAssumption
<1>2. s + k \in Nat
  OBVIOUS
<1>3. CASE Kind[slot] = "SDHC"
  BY <1>2, <1>3 DEF OnCard, Block, Unit
<1>4. CASE Kind[slot] # "SDHC"
  <2>1. NBlocks * BlockLen <= AddrMod
    BY <1>4, SizeAssumption
  <2>2. s * BlockLen < NBlocks * BlockLen
    <3>1. s + 1 <= NBlocks
      BY SizeAssumption
    <3>2. \A m, n \in Nat : m <= n => m * BlockLen <= n * BlockLen
      BY BlocksAssumption
    <3>3. (s + 1) * BlockLen <= NBlocks * BlockLen
      BY <3>1, <3>2, SizeAssumption
    <3>4. (s + 1) * BlockLen = s * BlockLen + BlockLen
      BY BlocksAssumption
    <3>5. s * BlockLen \in Nat /\ NBlocks * BlockLen \in Nat
      BY BlocksAssumption, SizeAssumption
    <3>6. QED  BY <3>3, <3>4, <3>5, BlocksAssumption
  <2>3. s * BlockLen \in Nat /\ NBlocks * BlockLen \in Nat
    BY BlocksAssumption, SizeAssumption
  <2>4. s * BlockLen < AddrMod
    BY <2>1, <2>2, <2>3, BlocksAssumption
  <2>5. Unit(slot, s, k) = (s + k) * BlockLen
    BY <1>4 DEF Unit
  <2>6. OnCard(Unit(slot, s, k))
    BY <1>1, <1>2, <1>4, <2>5 DEF OnCard, Block
  <2>7. QED  BY <2>4, <2>6
<1>5. QED  BY <1>3, <1>4

\* A card that can be used is there, and is the one that the call is about.
LEMMA UsableFacts ==
  ASSUME IInv, DInv, HInv, InvSlot, Usable
  PROVE  /\ Good /\ slot \in Cards /\ slot # NoCard /\ ~bad /\ IsCd(cd) /\ IsWk(wk)
         /\ call.op # "init" => slot = past.card
<1>1. Good /\ IsCd(cd) /\ IsWk(wk)
  BY DEF IInv, InvShape, HInv, InvTimer, Usable, Well
<1>2. QED  BY <1>1 DEF Good, InvSlot, DInv, InvSame, Usable

\* The block that is being moved is on the card.
LEMMA RunsOnCard ==
  ASSUME IInv, DInv, AInv, HInv, SInv, Usable, Wanted, Known, call.op # "init", Underway
  PROVE  OnCard(cd.addr) /\ cd.op = Running /\ cd.op # "none"
<1>1. Served
  BY DEF SInv, InvServed
<1>2. cd.op = Running /\ cd.op # "none"
  BY <1>1 DEF Served, SRun, Running
<1>3. slot \in Cards /\ slot = past.card /\ ~At("REST")
  BY UsableFacts DEF SInv, Underway, Coming, At
<1>4. CASE Moving
  <2>1. call.sector \in Nat /\ call.count \in Nat \ {0}
    BY <1>4, MovingFacts DEF DInv
  <2>2. Placed /\ wk.left \in 1 .. call.count
    <3>1. CASE call.op = "read"
      <4>1. RCommand \/ RBlocks \/ RStop
        BY <1>3, <3>1 DEF DInv, InvRead, At
      <4>2. ~RStop
        BY DEF RStop, Underway, Coming, At, Asking
      <4>3. RCommand => Opened
        BY <1>1 DEF RCommand, Underway, Coming, At, Asking, Opened, Served, SReply
      <4>4. QED  BY <2>1, <4>1, <4>2, <4>3 DEF RCommand, RBlocks
    <3>2. CASE call.op = "write"
      <4>1. WErase \/ WCommand \/ WData \/ WStop
        BY <1>3, <3>2 DEF DInv, InvWrite, At
      <4>2. ~WStop /\ ~WErase
        BY DEF WStop, WErase, Underway, Coming, At, Asking
      <4>3. WCommand => Opened
        BY <1>1 DEF WCommand, Underway, Coming, At, Asking, Opened, Served, SReply
      <4>4. QED  BY <2>1, <4>1, <4>2, <4>3 DEF WCommand, WData
    <3>3. QED  BY <1>4, <3>1, <3>2 DEF Moving
  <2>3. Sent \in Nat /\ call.sector + Sent < NBlocks
    <3>1. Sent \in 0 .. call.count - 1
      BY <2>1, <2>2 DEF Sent
    <3>2. call.sector + Sent \in Asked
      BY <2>1, <3>1 DEF Asked
    <3>3. QED  BY <1>4, <3>1, <3>2, SizeAssumption DEF Wanted
  <2>4. OnCard(Unit(slot, call.sector, Sent)) /\ Fits
    <3>1. /\ OnCard(Unit(slot, call.sector, Sent))
          /\ Kind[slot] # "SDHC" => call.sector * BlockLen < AddrMod
      BY <1>3, <2>1, <2>3, PlaceOnCard
    <3>2. QED  BY <1>3, <3>1, SizeAssumption DEF Fits
  <2>5. QED  BY <1>2, <1>3, <2>2, <2>4 DEF Placed
<1>5. CASE ~Moving
  <2>1. call.op = "ioctl" /\ wk.step = "REGISTER"
    <3>1. call.op \in {"poll", "ioctl"}
      BY <1>3, <1>5 DEF AInv, InvAsk, Moving, At
    <3>2. APoll \/ ALock \/ ARegister
      BY <1>3, <3>1 DEF AInv, InvAsk, At
    <3>3. ~APoll /\ ~ALock
      BY DEF APoll, ALock, Underway, Coming, At, Asking
    <3>4. QED  BY <1>3, <3>1, <3>2, <3>3 DEF ARegister, AInv, InvAsk, At
  <2>2. cd.addr = 0
    BY <1>2, <1>3, <2>1 DEF SInv, InvRegister, Running, At
  <2>3. 0 % BlockLen = 0 /\ 0 \div BlockLen = 0 /\ 0 < NBlocks
    BY BlocksAssumption, SizeAssumption
  <2>4. QED  BY <1>2, <2>2, <2>3 DEF OnCard, Block
<1>6. QED  BY <1>4, <1>5

\* Where nothing goes wrong, the card gets ready, or time passes.
LEMMA OutsideWorks ==
  ASSUME IInv, DInv, HInv, Outside \/ UNCHANGED vars, past'.sound
  PROVE  /\ past.sound /\ Good /\ UNCHANGED <<slot, bad>> /\ past'.closed = past.closed
         /\ cd'.mode = cd.mode /\ cd'.op = cd.op /\ cd'.addr = cd.addr
         /\ CardWorks \/ (\E i \in 1 .. 2 : Tick(i)) \/ UNCHANGED vars
<1>1. /\ past.sound /\ past'.closed = past.closed /\ IsPast(past)
      /\ \/ slot' = slot /\ cd'.mode = cd.mode /\ cd'.op = cd.op /\ cd'.addr = cd.addr
         \/ cd'.mode = "native" /\ cd'.op = "none"
  BY OutsideFacts DEF DInv, InvCall
<1>2. Good
  BY <1>1 DEF HInv, InvTimer
<1>3. ~(Swap \/ Wobble)
  <2>1. Swap \/ Wobble => past' = [past EXCEPT !.sound = FALSE]
    BY <1>2 DEF Swap, Wobble, Pulled, Good
  <2>2. past' # [past EXCEPT !.sound = FALSE]
    BY <1>1 DEF IsPast, PastFields
  <2>3. QED  BY <2>1, <2>2
<1>4. CardWorks \/ (\E i \in 1 .. 2 : Tick(i)) \/ UNCHANGED vars
  BY <1>3 DEF Outside
<1>5. UNCHANGED <<slot, bad>>
  BY <1>4 DEF CardWorks, Tick, card, vars
<1>6. cd'.mode = cd.mode /\ cd'.op = cd.op /\ cd'.addr = cd.addr
  <2>1. IsCd(cd)
    BY DEF IInv, InvShape
  <2>2. CASE CardWorks
    <3>1. cd' = [cd EXCEPT !.busy = FALSE] \/ \E t : cd' = [cd EXCEPT !.token = t]
      BY <2>2 DEF CardWorks, Unbusy, Prepare
    <3>2. QED  BY <2>1, <3>1 DEF IsCd, CdFields
  <2>3. CASE ~CardWorks
    BY <1>4, <2>3 DEF Tick, card, vars
  <2>4. QED  BY <2>2, <2>3
<1>7. QED  BY <1>1, <1>2, <1>4, <1>5, <1>6

\* Without the driver, a card that works goes on as it should.
LEMMA OutsideServes ==
  ASSUME IInv, DInv, AInv, HInv, SInv, Outside \/ UNCHANGED vars
  PROVE  SInv'
<1>1. /\ UNCHANGED <<noinit, CardType, call, answer, wk>>
      /\ \/ slot' = slot /\ cd'.mode = cd.mode
         \/ cd'.mode = "native"
      /\ past'.closed = past.closed /\ IsCd(cd) /\ IsTimer(timer)
  BY OutsideFacts DEF DInv, AInv, InvClock, IInv, InvShape
<1>2. InvSlot'
  BY DEF SInv, InvSlot, Outside, CardWorks, Tick, Swap, Pulled, Wobble, card, vars
<1>3. InvMmc'
  BY <1>1 DEF SInv, InvMmc, ByHcs, At
<1> DEFINE Calm == /\ UNCHANGED <<slot, noinit, CardType, call, answer, wk>> /\ Well /\ Good
                   /\ cd'.mode = cd.mode /\ cd'.op = cd.op /\ cd'.addr = cd.addr
<1>4. past'.sound /\ past'.closed => Calm /\ (CardWorks \/ Tick(1) \/ Tick(2) \/ UNCHANGED vars)
  <2>1. ASSUME past'.sound, past'.closed
        PROVE  Calm /\ (CardWorks \/ (\E i \in 1 .. 2 : Tick(i)) \/ UNCHANGED vars)
    BY <1>1, <2>1, OutsideWorks DEF Well
  <2>2. (\E i \in 1 .. 2 : Tick(i)) => Tick(1) \/ Tick(2)
    OBVIOUS
  <2>3. QED  BY <2>1, <2>2
<1> HIDE DEF Calm
<1>5. ASSUME Calm PROVE InvRegister'
  BY <1>5 DEF Calm, SInv, InvRegister, Usable, Known, Underway, Coming, Well, At
<1>6. InvRegister'
  <2>1. CASE past'.sound /\ past'.closed
    BY <1>4, <1>5, <2>1
  <2>2. CASE ~(past'.sound /\ past'.closed)
    BY <1>1, <2>2 DEF SInv, InvRegister, Usable, Well, At
  <2>3. QED  BY <2>1, <2>2
<1>7. CASE ~(past'.sound /\ past'.closed)
  BY <1>2, <1>3, <1>6, <1>7 DEF SInv, SInit, InvServed, Usable, Well
<1>8. InitTime \in Nat /\ TokenTime \in Nat
  BY TimesAssumption
<1>9. CASE Calm /\ (CardWorks \/ Tick(1) \/ Tick(2) \/ UNCHANGED vars)
  <2>1. (Tick(1) => timer'[1] = timer[1] - 1 /\ 1 \in fresh /\ fresh' = fresh \ {1} /\ timer[1] > 0)
    BY <1>1 DEF Tick, IsTimer
  <2>2. ~Tick(1) => timer'[1] = timer[1] /\ (1 \notin fresh => 1 \notin fresh')
    BY <1>1, <1>9 DEF Tick, IsTimer, CardWorks, vars
  <2>3. (First => First') /\ (Loop => Loop')
    BY <1>8, <1>9, <2>1, <2>2 DEF Calm, First, Loop, At
  <2>4. (Modern' <=> Modern) /\ (SGoIdle => SGoIdle') /\ (SLast => SLast') /\ (Found => Found')
    BY <1>9 DEF Calm, SGoIdle, SLast, Found, Modern, At
  <2>5. (SIfCond => SIfCond') /\ (SOpCond => SOpCond') /\ (SSdc => SSdc') /\ (SLeave => SLeave')
    BY <1>9, <2>3, <2>4 DEF Calm, SIfCond, SOpCond, SSdc, SLeave, At
  <2>6. SInit'
    BY <1>9, <2>4, <2>5 DEF Calm, SInv, SInit, SPlace, Well, At
  <2>7. InvServed'
    <3> SUFFICES ASSUME Usable', Wanted', Known', call.op # "init" PROVE Served'
      BY <1>9 DEF Calm, InvServed
    <3>1. Usable /\ Wanted /\ Known
      BY <1>9 DEF Calm, Usable, Wanted, Known, Well, Moving, Asked
    <3>2. SReply /\ SRun /\ STime /\ SLeft /\ SSync /\ SEnd /\ IsCd(cd)
      BY <1>1, <3>1 DEF SInv, InvServed, Served
    <3>3. (Underway' <=> Underway) /\ Running' = Running /\ SReply' /\ SLeft' /\ SSync' /\ SEnd'
      BY <1>9, <3>2 DEF Calm, Underway, Coming, Running, SReply, SLeft, SSync, SEnd, At
    <3>4. Underway => OnCard(cd.addr) /\ cd.op = Running /\ cd.op # "none"
      BY <3>1, RunsOnCard
    <3>5. cd'.token = cd.token \/ (Underway => CardWorks /\ cd.token = "none" /\ cd'.token = "data")
      <4>1. CASE Unbusy \/ ~CardWorks
        BY <1>9, <3>2, <4>1 DEF Unbusy, Tick, card, vars, IsCd, CdFields
      <4>2. CASE CardWorks /\ Prepare
        <5>1. ASSUME Underway PROVE cd.token = "none" /\ cd' = [cd EXCEPT !.token = "data"]
          BY <1>9, <3>4, <4>2, <5>1 DEF Calm, Good, Prepare
        <5>2. cd' = [cd EXCEPT !.token = "data"] => cd'.token = "data"
          BY <3>2 DEF IsCd, CdFields
        <5>3. QED  BY <4>2, <5>1, <5>2
      <4>3. QED  BY <4>1, <4>2 DEF CardWorks
    <3>6. SRun'
      BY <1>9, <3>2, <3>3, <3>5 DEF Calm, SRun
    <3>7. Coming => Underway
      BY DEF Underway
    <3>8. STime'
      <4>1. CASE ~Coming
        BY <1>9, <4>1 DEF Calm, STime, Coming, At
      <4>2. CASE Coming /\ ~Tick(1)
        BY <1>9, <2>2, <3>2, <3>5, <3>7, <4>2 DEF Calm, STime, At
      <4>3. CASE Coming /\ Tick(1)
        <5>1. cd'.token = cd.token
          BY <4>3 DEF Tick, card
        <5>2. wk.at \in {"TOKEN", "TOKENTEST"} => cd.token = "data"
          BY <1>9, <3>2, <3>4, <3>7, <4>3 DEF Calm, Tick, SRun
        <5>3. QED  BY <1>8, <1>9, <2>1, <3>2, <4>3, <5>1, <5>2 DEF Calm, STime, At
      <4>4. QED  BY <4>1, <4>2, <4>3
    <3>9. QED  BY <3>3, <3>6, <3>8 DEF Served
  <2>8. QED  BY <1>2, <1>3, <1>6, <2>6, <2>7 DEF SInv
<1>10. QED  BY <1>4, <1>7, <1>9

\* Which question disk_ioctl asks
LEMMA QuestionFor ==
  ASSUME NEW ctrl \in Controls \ {"POWER_OFF", "CTRL_SYNC", "GET_SECTOR_SIZE", "MMC_GET_TYPE"}
  PROVE  /\ (ctrl = "MMC_GET_OCR") = (Question(ctrl) = <<"CMD58">>)
         /\ ctrl # "MMC_GET_SDSTAT" /\ CardType \notin {4, 12} =>
              Question(ctrl) \in {<<"CMD9">>, <<"CMD10">>, <<"CMD58">>}
<1>1. <<"CMD58">> \notin {<<"CMD9">>, <<"CMD10">>, <<"CMD55", "CMD13">>}
  BY OneHead, TwoHeads
<1>2. CASE ctrl \in {"GET_SECTOR_COUNT", "MMC_GET_CSD"}
  <2>1. Question(ctrl) = <<"CMD9">>
    BY <1>2 DEF Question
  <2>2. QED  BY <1>1, <1>2, <2>1
<1>3. CASE ctrl = "MMC_GET_CID"
  <2>1. Question(ctrl) = <<"CMD10">>
    BY <1>3 DEF Question
  <2>2. QED  BY <1>1, <1>3, <2>1
<1>4. CASE ctrl = "MMC_GET_OCR"
  <2>1. Question(ctrl) = <<"CMD58">>
    BY <1>4 DEF Question
  <2>2. QED  BY <1>4, <2>1
<1>5. CASE ctrl = "MMC_GET_SDSTAT"
  <2>1. Question(ctrl) = <<"CMD55", "CMD13">>
    BY <1>5 DEF Question
  <2>2. QED  BY <1>1, <1>5, <2>1
<1>6. CASE ctrl = "GET_BLOCK_SIZE"
  <2>1. Question(ctrl) = IF CardType \in {4, 12} THEN <<"CMD55", "CMD13">> ELSE <<"CMD9">>
    BY <1>6 DEF Question
  <2>2. QED  BY <1>1, <1>6, <2>1
<1>7. QED  BY <1>2, <1>3, <1>4, <1>5, <1>6 DEF Controls

\* A call begins.
LEMMA BeginServes ==
  ASSUME IInv, DInv, AInv, HInv, SInv, Poll \/ Initialize \/ Transfer \/ Ioctl
  PROVE  SInv'
<1>1. IsWk(wk) /\ wk.at = "REST"
  BY DEF IInv, InvShape, Poll, Initialize, Transfer, Ioctl, At
<1>2. UNCHANGED <<slot, bad, cd, noinit, CardType>>
  BY Begun DEF Poll, Initialize, Transfer, Ioctl, card
<1>3. \/ wk'.at = "WAIT" /\ wk'.step \in {"POLL", "READ", "WRITE", "ERASE", "OFF", "SYNC"} /\ call'.op # "init"
      \/ wk'.at = "WAIT" /\ wk'.step = "GO_IDLE" /\ call'.op = "init"
      \/ wk'.at = "REST" /\ (noinit \/ answer' = "OK") /\ call'.op # "init"
      \/ /\ wk'.at = "WAIT" /\ wk'.step = "REGISTER" /\ call'.op = "ioctl" /\ wk'.arg = 0
         /\ call'.ctrl \in Controls \ {"POWER_OFF", "CTRL_SYNC", "GET_SECTOR_SIZE", "MMC_GET_TYPE"}
         /\ wk'.cmds = Question(call'.ctrl)
  <2>1. CASE Poll
    <3>1. wk'.at = "WAIT" /\ wk'.step = "POLL" /\ call' = [op |-> "poll"]
      BY <1>1, <2>1, CommandFacts, Begun DEF Poll
    <3>2. QED  BY <3>1
  <2>2. CASE Initialize
    <3>1. wk'.at = "WAIT" /\ wk'.step = "GO_IDLE" /\ call' = [op |-> "init"]
      BY <1>1, <2>2, CommandFacts, Begun DEF Initialize
    <3>2. QED  BY <3>1
  <2>3. CASE Transfer
    <3>1. PICK c \in Calls :
            /\ c.op \in {"read", "write"} /\ \E b : Begin(c, b)
            /\ \/ noinit /\ UNCHANGED wk
               \/ Wait([Packet(Head(Opening(c)), Tail(Opening(c)), Address(c.sector)) EXCEPT !.left = c.count])
      BY <2>3 DEF Transfer
    <3>2. call' = c
      BY <3>1, Begun
    <3>3. CASE noinit /\ UNCHANGED wk
      BY <1>1, <3>1, <3>2, <3>3
    <3>4. CASE Wait([Packet(Head(Opening(c)), Tail(Opening(c)), Address(c.sector)) EXCEPT !.left = c.count])
      <4> DEFINE w == [Packet(Head(Opening(c)), Tail(Opening(c)), Address(c.sector)) EXCEPT !.left = c.count]
      <4>1. IsWk(w) /\ w.step = Head(Opening(c))
        BY <1>1 DEF Packet, IsWk, WkFields
      <4>2. wk'.at = "WAIT" /\ wk'.step = Head(Opening(c))
        <5> HIDE DEF w
        <5>1. Wait(w)
          BY <3>4 DEF w
        <5>2. QED  BY <4>1, <5>1, WaitFacts
      <4>3. Head(Opening(c)) \in {"READ", "WRITE", "ERASE"}
        BY <3>1, CallsAssumption, OpeningOf
      <4>4. QED  BY <3>1, <3>2, <4>2, <4>3
    <3>5. QED  BY <3>1, <3>3, <3>4
  <2>4. CASE Ioctl
    <3>1. PICK c \in Calls :
            /\ c.op = "ioctl"
            /\ \/ UNCHANGED wk /\ (noinit \/ Begin(c, "OK"))
               \/ \E s \in {"OFF", "SYNC"} : Wait([Resting EXCEPT !.step = s])
               \/ /\ c.ctrl \in Controls \ {"POWER_OFF", "CTRL_SYNC", "GET_SECTOR_SIZE", "MMC_GET_TYPE"}
                  /\ Command("REGISTER", Question(c.ctrl), 0)
            /\ \E b : Begin(c, b)
      BY <2>4, CallsAssumption DEF Ioctl
    <3>2. call' = c
      BY <3>1, Begun
    <3>3. CASE UNCHANGED wk /\ (noinit \/ Begin(c, "OK"))
      BY <1>1, <3>1, <3>2, <3>3 DEF Begin
    <3>4. ASSUME NEW s \in {"OFF", "SYNC"}, Wait([Resting EXCEPT !.step = s])
          PROVE  wk'.at = "WAIT" /\ wk'.step = s
      BY <3>4, RestingFacts, WaitFacts
    <3>5. CASE /\ c.ctrl \in Controls \ {"POWER_OFF", "CTRL_SYNC", "GET_SECTOR_SIZE", "MMC_GET_TYPE"}
               /\ Command("REGISTER", Question(c.ctrl), 0)
      BY <1>1, <3>1, <3>2, <3>5, CommandFacts
    <3>6. QED  BY <3>1, <3>2, <3>3, <3>4, <3>5
  <2>5. QED  BY <2>1, <2>2, <2>3, <2>4
<1>4. InvSlot' /\ InvMmc'
  BY <1>1, <1>2, <1>3 DEF SInv, InvSlot, InvMmc, ByHcs, At
<1>5. SInit'
  BY <1>3 DEF SInit, SPlace, SGoIdle, At
<1>6. InvRegister'
  <2> SUFFICES ASSUME call'.op = "ioctl", wk'.at # "REST", wk'.step = "REGISTER"
               PROVE  /\ wk'.arg = 0 /\ (call'.ctrl = "MMC_GET_OCR") = (wk'.cmds = <<"CMD58">>)
                      /\ Usable' /\ Known' /\ Kind[slot'] = "MMC" =>
                           wk'.cmds \in {<<"CMD9">>, <<"CMD10">>, <<"CMD58">>}
                      /\ ~Underway'
    BY DEF InvRegister
  <2>1. /\ wk'.arg = 0 /\ wk'.cmds = Question(call'.ctrl)
        /\ call'.ctrl \in Controls \ {"POWER_OFF", "CTRL_SYNC", "GET_SECTOR_SIZE", "MMC_GET_TYPE"}
    BY <1>3
  <2>2. ~Underway'
    BY <1>3 DEF Underway, Coming, At
  <2>3. ASSUME Usable', Known', Kind[slot'] = "MMC"
        PROVE  call'.ctrl # "MMC_GET_SDSTAT" /\ CardType \notin {4, 12}
    <3>1. slot # NoCard /\ cd.mode = "ready" /\ ~noinit
      BY <1>2, <2>3 DEF Usable, Well, IInv, InvEmpty
    <3>2. CardType # 12 /\ CardType # 4
      BY <1>1, <1>2, <2>3, <3>1 DEF IInv, TypeMatches, SInv, InvMmc, At
    <3>3. QED  BY <2>3, <3>2 DEF Known
  <2>4. QED  BY <2>1, <2>2, <2>3, QuestionFor
<1>7. InvServed'
  BY <1>2, <1>3 DEF InvServed, Served, SReply, SRun, STime, SLeft, SSync, SEnd, Underway, Coming, Usable, At
<1>8. QED  BY <1>4, <1>5, <1>6, <1>7 DEF SInv

\* disk_initialize waits, sends commands and goes from one to the next.
LEMMA InitActions ==
  ASSUME IInv, call.op = "init", Driver
  PROVE  /\ ReadByte \/ Test \/ Exchange \/ InitOnly \/ PowerOff
         /\ wk.at # "REST" /\ wk.at \in InitPlaces /\ Sends(wk)
<1>1. wk.at # "REST" => wk.at \in InitPlaces /\ Sends(wk)
  BY DEF IInv, InvInit
<1>2. ~(Polled \/ ReadOpened \/ Stopped \/ Erased \/ WriteOpened \/ Registered)
  BY <1>1 DEF Polled, ReadOpened, Stopped, Erased, WriteOpened, Registered, Step, At, Sends, Sendable
<1>3. ~(ReadToken \/ TokenTest \/ TakeBlock \/ SendBlock \/ SendStop \/ Synced \/ TakeRegister)
  BY <1>1 DEF ReadToken, TokenTest, TakeBlock, SendBlock, SendStop, Synced, TakeRegister, At,
              InitPlaces
<1>4. ReadByte \/ Test \/ Exchange \/ InitOnly \/ PowerOff
  BY <1>2, <1>3 DEF Driver, InitOnly
<1>5. wk.at # "REST"
  BY <1>4 DEF ReadByte, Test, Exchange, InitOnly, GoIdle, IfCond, OpCond, Ocr, Sdc, Leave,
              SetBlockLen, PowerOff, Step, At
<1>6. QED  BY <1>1, <1>4, <1>5

\* Where disk_initialize gives up
GivesUp ==
  \/ wk.step = "GO_IDLE" /\ wk.r # "idle"
  \/ wk.step = "IF_COND" /\ wk.r = "idle" /\ ~(Good /\ TimeLeft)
  \/ wk.step \in {"OP_COND", "SDC", "LEAVE"} /\ ~TimeLeft
  \/ wk.step \in {"OCR", "BLOCKLEN"} /\ wk.r # "ready"
\* Which command it sends after an answer
Goes(s, t) == wk.step = s /\ wk'.step = t
Follows ==
  \/ Goes("GO_IDLE", "IF_COND") /\ wk.r = "idle"
  \/ Goes("IF_COND", "SDC") /\ wk.r # "idle" /\ wk'.cmds = AppOpCond
  \/ Goes("IF_COND", "OP_COND") /\ wk.r = "idle" /\ TimeLeft /\ wk'.arg = Hcs
  \/ Goes("OP_COND", "OP_COND") /\ wk.r # "ready" /\ TimeLeft /\ wk'.arg = Hcs
  \/ Goes("OP_COND", "OCR") /\ wk.r = "ready" /\ TimeLeft
  \/ Goes("SDC", "LEAVE") /\ TimeLeft /\ wk'.ty = IF wk.r \in {"ready", "idle"} THEN 2 ELSE 1
  \/ Goes("LEAVE", "LEAVE") /\ wk.r # "ready" /\ TimeLeft /\ wk'.ty = wk.ty
  \/ Goes("LEAVE", "BLOCKLEN") /\ wk.r = "ready" /\ TimeLeft

\* An answer leads disk_initialize to the next command, or to the end.
LEMMA InitNext ==
  ASSUME IsWk(wk), IsTimer(timer), InitOnly
  PROVE  /\ wk.at = "REPLIED" /\ UNCHANGED <<slot, bad, cd, call, past>>
         /\ \/ Finish(0) /\ GivesUp
            \/ wk.step = "OCR" /\ wk.r = "ready" /\ Finish(Capacity)
            \/ wk.step = "BLOCKLEN" /\ wk.r = "ready" /\ Finish(wk.ty)
            \/ /\ wk'.at = "WAIT" /\ Follows /\ noinit' = noinit
               /\ wk.step = "GO_IDLE" => timer'[1] = InitTime
               /\ wk.step # "GO_IDLE" => timer'[1] = timer[1]
               /\ wk.step = "IF_COND" /\ wk'.step = "SDC" => fresh' = fresh \union {2}
               /\ wk'.step = "LEAVE" => wk'.cmds = IF wk'.ty = 2 THEN AppOpCond ELSE <<"CMD1">>
<1>1. wk.at = "REPLIED" /\ UNCHANGED <<slot, bad, cd, call, past>>
  BY DEF InitOnly, GoIdle, IfCond, OpCond, Ocr, Sdc, Leave, SetBlockLen, Step, At, card
<1> DEFINE Lead == /\ wk'.at = "WAIT" /\ Follows /\ noinit' = noinit
                   /\ wk.step = "GO_IDLE" => timer'[1] = InitTime
                   /\ wk.step # "GO_IDLE" => timer'[1] = timer[1]
                   /\ wk.step = "IF_COND" /\ wk'.step = "SDC" => fresh' = fresh \union {2}
                   /\ wk'.step = "LEAVE" => wk'.cmds = IF wk'.ty = 2 THEN AppOpCond ELSE <<"CMD1">>
<1>2. ASSUME NEW s, NEW cs, NEW n, Go(s, cs, n)
      PROVE  /\ wk'.at = "WAIT" /\ wk'.step = s /\ wk'.cmds = cs /\ wk'.ty = wk.ty /\ noinit' = noinit
             /\ timer'[1] = timer[1] /\ fresh' = fresh \union {2} /\ wk'.arg = n
  BY <1>2, CommandFacts DEF Go, Command, Wait, Set, IsTimer
<1>3. ASSUME NEW s, NEW cs, NEW n, Retry(s, cs, n)
      PROVE  /\ wk'.at = "WAIT" /\ wk'.step = s /\ wk'.cmds = cs /\ noinit' = noinit
             /\ timer'[1] = timer[1] /\ wk'.arg = n
  BY <1>3, PacketFacts DEF Retry, IsTimer
<1>4. ASSUME NEW ty, LeaveIdle(ty), TimeLeft
      PROVE  /\ wk'.at = "WAIT" /\ wk'.step = "LEAVE" /\ noinit' = noinit /\ wk'.ty = ty
             /\ timer'[1] = timer[1] /\ wk'.cmds = IF ty = 2 THEN AppOpCond ELSE <<"CMD1">>
  <2> DEFINE w == [Packet("LEAVE", IF ty = 2 THEN AppOpCond ELSE <<"CMD1">>, 0) EXCEPT !.ty = ty]
  <2>1. /\ w.at = "WAIT" /\ w.step = "LEAVE" /\ w.ty = ty
        /\ w.cmds = IF ty = 2 THEN AppOpCond ELSE <<"CMD1">>
    BY DEF IsWk, WkFields, Packet
  <2>2. wk' = w /\ noinit' = noinit
    BY <1>4 DEF LeaveIdle
  <2>3. timer'[1] = timer[1]
    BY <1>4 DEF LeaveIdle, IsTimer
  <2> HIDE DEF w
  <2>4. QED  BY <2>1, <2>2, <2>3
<1>5. CASE GoIdle
  <2>1. wk.step = "GO_IDLE"
    BY <1>5 DEF GoIdle, Step
  <2>2. CASE wk.r = "idle"
    <3>1. wk' = Packet("IF_COND", <<"CMD8">>, 0) /\ timer' = <<InitTime, WaitTime>> /\ noinit' = noinit
      BY <1>5, <2>2 DEF GoIdle
    <3>2. wk'.at = "WAIT" /\ wk'.step = "IF_COND" /\ timer'[1] = InitTime
      BY <3>1, PacketFacts
    <3>3. Lead
      BY <2>1, <2>2, <3>1, <3>2 DEF Follows, Goes
    <3>4. QED  BY <1>1, <3>3
  <2>3. CASE wk.r # "idle"
    BY <1>1, <1>5, <2>1, <2>3 DEF GoIdle, GivesUp
  <2>4. QED  BY <2>2, <2>3
<1>6. CASE IfCond
  <2>1. wk.step = "IF_COND"
    BY <1>6 DEF IfCond, Step
  <2>2. CASE wk.r # "idle"
    <3>1. Go("SDC", AppOpCond, 0)
      BY <1>6, <2>2 DEF IfCond
    <3>2. Lead
      BY <1>2, <2>1, <2>2, <3>1 DEF Follows, Goes
    <3>3. QED  BY <1>1, <3>2
  <2>3. CASE wk.r = "idle"
    <3>1. \/ TimeLeft /\ Retry("OP_COND", AppOpCond, Hcs)
          \/ ~(Good /\ TimeLeft) /\ Finish(0)
      BY <1>6, <2>3 DEF IfCond
    <3>2. TimeLeft /\ Retry("OP_COND", AppOpCond, Hcs) => Lead
      BY <1>3, <2>1, <2>3 DEF Follows, Goes
    <3>3. QED  BY <1>1, <2>1, <2>3, <3>1, <3>2 DEF GivesUp
  <2>4. QED  BY <2>2, <2>3
<1>7. CASE OpCond
  <2>1. wk.step = "OP_COND"
    BY <1>7 DEF OpCond, Step
  <2>2. \/ ~TimeLeft /\ Finish(0)
        \/ TimeLeft /\ wk.r = "ready" /\ Go("OCR", <<"CMD58">>, 0)
        \/ TimeLeft /\ wk.r # "ready" /\ Retry("OP_COND", AppOpCond, Hcs)
    BY <1>7 DEF OpCond
  <2>3. TimeLeft /\ wk.r = "ready" /\ Go("OCR", <<"CMD58">>, 0) => Lead
    BY <1>2, <2>1 DEF Follows, Goes
  <2>4. TimeLeft /\ wk.r # "ready" /\ Retry("OP_COND", AppOpCond, Hcs) => Lead
    BY <1>3, <2>1 DEF Follows, Goes
  <2>5. QED  BY <1>1, <2>1, <2>2, <2>3, <2>4 DEF GivesUp
<1>8. CASE Ocr \/ SetBlockLen
  BY <1>1, <1>8 DEF Ocr, SetBlockLen, Step, GivesUp
<1>9. CASE Sdc
  <2>1. wk.step = "SDC" /\ LeaveIdle(IF wk.r \in {"ready", "idle"} THEN 2 ELSE 1)
    BY <1>9 DEF Sdc, Step
  <2>2. TimeLeft => Lead
    BY <1>4, <2>1 DEF Follows, Goes
  <2>3. ~TimeLeft => Finish(0)
    BY <2>1 DEF LeaveIdle
  <2>4. QED  BY <1>1, <2>1, <2>2, <2>3 DEF GivesUp
<1>10. CASE Leave
  <2>1. wk.step = "LEAVE"
    BY <1>10 DEF Leave, Step
  <2>2. \/ ~TimeLeft /\ Finish(0)
        \/ TimeLeft /\ wk.r = "ready" /\ Go("BLOCKLEN", <<"CMD16">>, BlockLen)
        \/ TimeLeft /\ wk.r # "ready" /\ LeaveIdle(wk.ty)
    BY <1>10 DEF Leave
  <2>3. TimeLeft /\ wk.r = "ready" /\ Go("BLOCKLEN", <<"CMD16">>, BlockLen) => Lead
    BY <1>2, <2>1 DEF Follows, Goes
  <2>4. TimeLeft /\ wk.r # "ready" /\ LeaveIdle(wk.ty) => Lead
    BY <1>4, <2>1 DEF Follows, Goes
  <2>5. QED  BY <1>1, <2>1, <2>2, <2>3, <2>4 DEF GivesUp
<1>11. QED  BY <1>5, <1>6, <1>7, <1>8, <1>9, <1>10 DEF InitOnly

\* How disk_initialize ends
LEMMA FinishFacts ==
  ASSUME NEW ty, Finish(ty)
  PROVE  /\ ty = 0 => wk'.at = "WAIT" /\ wk'.step = "OFF"
         /\ ty # 0 => wk'.at = "REST" /\ CardType' = ty /\ answer' = "OK"
<1>1. CASE ty = 0
  <2>1. Wait([Resting EXCEPT !.step = "OFF"])
    BY <1>1 DEF Finish
  <2>2. QED  BY <1>1, <2>1, RestingFacts, WaitFacts
<1>2. CASE ty # 0
  BY <1>2, ReturnFacts DEF Finish, Return
<1>3. QED  BY <1>1, <1>2

\* The driver puts no card in.
LEMMA SlotAfter ==
  ASSUME InvSlot, Driver
  PROVE  slot' \in {slot, NoCard} /\ InvSlot'
<1>1. slot' \in {slot, NoCard}
  BY DEF Driver, ReadByte, Test, Exchange, Polled, PowerOff, ReadOpened, ReadToken, TokenTest, TakeBlock,
         Stopped, Erased, WriteOpened, SendBlock, Programmed, Rejected, SendStop, Synced, Registered,
         TakeRegister, GoIdle, IfCond, OpCond, Ocr, Sdc, Leave, SetBlockLen, card
<1>2. QED  BY <1>1 DEF InvSlot

\* No call but disk_initialize makes a card ready, or changes what is known of it.
LEMMA OtherFrame ==
  ASSUME IInv, DInv, call.op # "init", Driver
  PROVE  /\ call' = call /\ wk.at # "REST" /\ CardType' = CardType /\ (noinit' = noinit \/ noinit' = TRUE)
         /\ (slot' = slot /\ cd'.mode = cd.mode) \/ cd'.mode = "native"
<1>1. call' = call /\ wk.at # "REST" /\ ~InitOnly
  BY DriverFrame, OnlyInit
<1>2. CardType' = CardType /\ (noinit' = noinit \/ noinit' = TRUE)
  BY <1>1 DEF Driver, ReadByte, Test, Exchange, Polled, PowerOff, ReadOpened, ReadToken, TokenTest, TakeBlock,
         Stopped, Erased, WriteOpened, SendBlock, SendStop, Synced, Registered, TakeRegister, InitOnly
<1>3. IsCd(cd) /\ IsWk(wk)
  BY DEF IInv, InvShape
<1>4. CASE Exchange
  <2>1. wk.cmds \in OtherCmds /\ wk.cmds # <<>> /\ wk.at = "SEND"
    BY <1>1, <1>3, <1>4, ExchangeFacts DEF IInv, InvOther, Quiet
  <2>2. Head(wk.cmds) \notin Changing
    BY <2>1, OtherHeads
  <2>3. PICK a \in Answers(Head(wk.cmds), wk.arg) : cd' = a.cd /\ slot' = slot
    BY <1>3, <1>4, ExchangeFacts
  <2>4. QED  BY <1>1, <1>2, <1>3, <2>2, <2>3, AnswersMode
<1>5. CASE TakeBlock \/ SendBlock \/ SendStop
  BY <1>1, <1>2, <1>3, <1>5, BlockCard
<1>6. CASE ~(Exchange \/ TakeBlock \/ SendBlock \/ SendStop)
  <2>1. slot' = slot /\ cd' = cd
    BY <1>1, <1>6 DEF Driver, ReadByte, Test, Polled, PowerOff, ReadOpened, ReadToken, TokenTest,
         Stopped, Erased, WriteOpened, Synced, Registered, TakeRegister, InitOnly, card
  <2>2. QED  BY <1>1, <1>2, <2>1
<1>7. QED  BY <1>4, <1>5, <1>6

\* A card in its native mode hears CMD0 alone, and an MMC card does not know CMD8.
LEMMA DeafAnswers ==
  ASSUME cd.op # "none" => cd.mode = "ready", NEW cmd, NEW arg, NEW a \in Answers(cmd, arg)
  PROVE  /\ cd.mode = "native" /\ cmd # "CMD0" => a.cd = cd
         /\ cmd = "CMD8" /\ slot # NoCard /\ Kind[slot] = "MMC" => a.r = "error"
<1>1. \A r, c : Yes(r, c).cd = c /\ Yes(r, c).r = r
  BY DEF Yes
<1>2. CASE a = Yes("error", cd)
  BY <1>1, <1>2
<1>3. CASE a # Yes("error", cd)
  <2>1. slot # NoCard /\ a \in Proper(cmd, arg)
    BY <1>3 DEF Answers
  <2>2. ~(cd.mode = "native" /\ cmd # "CMD0")
    <3>1. cd.mode = "native" /\ cmd # "CMD0" => Proper(cmd, arg) = {Yes("error", cd)}
      BY DEF Proper
    <3>2. QED  BY <1>3, <2>1, <3>1
  <2>3. ASSUME cmd = "CMD8", Kind[slot] = "MMC" PROVE a.r = "error"
    <3>1. a \in Ordinary(cmd, arg)
      BY <1>3, <2>1, <2>3 DEF Proper
    <3>2. \E c : a = Yes("error", c)
      BY <2>3, <3>1 DEF Ordinary
    <3>3. QED  BY <1>1, <3>2
  <2>4. QED  BY <2>2, <2>3
<1>4. QED  BY <1>2, <1>3

\* disk_initialize does not take an MMC card for one that knows CMD8.
LEMMA MmcAfter ==
  ASSUME IInv, DInv, AInv, SInv, Driver
  PROVE  InvMmc'
<1>1. /\ IsWk(wk) /\ IsCd(cd) /\ IsTimer(timer) /\ slot' \in {slot, NoCard} /\ InvMmc
      /\ cd.op # "none" => cd.mode = "ready"
  BY SlotAfter DEF SInv, IInv, InvShape, AInv, InvClock, DInv, InvSame
<1>2. CASE call.op # "init"
  <2>1. /\ call' = call /\ CardType' = CardType /\ (noinit' = noinit \/ noinit' = TRUE)
        /\ (slot' = slot /\ cd'.mode = cd.mode) \/ cd'.mode = "native"
    BY <1>2, OtherFrame
  <2>2. QED  BY <1>1, <1>2, <2>1 DEF InvMmc, At
<1>3. CASE call.op = "init"
  <2> SUFFICES ASSUME slot' # NoCard, slot' = slot, Kind[slot] = "MMC"
               PROVE  /\ wk'.at # "REST" /\ ByHcs(wk') => cd'.mode = "native"
                      /\ ~noinit' /\ cd'.mode = "ready" /\ wk'.at = "REST" => CardType' # 4
    BY <1>1, <1>3, DriverFrame DEF InvMmc, At
  <2>1. /\ ReadByte \/ Test \/ Exchange \/ InitOnly \/ PowerOff
        /\ wk.at # "REST" /\ Sends(wk)
    BY <1>3, InitActions
  <2>2. ByHcs(wk) => cd.mode = "native"
    BY <1>1, <1>3, <2>1 DEF InvMmc, At
  <2>3. CASE ReadByte
    BY <1>1, <2>2, <2>3, ReadByteFacts DEF ByHcs
  <2>4. CASE Test
    <3>1. wk.cmds = <<>> => wk.step = "OFF"
      BY <2>1, OneHead, TwoHeads DEF Sends, Sendable, Opens
    <3>2. wk'.at # "REST" /\ (ByHcs(wk') => ByHcs(wk)) /\ cd' = cd
      BY <1>1, <2>4, <3>1, TestFacts DEF ByHcs
    <3>3. QED  BY <2>2, <3>2
  <2>5. CASE Exchange
    <3>1. PICK a \in Answers(Head(wk.cmds), wk.arg) :
            cd' = a.cd /\ (wk'.at = "WAIT" \/ (wk'.at = "REPLIED" /\ wk'.r = a.r))
      BY <1>1, <2>5, ExchangeFacts
    <3>2. wk'.step = wk.step
      BY <1>1, <2>5, ExchangeFacts
    <3>3. CASE wk.step \in {"OP_COND", "OCR"}
      <4>1. Head(wk.cmds) # "CMD0"
        BY <2>1, <3>3, OneHead, OpensHeads DEF Sends, Sendable
      <4>2. QED  BY <1>1, <2>2, <3>1, <3>3, <4>1, DeafAnswers DEF ByHcs
    <3>4. CASE wk.step = "IF_COND"
      <4>1. Head(wk.cmds) = "CMD8"
        BY <2>1, <3>4, OneHead DEF Sends, Sendable
      <4>2. a.r = "error"
        BY <1>1, <3>1, <4>1, DeafAnswers
      <4>3. QED  BY <3>1, <3>2, <3>4, <4>2 DEF ByHcs
    <3>5. QED  BY <3>1, <3>2, <3>3, <3>4 DEF ByHcs
  <2>6. CASE InitOnly
    <3>1. cd' = cd /\ wk.at = "REPLIED"
      BY <1>1, <2>6, InitNext
    <3>2. \/ Finish(0)
          \/ wk.step = "OCR" /\ Finish(Capacity)
          \/ wk.step = "BLOCKLEN" /\ Finish(wk.ty)
          \/ wk'.at = "WAIT" /\ Follows
      BY <1>1, <2>6, InitNext
    <3>3. CASE Finish(0)
      BY <3>3, FinishFacts DEF ByHcs
    <3>4. CASE wk.step = "OCR" /\ Finish(Capacity)
      BY <2>2, <3>1, <3>4, FinishFacts DEF ByHcs, Capacity
    <3>5. CASE wk.step = "BLOCKLEN" /\ Finish(wk.ty)
      <4>1. wk.ty \in {1, 2}
        BY <2>1, <3>5 DEF Sends, Sendable
      <4>2. QED  BY <3>5, <4>1, FinishFacts
    <3>6. CASE wk'.at = "WAIT" /\ Follows
      BY <2>2, <3>1, <3>6 DEF Follows, Goes, ByHcs
    <3>7. QED  BY <3>2, <3>3, <3>4, <3>5, <3>6
  <2>7. CASE PowerOff
    BY <2>7, ReturnFacts DEF PowerOff
  <2>8. QED  BY <2>1, <2>3, <2>4, <2>5, <2>6, <2>7
<1>4. QED  BY <1>2, <1>3

\* disk_initialize waits for a card that works.
LEMMA InitWaits ==
  ASSUME IInv, DInv, AInv, HInv, SInv, Well, call.op = "init", call' = call, ReadByte \/ Test
  PROVE  SInit'
<1>1. IsWk(wk) /\ IsTimer(timer) /\ SInit
  BY DEF IInv, InvShape, AInv, InvClock, SInv
<1>2. wk.at \in {"WAIT", "TEST"} /\ Sends(wk)
  BY InitActions DEF Driver, ReadByte, Test, At
<1>3. SPlace
  BY <1>1, <1>2 DEF SInit, At
<1>4. /\ wk'.at \in {"WAIT", "TEST", "SEND"} /\ wk'.step = wk.step /\ wk'.cmds = wk.cmds /\ wk'.arg = wk.arg
      /\ UNCHANGED <<slot, cd, timer>> /\ (1 \notin fresh => 1 \notin fresh')
  <2>1. CASE ReadByte
    BY <1>1, <2>1, ReadByteFacts
  <2>2. CASE Test
    <3>1. wk.step # "OFF"
      BY <1>3 DEF SPlace
    <3>2. wk.cmds # <<>>
      BY <1>2, <3>1, OneHead, TwoHeads DEF Sends, Sendable, Opens
    <3>3. ~wk.ff => timer[2] > 0
      BY <2>2, TimesAssumption DEF HInv, InvTimer, Well, Test, At
    <3>4. 1 \notin fresh => 1 \notin fresh'
      BY <2>2 DEF Test
    <3>5. QED  BY <1>1, <2>2, <3>2, <3>3, <3>4, TestFacts
  <2>3. QED  BY <2>1, <2>2
<1>5. wk'.ty = wk.ty
  BY <1>1 DEF ReadByte, Test, IsWk, WkFields
<1>6. (First => First') /\ (Modern' <=> Modern)
  BY <1>4 DEF First, Modern
<1>7. Loop => Loop'
  BY <1>2, <1>4 DEF Loop, At
<1>8. SPlace'
  BY <1>3, <1>4, <1>5, <1>6, <1>7 DEF SPlace, SGoIdle, SIfCond, SOpCond, SSdc, SLeave, SLast, Found, At
<1>9. QED  BY <1>4, <1>8 DEF SInit, At

\* It sends a command, to which a card that works gives the answer of its kind.
LEMMA InitAsks ==
  ASSUME IInv, DInv, AInv, HInv, SInv, Well, Good, call.op = "init", Exchange
  PROVE  SInit'
<1>1. /\ IsWk(wk) /\ IsCd(cd) /\ IsTimer(timer) /\ SInit /\ slot \in Cards
      /\ cd.op # "none" => cd.mode = "ready"
  BY DEF IInv, InvShape, AInv, InvClock, SInv, DInv, InvSame, InvSlot, Good
<1>2. wk.at = "SEND" /\ Sends(wk)
  BY InitActions DEF Driver, Exchange, At
<1>3. SPlace
  BY <1>1, <1>2 DEF SInit, At
<1>4. PICK a \in Answers(Head(wk.cmds), wk.arg) :
        /\ cd' = a.cd
        /\ \/ /\ Len(wk.cmds) > 1 /\ a.r # "error" /\ wk'.at = "WAIT" /\ wk'.cmds = Tail(wk.cmds)
              /\ Set(2, WaitTime)
           \/ /\ wk'.at = "REPLIED" /\ wk'.cmds = wk.cmds /\ wk'.r = a.r
              /\ Len(wk.cmds) > 1 => a.r = "error"
              /\ UNCHANGED <<timer, fresh>>
  BY <1>1, ExchangeFacts
<1>5. wk'.step = wk.step /\ wk'.arg = wk.arg /\ UNCHANGED slot /\ wk'.at \in {"WAIT", "REPLIED"}
  BY <1>1, <1>4, ExchangeFacts
<1>6. wk'.ty = wk.ty
  BY <1>1, ExchangeFacts
<1>7. timer'[1] = timer[1] /\ (1 \notin fresh => 1 \notin fresh')
  BY <1>1, <1>4 DEF Set, IsTimer
<1>8. cd.op \notin {"reads", "writes"}
  BY DEF HInv, InvRuns, RunsReads, RunsWrites, Well
<1>9. (First => First') /\ (Modern' <=> Modern)
  BY <1>5, <1>7 DEF First, Modern
<1>10. ~Modern => Kind[slot] # "SDHC"
  BY DEF Modern
<1>11. ASSUME cd.mode # "native", Head(wk.cmds) # "CMD0"
       PROVE  /\ a \in Ordinary(Head(wk.cmds), wk.arg)
              /\ Head(wk.cmds) \notin {"CMD1", "CMD41"} => cd'.mode = cd.mode
  BY <1>1, <1>4, <1>8, <1>11, GoodAnswers, OrdinaryMode
<1>12. CASE wk.step = "GO_IDLE"
  <2>1. wk.cmds = <<"CMD0">>
    BY <1>2, <1>12 DEF Sends, Sendable
  <2>2. Head(wk.cmds) = "CMD0"
    BY <2>1, OneHead
  <2>3. a = Yes("idle", Stirred("idle"))
    BY <1>4, <2>2 DEF Answers, Proper, Good
  <2>4. a.r = "idle" /\ a.cd = Stirred("idle")
    BY <2>3 DEF Yes
  <2>5. a.cd.mode = "idle"
    BY <2>4, StirredFacts DEF CdModes
  <2>6. SGoIdle'
    BY <1>4, <2>4, <2>5 DEF SGoIdle, At
  <2>7. QED  BY <1>5, <1>12, <2>6 DEF SInit, SPlace, At
<1>13. CASE wk.step = "IF_COND"
  <2>1. Head(wk.cmds) = "CMD8" /\ ~(Len(wk.cmds) > 1) /\ SIfCond
    BY <1>2, <1>3, <1>13, OneHead DEF Sends, Sendable, SPlace
  <2>2. a \in Ordinary("CMD8", wk.arg) /\ cd'.mode = cd.mode
    BY <1>11, <2>1 DEF SIfCond
  <2>3. a.r = IF Modern THEN "idle" ELSE "error"
    BY <1>1, <2>1, <2>2, EarlyAnswers DEF SIfCond
  <2>4. SIfCond'
    BY <1>4, <1>9, <2>1, <2>2, <2>3 DEF SIfCond, At
  <2>5. QED  BY <1>5, <1>13, <2>4 DEF SInit, SPlace, At
<1>14. ASSUME wk.cmds = <<"CMD55", "CMD41">>, cd.mode # "native"
       PROVE  /\ cd'.mode = cd.mode
              /\ Kind[slot] = "MMC" => wk'.at = "REPLIED" /\ wk'.r = "error" /\ wk'.cmds = wk.cmds
              /\ Kind[slot] # "MMC" => wk'.at = "WAIT" /\ wk'.cmds = <<"CMD41">>
  <2>1. Head(wk.cmds) = "CMD55" /\ Tail(wk.cmds) = <<"CMD41">> /\ Len(wk.cmds) > 1
    BY <1>14
  <2>2. a \in Ordinary("CMD55", wk.arg) /\ cd'.mode = cd.mode
    BY <1>11, <1>14, <2>1
  <2>3. a.r = "error" <=> Kind[slot] = "MMC"
    BY <1>1, <1>14, <2>2, EarlyAnswers
  <2>4. QED  BY <1>4, <2>1, <2>2, <2>3
<1>15. ASSUME wk.cmds \in {<<"CMD41">>, <<"CMD1">>}, cd.mode # "native",
              wk.arg = Hcs \/ Kind[slot] # "SDHC"
       PROVE  /\ wk'.at = "REPLIED" /\ wk'.cmds = wk.cmds /\ UNCHANGED <<timer, fresh>>
              /\ cd'.mode # "native" /\ (wk'.r = "ready" => cd'.mode = "ready")
              /\ wk'.r = "ready" \/ timer[1] = InitTime
  <2>1. Head(wk.cmds) \in {"CMD1", "CMD41"} /\ ~(Len(wk.cmds) > 1)
    BY <1>15, OneHead
  <2>2. a \in Ordinary(Head(wk.cmds), wk.arg)
    BY <1>11, <1>15, <2>1
  <2>3. /\ a.r = "ready" => a.cd.mode = "ready"
        /\ a.cd.mode \in {cd.mode, "ready"}
        /\ a.r = "ready" \/ timer[1] = InitTime
    BY <1>1, <1>15, <2>1, <2>2, EarlyAnswers
  <2>4. QED  BY <1>4, <1>15, <2>1, <2>3
<1>16. ASSUME Loop, wk'.at = "WAIT" \/ (UNCHANGED <<timer, fresh>> /\ (wk'.r = "ready" \/ timer[1] = InitTime))
       PROVE  Loop'
  BY <1>2, <1>7, <1>16 DEF Loop, At
<1>17. CASE wk.step = "OP_COND"
  <2>1. wk.cmds \in Opens /\ SOpCond
    BY <1>2, <1>3, <1>17 DEF Sends, Sendable, SPlace
  <2>2. CASE wk.cmds = <<"CMD55", "CMD41">>
    <3>1. Kind[slot] # "MMC"
      BY <2>1 DEF SOpCond, Modern
    <3>2. wk'.at = "WAIT" /\ cd'.mode = cd.mode
      BY <1>14, <2>1, <2>2, <3>1 DEF SOpCond
    <3>3. SOpCond'
      BY <1>5, <1>9, <1>16, <2>1, <3>2 DEF SOpCond, Found, At
    <3>4. QED  BY <1>5, <1>17, <3>3 DEF SInit, SPlace, At
  <2>3. CASE wk.cmds = <<"CMD41">>
    <3>1. SOpCond'
      BY <1>5, <1>9, <1>15, <1>16, <2>1, <2>3 DEF SOpCond, Found, At
    <3>2. QED  BY <1>5, <1>17, <3>1 DEF SInit, SPlace, At
  <2>4. QED  BY <2>1, <2>2, <2>3 DEF Opens
<1>18. <<"CMD55", "CMD41">> # <<"CMD41">> /\ <<"CMD55", "CMD41">> # <<"CMD1">> /\ <<"CMD41">> # <<"CMD1">>
  BY OneHead, TwoHeads
<1>19. CASE wk.step = "SDC"
  <2>1. wk.cmds \in Opens /\ wk.arg = 0 /\ SSdc
    BY <1>2, <1>3, <1>19 DEF Sends, Sendable, SPlace
  <2>2. CASE wk.cmds = <<"CMD55", "CMD41">>
    <3>1. SSdc'
      BY <1>5, <1>9, <1>14, <1>18, <2>1, <2>2 DEF SSdc, At
    <3>2. QED  BY <1>5, <1>19, <3>1 DEF SInit, SPlace, At
  <2>3. CASE wk.cmds = <<"CMD41">>
    <3>1. SSdc'
      BY <1>5, <1>9, <1>10, <1>15, <2>1, <2>3 DEF SSdc, At
    <3>2. QED  BY <1>5, <1>19, <3>1 DEF SInit, SPlace, At
  <2>4. QED  BY <2>1, <2>2, <2>3 DEF Opens
<1>20. CASE wk.step = "LEAVE"
  <2>1. wk.cmds \in Opens \union {<<"CMD1">>} /\ wk.arg = 0 /\ SLeave
    BY <1>2, <1>3, <1>20 DEF Sends, Sendable, SPlace
  <2>2. CASE wk.cmds = <<"CMD55", "CMD41">>
    <3>1. Kind[slot] # "MMC"
      BY <1>18, <2>1, <2>2 DEF SLeave
    <3>2. wk'.at = "WAIT" /\ cd'.mode = cd.mode
      BY <1>14, <2>1, <2>2, <3>1 DEF SLeave
    <3>3. SLeave'
      BY <1>5, <1>9, <1>16, <2>1, <3>1, <3>2 DEF SLeave, Found, At
    <3>4. QED  BY <1>5, <1>20, <3>3 DEF SInit, SPlace, At
  <2>3. CASE wk.cmds \in {<<"CMD41">>, <<"CMD1">>}
    <3>1. SLeave'
      BY <1>5, <1>6, <1>9, <1>10, <1>15, <1>16, <2>1, <2>3 DEF SLeave, Found, At
    <3>2. QED  BY <1>5, <1>20, <3>1 DEF SInit, SPlace, At
  <2>4. QED  BY <2>1, <2>2, <2>3 DEF Opens
<1>21. CASE wk.step \in {"OCR", "BLOCKLEN"}
  <2>1. Head(wk.cmds) \in {"CMD58", "CMD16"} /\ ~(Len(wk.cmds) > 1) /\ cd.mode = "ready"
    BY <1>2, <1>3, <1>21, OneHead DEF Sends, Sendable, SPlace, SLast
  <2>2. a \in Ordinary(Head(wk.cmds), wk.arg) /\ cd'.mode = "ready"
    BY <1>11, <2>1
  <2>3. a.r = "ready"
    BY <1>1, <2>1, <2>2, ReadyAnswers
  <2>4. SLast'
    BY <1>4, <2>1, <2>2, <2>3 DEF SLast, At
  <2>5. QED  BY <1>5, <1>21, <2>4 DEF SInit, SPlace, At
<1>22. QED  BY <1>3, <1>12, <1>13, <1>17, <1>19, <1>20, <1>21 DEF SPlace

\* It goes on after an answer, within the time that Timer1 leaves it.
LEMMA InitFollows ==
  ASSUME IInv, DInv, AInv, SInv, Well, Good, call.op = "init", InitOnly
  PROVE  SInit'
<1>1. IsWk(wk) /\ IsTimer(timer) /\ SInit /\ wk.at = "REPLIED" /\ UNCHANGED <<slot, bad, cd, call, past>>
  BY InitNext DEF IInv, InvShape, AInv, InvClock, SInv
<1>2. wk.at # "REST" /\ Sends(wk) /\ SPlace
  BY <1>1, InitActions DEF Driver, InitOnly, SInit, At
<1>3. InitTime \in Nat /\ InitTime >= 3
  BY TimesAssumption
<1>4. (First \/ Loop) => TimeLeft
  BY <1>3 DEF First, Loop, TimeLeft
<1>5. ~GivesUp
  <2>1. CASE wk.step = "GO_IDLE"
    BY <1>1, <1>2, <2>1 DEF GivesUp, SPlace, SGoIdle, At
  <2>2. CASE wk.step \in {"IF_COND", "SDC"}
    BY <1>2, <1>4, <2>2 DEF GivesUp, SPlace, SIfCond, SSdc
  <2>3. CASE wk.step \in {"OP_COND", "LEAVE"}
    BY <1>2, <1>4, <2>3 DEF GivesUp, SPlace, SOpCond, SLeave
  <2>4. CASE wk.step \in {"OCR", "BLOCKLEN"}
    BY <1>1, <1>2, <2>4 DEF GivesUp, SPlace, SLast, At
  <2>5. QED  BY <2>1, <2>2, <2>3, <2>4 DEF GivesUp
<1>6. CASE \E ty \in {1, 2, 4, 12} : Finish(ty)
  BY <1>6, FinishFacts DEF SInit, At
<1>7. CASE /\ wk'.at = "WAIT" /\ Follows
           /\ wk.step = "GO_IDLE" => timer'[1] = InitTime
           /\ wk.step # "GO_IDLE" => timer'[1] = timer[1]
           /\ wk.step = "IF_COND" /\ wk'.step = "SDC" => fresh' = fresh \union {2}
           /\ wk'.step = "LEAVE" => wk'.cmds = IF wk'.ty = 2 THEN AppOpCond ELSE <<"CMD1">>
  <2>1. wk'.at = "WAIT" /\ (Modern' <=> Modern)
    BY <1>1, <1>7 DEF Modern
  <2> SUFFICES SPlace'
    BY <2>1 DEF SInit, At
  <2>2. CASE Goes("GO_IDLE", "IF_COND")
    <3>1. SIfCond'
      BY <1>1, <1>2, <1>7, <2>1, <2>2 DEF Goes, SPlace, SGoIdle, SIfCond, First, At
    <3>2. QED  BY <2>2, <3>1 DEF Goes, SPlace
  <2>3. CASE Goes("IF_COND", "SDC") /\ wk.r # "idle" /\ wk'.cmds = AppOpCond
    <3>1. SIfCond /\ ~Modern
      BY <1>1, <1>2, <2>3 DEF Goes, SPlace, SIfCond, At
    <3>2. AppOpCond # <<"CMD41">>
      BY OneHead, TwoHeads DEF AppOpCond
    <3>3. First'
      BY <1>7, <2>3, <3>1 DEF Goes, SIfCond, First
    <3>4. SSdc'
      BY <1>1, <2>1, <2>3, <3>1, <3>2, <3>3 DEF SIfCond, SSdc, At
    <3>5. QED  BY <2>3, <3>4 DEF Goes, SPlace
  <2>4. CASE \/ Goes("IF_COND", "OP_COND") /\ wk.r = "idle" /\ wk'.arg = Hcs
             \/ Goes("OP_COND", "OP_COND") /\ wk.r # "ready" /\ wk'.arg = Hcs
    <3>1. cd.mode # "native" /\ Modern /\ (timer[1] = InitTime \/ timer[1] = InitTime - 1)
      BY <1>1, <1>2, <2>4 DEF Goes, SPlace, SIfCond, SOpCond, First, Loop, At
    <3>2. Loop' /\ Found'
      BY <1>7, <2>1, <2>4, <3>1 DEF Goes, Loop, Found, At
    <3>3. SOpCond'
      BY <1>1, <2>1, <2>4, <3>1, <3>2 DEF SOpCond
    <3>4. QED  BY <2>4, <3>3 DEF Goes, SPlace
  <2>5. CASE (Goes("OP_COND", "OCR") \/ Goes("LEAVE", "BLOCKLEN")) /\ wk.r = "ready"
    <3>1. SLast'
      BY <1>1, <1>2, <2>1, <2>5 DEF Goes, SPlace, SOpCond, SLeave, Found, SLast, At
    <3>2. QED  BY <2>5, <3>1 DEF Goes, SPlace
  <2>6. AppOpCond # <<"CMD1">>
    BY OneHead, TwoHeads DEF AppOpCond
  <2>7. CASE Goes("SDC", "LEAVE") /\ wk'.ty = IF wk.r \in {"ready", "idle"} THEN 2 ELSE 1
    <3>1. SSdc
      BY <1>2, <2>7 DEF Goes, SPlace
    <3>2. Loop' /\ Found'
      BY <1>7, <2>1, <2>7, <3>1 DEF Goes, SSdc, First, Loop, Found, At
    <3>3. wk'.ty = 2 \/ wk'.cmds # <<"CMD1">> => Kind[slot] # "MMC"
      BY <1>1, <1>7, <2>7, <3>1 DEF Goes, SSdc, At
    <3>4. SLeave'
      BY <1>1, <2>1, <3>1, <3>2, <3>3 DEF SSdc, SLeave
    <3>5. QED  BY <2>7, <3>4 DEF Goes, SPlace
  <2>8. CASE Goes("LEAVE", "LEAVE") /\ wk.r # "ready" /\ wk'.ty = wk.ty
    <3>1. SLeave
      BY <1>2, <2>8 DEF Goes, SPlace
    <3>2. Loop' /\ Found'
      BY <1>1, <1>7, <2>1, <2>8, <3>1 DEF Goes, SLeave, Loop, Found, At
    <3>3. wk'.ty = 2 \/ wk'.cmds # <<"CMD1">> => Kind[slot] # "MMC"
      BY <1>7, <2>8, <3>1 DEF Goes, SLeave
    <3>4. SLeave'
      BY <1>1, <2>1, <3>1, <3>2, <3>3 DEF SLeave
    <3>5. QED  BY <2>8, <3>4 DEF Goes, SPlace
  <2>9. QED  BY <1>7, <2>2, <2>3, <2>4, <2>5, <2>7, <2>8 DEF Follows
<1>8. \/ wk.step = "OCR" /\ Finish(Capacity)
      \/ wk.step = "BLOCKLEN" /\ Finish(wk.ty)
      \/ /\ wk'.at = "WAIT" /\ Follows
         /\ wk.step = "GO_IDLE" => timer'[1] = InitTime
         /\ wk.step # "GO_IDLE" => timer'[1] = timer[1]
         /\ wk.step = "IF_COND" /\ wk'.step = "SDC" => fresh' = fresh \union {2}
         /\ wk'.step = "LEAVE" => wk'.cmds = IF wk'.ty = 2 THEN AppOpCond ELSE <<"CMD1">>
  BY <1>1, <1>5, InitNext
<1>9. Capacity \in {4, 12} /\ (wk.step = "BLOCKLEN" => wk.ty \in {1, 2})
  BY <1>2 DEF Capacity, Sends, Sendable
<1>10. QED  BY <1>6, <1>7, <1>8, <1>9

\* A card that works is found.
LEMMA InitServes ==
  ASSUME IInv, DInv, AInv, HInv, SInv, Driver
  PROVE  SInit'
<1>1. call' = call
  BY DriverFrame
<1>2. past'.sound /\ past'.closed => Well /\ Good
  BY SoundAfter, PastFacts DEF HInv, DInv, InvCall, Well
<1> SUFFICES ASSUME Well, Good, call.op = "init" PROVE SInit'
  BY <1>1, <1>2 DEF SInit, Well
<1>3. ReadByte \/ Test \/ Exchange \/ InitOnly \/ PowerOff
  BY InitActions
<1>4. ~PowerOff
  <2>1. wk.at # "REST"
    BY DriverFrame
  <2>2. QED  BY <2>1 DEF SInv, SInit, PowerOff, At
<1>5. QED  BY <1>1, <1>3, <1>4, InitWaits, InitAsks, InitFollows

\* What a call other than disk_initialize sends, and where it takes the answer
LEMMA AskPlaces ==
  ASSUME IInv, DInv, AInv, call.op # "init", wk.at \in {"SEND", "REPLIED"}
  PROVE  \/ call.op = "read" /\ wk.step = "STOPPED" /\ wk.cmds = <<"CMD12">>
         \/ /\ call.op = "read" /\ wk.step = "READ" /\ wk.arg = Address(call.sector)
            /\ wk.cmds = IF call.count = 1 THEN <<"CMD17">> ELSE <<"CMD18">>
         \/ call.op = "write" /\ wk.step = "ERASE"
         \/ /\ call.op = "write" /\ wk.step = "WRITE" /\ wk.arg = Address(call.sector)
            /\ wk.cmds = IF call.count = 1 THEN <<"CMD24">> ELSE <<"CMD25">>
         \/ call.op = "poll" /\ wk.step = "POLL" /\ wk.cmds = <<"CMD58">>
         \/ call.op = "ioctl" /\ wk.step = "REGISTER" /\ wk.cmds \in Questions
<1>1. CASE call.op = "read"
  BY <1>1 DEF DInv, InvRead, RCommand, RBlocks, RStop
<1>2. CASE call.op = "write"
  BY <1>2 DEF DInv, InvWrite, WErase, WCommand, WData, WStop
<1>3. CASE call.op \in {"none", "poll", "ioctl"}
  BY <1>3 DEF AInv, InvAsk, APoll, ALock, ARegister
<1>4. QED  BY <1>1, <1>2, <1>3 DEF AInv, InvAsk

\* Where it moves a block
LEMMA BlockPlaces ==
  ASSUME DInv, AInv, call.op # "init"
  PROVE  /\ Coming => /\ call.op \in {"read", "ioctl"}
                      /\ call.op = "read" => RBlocks
                      /\ call.op = "ioctl" => wk.step = "REGISTER"
         /\ wk.at = "DATA" => call.op = "write" /\ WData
         /\ wk.at = "STOP" => call.op = "write" /\ WStop
<1>1. CASE call.op = "read"
  BY <1>1 DEF DInv, InvRead, RCommand, RBlocks, RStop, Asking, Coming
<1>2. CASE call.op = "write"
  BY <1>2 DEF DInv, InvWrite, WErase, WCommand, WData, WStop, Asking, Coming
<1>3. CASE call.op \in {"none", "poll", "ioctl"}
  BY <1>3 DEF AInv, InvAsk, APoll, ALock, ARegister, Asking, Coming
<1>4. QED  BY <1>1, <1>2, <1>3 DEF AInv, InvAsk

\* What makes a card usable at the next step made it so at this one.
LEMMA UsableBefore ==
  ASSUME IInv, DInv, AInv, HInv, SInv, call.op # "init", Driver, Usable'
  PROVE  /\ Usable /\ Good /\ Good' /\ past'.sound /\ slot \in Cards /\ slot = past.card
         /\ UNCHANGED <<slot, CardType, noinit, call>> /\ cd'.mode = "ready"
         /\ (Wanted' => Wanted) /\ (Known' => Known)
<1>1. /\ call' = call /\ CardType' = CardType /\ (noinit' = noinit \/ noinit' = TRUE)
      /\ (slot' = slot /\ cd'.mode = cd.mode) \/ cd'.mode = "native"
  BY OtherFrame
<1>2. past'.sound /\ past'.closed /\ ~noinit' /\ cd'.mode = "ready"
  BY DEF Usable, Well
<1>3. past.sound /\ Good' /\ Good /\ past.closed
  BY <1>2, SoundAfter, PastFacts DEF HInv, DInv, InvCall
<1>4. Usable /\ UNCHANGED <<slot, CardType, noinit, call>>
  BY <1>1, <1>2, <1>3 DEF Usable, Well
<1>5. slot \in Cards /\ slot = past.card
  BY <1>4, UsableFacts DEF SInv
<1>6. QED  BY <1>2, <1>3, <1>4, <1>5 DEF Wanted, Known, Moving, Asked

\* The address of the first block stands for a place on the card.
LEMMA FirstOnCard ==
  ASSUME IInv, DInv, InvSlot, HInv, Usable, Wanted, Moving, wk.at # "REST", wk.arg = Address(call.sector)
  PROVE  OnCard(wk.arg)
<1>1. slot \in Cards /\ slot # NoCard /\ cd.mode = "ready" /\ ~noinit /\ call.op # "init"
  BY UsableFacts DEF Usable, Moving
<1>2. call.sector \in Nat /\ call.count \in Nat \ {0}
  BY MovingFacts DEF DInv
<1>3. call.sector < NBlocks
  <2>1. call.sector \in Asked
    BY <1>2 DEF Asked
  <2>2. QED  BY <1>2, <2>1, SizeAssumption DEF Wanted
<1>4. OnCard(Unit(slot, call.sector, 0)) /\ (Kind[slot] # "SDHC" => call.sector * BlockLen < AddrMod)
  BY <1>1, <1>2, <1>3, PlaceOnCard
<1>5. (CardType \in 8 .. 15) = (Kind[slot] = "SDHC")
  BY <1>1 DEF IInv, TypeMatches, DInv, InvCall
<1>6. CASE Kind[slot] = "SDHC"
  BY <1>2, <1>4, <1>5, <1>6 DEF Address, Unit
<1>7. CASE Kind[slot] # "SDHC"
  <2>1. wk.arg = (call.sector * BlockLen) % AddrMod
    BY <1>5, <1>7 DEF Address
  <2>2. \A x \in Nat : x < AddrMod => x % AddrMod = x
    BY BlocksAssumption
  <2>3. call.sector * BlockLen \in Nat
    BY <1>2, BlocksAssumption
  <2>4. wk.arg = call.sector * BlockLen
    BY <1>4, <1>7, <2>1, <2>2, <2>3
  <2>5. QED  BY <1>2, <1>4, <1>7, <2>4 DEF Unit
<1>8. QED  BY <1>6, <1>7

\* Where a call ends, or goes on to wait with a command, it has only to answer OK.
LEMMA ServedAfter ==
  ASSUME \/ wk'.at = "REST" /\ answer' = "OK"
         \/ /\ wk'.at = "WAIT" /\ wk'.step # "DATA"
            /\ wk'.step \in {"STOPPED", "STOP"} => wk'.left = 0
  PROVE  Served'
  BY DEF Served, SReply, SRun, STime, SLeft, SSync, SEnd, Underway, Coming, At

\* A card that works is waited for.
LEMMA WaitsServed ==
  ASSUME IInv, DInv, AInv, HInv, Usable, Served, call.op # "init", call' = call, ReadByte \/ Test
  PROVE  Served'
<1>1. IsWk(wk)
  BY DEF IInv, InvShape
<1>2. CASE ReadByte
  <2>1. /\ wk.at = "WAIT" /\ wk'.at = "TEST" /\ wk'.step = wk.step /\ wk'.left = wk.left
        /\ UNCHANGED <<cd, answer>>
    BY <1>1, <1>2, ReadByteFacts
  <2>2. Running' = Running /\ (Underway' => Underway)
    BY <2>1 DEF Running, Underway, Coming, At
  <2>3. QED  BY <2>1, <2>2 DEF Served, SReply, SRun, STime, SLeft, SSync, SEnd, At
<1>3. CASE Test
  <2>1. /\ wk.at = "TEST" /\ wk'.step = wk.step /\ wk'.left = wk.left /\ UNCHANGED <<cd, answer>>
    BY <1>1, <1>3, TestFacts
  <2>2. ~wk.ff => timer[2] > 0
    BY <2>1, TimesAssumption DEF HInv, InvTimer, Usable, Well, At
  <2>3. \/ wk'.at \in {"WAIT", "SEND"}
        \/ wk'.at = wk.step /\ wk'.r = "ready" /\ wk.step \in {"DATA", "STOP", "OFF", "SYNC"}
    BY <1>1, <1>3, <2>1, <2>2, TestFacts, TestPlaces
  <2>4. Running' = Running /\ (Underway' => Underway)
    BY <2>1, <2>3 DEF Running, Underway, Coming, At
  <2>5. QED  BY <2>1, <2>3, <2>4 DEF Served, SReply, SRun, STime, SLeft, SSync, SEnd, At
<1>4. QED  BY <1>2, <1>3

\* What a card that can be used is sent is not one of the commands that change
\* its mode, and is listened to.
LEMMA AskedOrdinary ==
  ASSUME IInv, DInv, AInv, HInv, InvSlot, Usable, call.op # "init", wk.at = "SEND",
         wk.cmds # <<"CMD12">>, NEW a \in Answers(Head(wk.cmds), wk.arg)
  PROVE  a \in Ordinary(Head(wk.cmds), wk.arg) /\ a.cd.mode = "ready"
<1>1. Good /\ IsCd(cd) /\ cd.mode = "ready"
  BY UsableFacts DEF Usable
<1>2. cd.op \notin {"reads", "writes"}
  BY HeardHolds DEF Heard, Usable, Well, At
<1>3. Head(wk.cmds) \notin Changing
  BY OtherHeads DEF IInv, InvOther, Quiet
<1>4. QED  BY <1>1, <1>2, <1>3, GoodAnswers, OrdinaryMode DEF Changing

\* What is asked of a card that can be used is answered, and what is begun runs.
LEMMA AskServes ==
  ASSUME IInv, DInv, AInv, HInv, SInv, Usable, Wanted, Known, Served, call.op # "init", Exchange
  PROVE  Served'
<1>1. IsWk(wk) /\ IsCd(cd) /\ wk.at = "SEND" /\ InvSlot /\ cd.mode = "ready" /\ slot \in Cards
  BY ExchangeFacts, UsableFacts DEF IInv, InvShape, SInv, Usable
<1>2. wk'.step = wk.step /\ wk'.left = wk.left /\ wk'.arg = wk.arg /\ call' = call
  BY <1>1, ExchangeFacts
<1>3. PICK a \in Answers(Head(wk.cmds), wk.arg) :
        /\ cd' = a.cd
        /\ \/ Len(wk.cmds) > 1 /\ a.r # "error" /\ wk'.at = "WAIT"
           \/ /\ wk'.at = "REPLIED" /\ wk'.cmds = wk.cmds /\ wk'.r = a.r
              /\ Len(wk.cmds) > 1 => a.r = "error"
  BY <1>1, ExchangeFacts
<1>4. wk.step \in {"STOPPED", "STOP"} => wk.left = 0
  BY <1>1 DEF Served, SLeft, At
<1>5. Running' = Running
  BY <1>2 DEF Running
<1>6. ASSUME wk'.at = "REPLIED", wk.step \in {"STOPPED", "ERASE"} PROVE Served'
  BY <1>2, <1>4, <1>6 DEF Served, SReply, SRun, STime, SLeft, SSync, SEnd, Underway, Coming, At
<1>7. ASSUME wk'.at = "REPLIED", wk.step \in {"POLL", "REGISTER"}, wk.cmds = <<"CMD58">>, wk'.r = "ready"
      PROVE  Served'
  BY <1>2, <1>3, <1>7 DEF Served, SReply, SRun, STime, SLeft, SSync, SEnd, Underway, Coming, At
<1>8. ASSUME wk'.at = "REPLIED", wk.step \in {"READ", "WRITE", "REGISTER"}, wk'.r = "ready",
             cd'.op = Running, cd'.token = "none"
      PROVE  Served'
  BY <1>2, <1>5, <1>8 DEF Served, SReply, SRun, STime, SLeft, SSync, SEnd, At
<1>9. ASSUME wk'.at = "WAIT", wk.step # "DATA" PROVE Served'
  <2>1. /\ wk'.at = "WAIT" /\ wk'.step # "DATA" /\ (wk'.step \in {"STOPPED", "STOP"} => wk'.left = 0)
    BY <1>2, <1>4, <1>9
  <2>2. QED  BY <2>1, ServedAfter
<1>10. wk.step # "DATA"
  BY <1>1, AskPlaces
<1> SUFFICES ASSUME wk'.at = "REPLIED" PROVE Served'
  BY <1>3, <1>9, <1>10
<1>11. CASE wk.step \in {"STOPPED", "ERASE"}
  BY <1>6, <1>11
<1>12. CASE wk.step \notin {"STOPPED", "ERASE"}
  <2>1. wk.cmds # <<"CMD12">>
    <3>1. <<"CMD12">> \notin {<<"CMD17">>, <<"CMD18">>, <<"CMD24">>, <<"CMD25">>, <<"CMD58">>}
      BY OneHead
    <3>2. <<"CMD12">> \notin Questions
      BY OneHead, QuestionHeads
    <3>3. QED  BY <1>1, <1>12, <3>1, <3>2, AskPlaces
  <2>2. a \in Ordinary(Head(wk.cmds), wk.arg)
    BY <1>1, <2>1, AskedOrdinary
  <2>3. /\ Head(wk.cmds) = "CMD58" => a.r = "ready"
        /\ Head(wk.cmds) = "CMD55" /\ Kind[slot] # "MMC" => a.r = "ready"
        /\ Head(wk.cmds) \in Starting /\ OnCard(wk.arg) =>
             a.r = "ready" /\ a.cd.op = Starts(Head(wk.cmds)) /\ a.cd.token = "none"
    BY <1>1, <2>2, ReadyAnswers
  <2>4. ASSUME Head(wk.cmds) \in Starting, OnCard(wk.arg), Starts(Head(wk.cmds)) = Running,
               wk.step \in {"READ", "WRITE", "REGISTER"}
        PROVE  Served'
    BY <1>3, <1>8, <2>3, <2>4
  <2>5. CASE call.op = "read" /\ wk.step = "READ"
    <3>1. wk.arg = Address(call.sector) /\ wk.cmds = IF call.count = 1 THEN <<"CMD17">> ELSE <<"CMD18">>
      BY <1>1, <2>5, AskPlaces
    <3>2. Head(wk.cmds) = IF call.count = 1 THEN "CMD17" ELSE "CMD18"
      BY <3>1, OneHead
    <3>3. OnCard(wk.arg)
      BY <1>1, <2>5, <3>1, FirstOnCard DEF Moving
    <3>4. QED  BY <2>4, <2>5, <3>2, <3>3 DEF Starting, Starts, Running
  <2>6. CASE call.op = "write" /\ wk.step = "WRITE"
    <3>1. wk.arg = Address(call.sector) /\ wk.cmds = IF call.count = 1 THEN <<"CMD24">> ELSE <<"CMD25">>
      BY <1>1, <2>6, AskPlaces
    <3>2. Head(wk.cmds) = IF call.count = 1 THEN "CMD24" ELSE "CMD25"
      BY <3>1, OneHead
    <3>3. OnCard(wk.arg)
      BY <1>1, <2>6, <3>1, FirstOnCard DEF Moving
    <3>4. QED  BY <2>4, <2>6, <3>2, <3>3 DEF Starting, Starts, Running
  <2>7. CASE wk.step = "POLL"
    <3>1. wk.cmds = <<"CMD58">>
      BY <1>1, <2>7, AskPlaces
    <3>2. QED  BY <1>3, <1>7, <2>3, <2>7, <3>1, OneHead
  <2>8. CASE call.op = "ioctl" /\ wk.step = "REGISTER"
    <3>1. wk.cmds \in Questions /\ wk.arg = 0
      BY <1>1, <2>8, AskPlaces DEF SInv, InvRegister
    <3>2. CASE wk.cmds = <<"CMD58">>
      BY <1>3, <1>7, <2>3, <2>8, <3>2, OneHead
    <3>3. CASE wk.cmds = <<"CMD55", "CMD13">>
      <4>1. Kind[slot] # "MMC"
        <5>1. <<"CMD55", "CMD13">> \notin {<<"CMD9">>, <<"CMD10">>, <<"CMD58">>}
          BY OneHead, TwoHeads
        <5>2. QED  BY <1>1, <2>8, <3>3, <5>1 DEF SInv, InvRegister
      <4>2. Head(wk.cmds) = "CMD55" /\ Len(wk.cmds) > 1
        BY <3>3
      <4>3. QED  BY <1>3, <2>3, <4>1, <4>2
    <3>4. CASE wk.cmds \in {<<"CMD9">>, <<"CMD10">>, <<"CMD13">>}
      <4>1. Head(wk.cmds) \in {"CMD9", "CMD10", "CMD13"}
        BY <3>4, OneHead
      <4>2. 0 % BlockLen = 0 /\ 0 \div BlockLen = 0 /\ 0 < NBlocks
        BY BlocksAssumption, SizeAssumption
      <4>3. OnCard(wk.arg)
        BY <3>1, <4>2 DEF OnCard, Block
      <4>4. QED  BY <2>4, <2>8, <4>1, <4>3 DEF Starting, Starts, Running
    <3>5. QED  BY <3>1, <3>2, <3>3, <3>4 DEF Questions
  <2>9. QED  BY <1>1, <1>12, <2>5, <2>6, <2>7, <2>8, AskPlaces
<1>13. QED  BY <1>11, <1>12

\* What follows the answer to a command
LEMMA RepliesServed ==
  ASSUME IInv, DInv, AInv, HInv, SInv, Usable, Served, call.op # "init", call' = call,
         Polled \/ ReadOpened \/ Stopped \/ Erased \/ WriteOpened \/ Registered
  PROVE  Served'
<1>1. IsWk(wk) /\ IsTimer(timer) /\ wk.at = "REPLIED"
  BY DEF IInv, InvShape, AInv, InvClock, Polled, ReadOpened, Stopped, Erased, WriteOpened, Registered, Step, At
<1>2. cd' = cd /\ Running' = Running
  BY DEF Polled, ReadOpened, Stopped, Erased, WriteOpened, Registered, card, Running
<1>3. ASSUME Return("OK") PROVE Served'
  <2>1. wk'.at = "REST" /\ answer' = "OK"
    BY <1>3, ReturnFacts DEF Return
  <2>2. QED  BY <2>1, ServedAfter
<1>4. wk.step \in {"POLL", "READ", "WRITE", "REGISTER"} => wk.r = "ready"
  BY <1>1 DEF Served, SReply, At
<1>5. ASSUME wk.step \in {"READ", "REGISTER"}, wk.cmds # <<"CMD58">>, Receive(wk)
      PROVE  Served'
  <2>1. wk'.at = "TOKEN" /\ wk'.step = wk.step
    BY <1>1, <1>5, ReceiveFacts
  <2>2. timer'[1] = TokenTime
    BY <1>1, <1>5 DEF Receive, Set, IsTimer
  <2>3. Underway
    BY <1>1, <1>5 DEF Underway, At
  <2>4. QED
    BY <1>2, <1>5, <2>1, <2>2, <2>3 DEF Served, SReply, SRun, STime, SLeft, SSync, SEnd, At
<1>6. wk.step \in {"READ", "WRITE"} => wk.cmds # <<"CMD58">>
  <2>1. <<"CMD58">> \notin {<<"CMD17">>, <<"CMD18">>, <<"CMD24">>, <<"CMD25">>}
    BY OneHead
  <2>2. QED  BY <1>1, <2>1, AskPlaces
<1>7. CASE Polled
  BY <1>3, <1>4, <1>7 DEF Polled, Step
<1>8. CASE ReadOpened
  BY <1>4, <1>5, <1>6, <1>8 DEF ReadOpened, Step
<1>9. CASE Stopped
  BY <1>1, <1>3, <1>9 DEF Stopped, Step, Served, SLeft, At
<1>10. CASE Erased
  <2>1. wk'.at = "WAIT" /\ wk'.step = "WRITE"
    BY <1>1, <1>10, CommandFacts DEF Erased
  <2>2. QED  BY <2>1, ServedAfter
<1>11. CASE WriteOpened
  <2>1. wk'.at = "WAIT" /\ wk'.step = "DATA"
    BY <1>1, <1>4, <1>11, TransmitFacts DEF WriteOpened, Step
  <2>2. Underway
    BY <1>1, <1>6, <1>11 DEF Underway, WriteOpened, Step, At
  <2>3. QED  BY <1>2, <2>1, <2>2 DEF Served, SReply, SRun, STime, SLeft, SSync, SEnd, At
<1>12. CASE Registered
  <2>1. call.op = "ioctl" /\ wk.step = "REGISTER"
    BY <1>1, <1>12, AskPlaces DEF Registered, Step
  <2>2. (call.ctrl = "MMC_GET_OCR") = (wk.cmds = <<"CMD58">>)
    BY <1>1, <2>1 DEF SInv, InvRegister
  <2>3. QED  BY <1>3, <1>4, <1>5, <1>12, <2>1, <2>2 DEF Registered
<1>13. QED  BY <1>7, <1>8, <1>9, <1>10, <1>11, <1>12

\* The token of a block comes in time.
LEMMA TokenServes ==
  ASSUME IInv, DInv, AInv, HInv, SInv, Usable, Served, call.op # "init", call' = call, ReadToken \/ TokenTest
  PROVE  Served'
<1>1. /\ IsWk(wk) /\ IsTimer(timer) /\ slot # NoCard /\ Coming /\ cd' = cd
      /\ wk.at \in {"TOKEN", "TOKENTEST"}
  BY UsableFacts DEF SInv, IInv, InvShape, AInv, InvClock, Coming, ReadToken, TokenTest, At, card
<1>2. Underway /\ cd.op = Running /\ cd.token \in {"none", "data"} /\ Running' = Running
  BY <1>1 DEF Underway, Served, SRun, Running
<1>3. wk.step \notin {"STOPPED", "STOP"}
  BY <1>1, BlockPlaces DEF RBlocks
<1>4. ASSUME wk'.at \in {"TOKEN", "TOKENTEST", "BLOCK"}, wk'.step = wk.step, STime' PROVE Served'
  BY <1>1, <1>2, <1>3, <1>4 DEF Served, SReply, SRun, SLeft, SSync, SEnd, At
<1>5. CASE ReadToken
  <2>1. Reading
    BY <1>1, <1>2, BlockPlaces DEF Reading, Sending, Running
  <2>2. wk' = [wk EXCEPT !.at = "TOKENTEST", !.r = cd.token] /\ UNCHANGED <<timer, fresh>>
    BY <1>5, <2>1 DEF ReadToken
  <2>3. wk'.at = "TOKENTEST" /\ wk'.step = wk.step /\ wk'.r = cd.token
    BY <1>1, <2>2 DEF IsWk, WkFields
  <2>4. STime'
    BY <1>1, <1>2, <1>5, <2>2, <2>3 DEF Served, STime, ReadToken, At
  <2>5. QED  BY <1>4, <2>3, <2>4
<1>6. CASE TokenTest
  <2>1. \/ wk.r = "data" /\ cd.token = "data"
        \/ wk.r = "none" /\ timer[1] = TokenTime
        \/ wk.r = "none" /\ timer[1] = TokenTime - 1 /\ 1 \notin fresh /\ cd.token = "data"
    BY <1>6 DEF Served, STime, TokenTest, At
  <2>2. TokenTime \in Nat /\ TokenTime >= 2
    BY TimesAssumption
  <2>3. CASE wk.r = "data"
    <3>1. wk' = [wk EXCEPT !.at = "BLOCK"] /\ cd.token = "data"
      BY <1>6, <2>1, <2>3 DEF TokenTest
    <3>2. wk'.at = "BLOCK" /\ wk'.step = wk.step
      BY <1>1, <3>1 DEF IsWk, WkFields
    <3>3. STime'
      BY <1>1, <3>1, <3>2 DEF STime, At
    <3>4. QED  BY <1>4, <3>2, <3>3
  <2>4. CASE wk.r # "data"
    <3>1. wk.r = "none" /\ timer[1] > 0 /\ (cd.token = "none" => timer[1] = TokenTime)
      BY <2>1, <2>2, <2>4
    <3>2. wk' = [wk EXCEPT !.at = "TOKEN"] /\ timer' = timer
      BY <1>6, <3>1 DEF TokenTest
    <3>3. wk'.at = "TOKEN" /\ wk'.step = wk.step
      BY <1>1, <3>2 DEF IsWk, WkFields
    <3>4. STime'
      BY <1>1, <3>1, <3>2, <3>3 DEF STime, At
    <3>5. QED  BY <1>4, <3>3, <3>4
  <2>5. QED  BY <2>3, <2>4
<1>7. QED  BY <1>5, <1>6

\* A block is taken, and the next one will come, or it was the last.
LEMMA TakeServes ==
  ASSUME IInv, DInv, AInv, HInv, SInv, Usable, Served, call.op # "init", call' = call, slot' = slot,
         past'.sound, TakeBlock
  PROVE  Served'
<1>1. /\ IsWk(wk) /\ IsCd(cd) /\ IsTimer(timer) /\ slot # NoCard /\ wk.at = "BLOCK" /\ call.op = "read"
      /\ IsPast(past)
  BY UsableFacts DEF SInv, IInv, InvShape, AInv, InvClock, TakeBlock, At, DInv, InvCall
<1>2. /\ cd.op = (IF call.count = 1 THEN "read" ELSE "reads") /\ cd.token = "data"
      /\ Running' = Running
  BY <1>1 DEF Underway, Coming, Served, SRun, STime, Running, At
<1>3. RBlocks /\ call.count \in Nat \ {0}
  BY <1>1, BlockPlaces, MovingFacts DEF Coming, DInv, Moving
<1>4. Reading /\ cd' = Next1("read")
  <2>1. Reading
    BY <1>1, <1>2 DEF Reading, Sending
  <2>2. past' # [past EXCEPT !.sound = FALSE, !.torn = TRUE]
    BY <1>1 DEF IsPast, PastFields
  <2>3. QED  BY <2>1, <2>2 DEF TakeBlock
<1>5. CASE call.count = 1
  <2>1. wk'.at = "REST" /\ answer' = "OK"
    BY <1>1, <1>5, ReturnFacts DEF TakeBlock, Single, Return
  <2>2. QED  BY <2>1, ServedAfter
<1>6. CASE call.count # 1
  <2>1. ~Single
    BY <1>1, <1>6 DEF Single
  <2>2. cd' = [cd EXCEPT !.addr = Further, !.token = "none"]
    BY <1>2, <1>4, <1>6 DEF Next1
  <2>3. cd'.op = "reads" /\ cd'.token = "none"
    BY <1>1, <1>2, <1>6, <2>2 DEF IsCd, CdFields
  <2>4. CASE wk.left > 1
    <3> DEFINE w == [wk EXCEPT !.left = @ - 1]
    <3>1. IsWk(w) /\ w.step = wk.step
      BY <1>1 DEF IsWk, WkFields
    <3>2. Receive(w)
      BY <2>1, <2>4 DEF TakeBlock
    <3> HIDE DEF w
    <3>3. wk'.at = "TOKEN" /\ wk'.step = "READ"
      BY <1>3, <3>1, <3>2, ReceiveFacts DEF RBlocks
    <3>4. timer'[1] = TokenTime
      BY <1>1, <3>2 DEF Receive, Set, IsTimer
    <3>5. cd'.op = Running'
      BY <1>1, <1>2, <1>6, <2>3 DEF Running
    <3>6. QED  BY <2>3, <3>3, <3>4, <3>5 DEF Served, SReply, SRun, STime, SLeft, SSync, SEnd, At
  <2>5. CASE ~(wk.left > 1)
    <3> DEFINE w == [Packet("STOPPED", <<"CMD12">>, 0) EXCEPT !.left = 0]
    <3>1. IsWk(w) /\ w.step = "STOPPED" /\ w.left = 0
      BY <1>1 DEF Packet, IsWk, WkFields
    <3>2. Wait(w)
      BY <2>1, <2>5 DEF TakeBlock
    <3> HIDE DEF w
    <3>3. wk'.at = "WAIT" /\ wk'.step = "STOPPED" /\ wk'.left = 0
      BY <3>1, <3>2, WaitFacts
    <3>4. QED  BY <3>3, ServedAfter
  <2>6. QED  BY <2>4, <2>5
<1>7. QED  BY <1>5, <1>6

\* A block is sent, and the next one will be, or the stop token.
LEMMA SendServes ==
  ASSUME IInv, DInv, AInv, HInv, SInv, Usable, Wanted, Known, Served, call.op # "init", call' = call,
         past'.sound, SendBlock
  PROVE  Served'
<1>1. /\ IsWk(wk) /\ IsCd(cd) /\ slot # NoCard /\ ~bad /\ wk.at = "DATA" /\ IsPast(past)
  BY UsableFacts DEF SInv, IInv, InvShape, SendBlock, At, DInv, InvCall
<1>2. call.op = "write" /\ WData /\ call.count \in Nat \ {0} /\ wk.r = "ready"
  BY <1>1, BlockPlaces, MovingFacts DEF Moving, DInv, HInv, InvTimer, Usable, Well
<1>3. Underway
  BY <1>1, <1>2 DEF Underway, WData, At
<1>4. /\ OnCard(cd.addr) /\ cd.op = (IF call.count = 1 THEN "write" ELSE "writes")
      /\ Running' = Running
  BY <1>2, <1>3, RunsOnCard DEF Running
<1>5. Writing
  BY <1>1, <1>2, <1>4 DEF Writing
<1>6. slot' # NoCard
  <2>1. past' = [past EXCEPT !.sound = @ /\ slot' # NoCard]
    BY DEF SendBlock
  <2>2. past'.sound = (past.sound /\ slot' # NoCard)
    BY <1>1, <2>1 DEF IsPast, PastFields
  <2>3. QED  BY <2>2
<1>7. Programmed /\ ~Rejected
  BY <1>1, <1>4, <1>5, <1>6 DEF SendBlock, Rejected
<1>8. CASE call.count = 1
  <2>1. wk'.at = "REST" /\ answer' = "OK"
    BY <1>7, <1>8, ReturnFacts DEF SendBlock, Single, Return
  <2>2. QED  BY <2>1, ServedAfter
<1>9. CASE call.count # 1
  <2>1. Transmit(IF wk.left > 1 THEN "DATA" ELSE "STOP", wk.left - 1)
    BY <1>2, <1>7, <1>9 DEF SendBlock, Single
  <2>2. wk'.at = "WAIT" /\ wk'.step = (IF wk.left > 1 THEN "DATA" ELSE "STOP") /\ wk'.left = wk.left - 1
    BY <1>1, <2>1, TransmitFacts
  <2>3. cd' = [[cd EXCEPT !.addr = Further, !.token = "none"] EXCEPT !.busy = TRUE]
    BY <1>4, <1>7, <1>9 DEF Programmed, Next1
  <2>4. cd'.op = "writes" /\ cd'.token = "none"
    BY <1>1, <1>4, <1>9, <2>3 DEF IsCd, CdFields
  <2>5. cd'.op = Running'
    BY <1>2, <1>4, <1>9, <2>4 DEF Running
  <2>6. wk'.step = "STOP" => wk'.left = 0
    BY <1>2, <2>2 DEF WData
  <2>7. wk'.step # "STOPPED"
    BY <2>2
  <2>8. QED
    BY <2>2, <2>4, <2>5, <2>6, <2>7 DEF Served, SReply, SRun, STime, SLeft, SSync, SEnd, At
<1>10. QED  BY <1>8, <1>9

\* The other ends of a call
LEMMA EndsServed ==
  ASSUME IInv, DInv, AInv, HInv, SInv, Usable, Served, call.op # "init",
         SendStop \/ Synced \/ TakeRegister
  PROVE  Served'
<1>1. Return("OK")
  <2>1. CASE SendStop
    <3>1. wk.at = "STOP" /\ wk.r = "ready"
      BY <2>1 DEF SendStop, At, HInv, InvTimer, Usable, Well
    <3>2. wk.left = 0
      BY <3>1, BlockPlaces DEF WStop, Served, SLeft, At
    <3>3. QED  BY <2>1, <3>1, <3>2 DEF SendStop, Written
  <2>2. CASE Synced
    BY <2>2 DEF Synced, Served, SSync
  <2>3. CASE TakeRegister
    BY <2>3 DEF TakeRegister
  <2>4. QED  BY <2>1, <2>2, <2>3
<1>2. wk'.at = "REST" /\ answer' = "OK"
  BY <1>1, ReturnFacts DEF Return
<1>3. QED  BY <1>2, ServedAfter

\* disk_ioctl asks for a register of the card, which has a place of its own.
LEMMA RegisterServes ==
  ASSUME IInv, DInv, AInv, HInv, SInv, Driver
  PROVE  InvRegister'
<1>1. /\ call' = call /\ wk.at # "REST" /\ IsWk(wk) /\ IsCd(cd) /\ InvSlot
      /\ cd.op # "none" => cd.mode = "ready"
  BY DriverFrame DEF IInv, InvShape, SInv, DInv, InvSame
<1> SUFFICES ASSUME call.op = "ioctl", wk'.at # "REST", wk'.step = "REGISTER"
             PROVE  InvRegister'
  BY <1>1 DEF InvRegister
<1>2. ALock \/ ARegister
  BY <1>1 DEF AInv, InvAsk
<1>3. ReadByte \/ Test \/ Exchange \/ Registered \/ ReadToken \/ TokenTest
  <2>1. ~InitOnly
    BY OnlyInit
  <2>2. ~(Polled \/ ReadOpened \/ Stopped \/ Erased \/ WriteOpened \/ TakeBlock \/ SendBlock \/ SendStop)
    BY <1>2 DEF ALock, ARegister, Asking, Polled, ReadOpened, Stopped, Erased, WriteOpened, TakeBlock,
                SendBlock, SendStop, Step, At
  <2>3. ~(PowerOff \/ Synced \/ TakeRegister)
    BY ReturnFacts DEF PowerOff, Synced, TakeRegister
  <2>4. QED  BY <2>1, <2>2, <2>3 DEF Driver, InitOnly
<1>4. ARegister
  <2>1. ReadByte \/ Test => wk'.step = wk.step
    BY <1>1, ReadByteFacts, TestFacts
  <2>2. ~(ReadByte \/ Test) => wk.at \in {"SEND", "REPLIED", "TOKEN", "TOKENTEST"}
    BY <1>3 DEF Exchange, Registered, ReadToken, TokenTest, Step, At
  <2>3. QED  BY <1>2, <2>1, <2>2 DEF ALock
<1>5. /\ wk.step = "REGISTER" /\ wk.cmds \in Questions /\ wk.arg = 0
      /\ (call.ctrl = "MMC_GET_OCR") = (wk.cmds = <<"CMD58">>)
      /\ Usable /\ Known /\ Kind[slot] = "MMC" => wk.cmds \in {<<"CMD9">>, <<"CMD10">>, <<"CMD58">>}
      /\ Usable /\ Underway /\ cd.op = "register" => cd.addr = 0
  BY <1>1, <1>4 DEF ARegister, SInv, InvRegister
<1>6. <<"CMD55", "CMD13">> # <<"CMD58">> /\ <<"CMD13">> # <<"CMD58">> /\ Tail(<<"CMD55", "CMD13">>) = <<"CMD13">>
  BY OneHead, TwoHeads
<1>7. Len(wk.cmds) > 1 => wk.cmds = <<"CMD55", "CMD13">>
  BY <1>5, OneHead DEF Questions
<1>8. CASE Exchange
  <2>1. /\ wk.at = "SEND" /\ wk'.arg = wk.arg
        /\ \E a \in Answers(Head(wk.cmds), wk.arg) :
             /\ cd' = a.cd
             /\ \/ Len(wk.cmds) > 1 /\ wk'.at = "WAIT" /\ wk'.cmds = Tail(wk.cmds)
                \/ wk'.at = "REPLIED" /\ wk'.cmds = wk.cmds
    BY <1>1, <1>8, ExchangeFacts
  <2>2. PICK a \in Answers(Head(wk.cmds), wk.arg) :
          /\ cd' = a.cd
          /\ \/ Len(wk.cmds) > 1 /\ wk'.at = "WAIT" /\ wk'.cmds = Tail(wk.cmds)
             \/ wk'.at = "REPLIED" /\ wk'.cmds = wk.cmds
    BY <2>1
  <2>3. (call.ctrl = "MMC_GET_OCR") = (wk'.cmds = <<"CMD58">>)
    BY <1>5, <1>6, <1>7, <2>2
  <2>4. ASSUME Usable'
        PROVE  /\ Known' /\ Kind[slot'] = "MMC" => wk'.cmds \in {<<"CMD9">>, <<"CMD10">>, <<"CMD58">>}
               /\ Underway' /\ cd'.op = "register" => cd'.addr = 0
    <3>1. Usable /\ slot' = slot /\ (Known' => Known)
      BY <2>4, UsableBefore
    <3>2. <<"CMD55", "CMD13">> \notin {<<"CMD9">>, <<"CMD10">>, <<"CMD58">>}
      BY OneHead, TwoHeads
    <3>3. <<"CMD12">> \notin Questions
      BY OneHead, QuestionHeads
    <3>4. a \in Ordinary(Head(wk.cmds), wk.arg) /\ cd.mode # "native"
      BY <1>1, <1>5, <2>1, <3>1, <3>3, AskedOrdinary DEF Usable
    <3>5. cd'.op # "none" => cd'.addr = 0
      BY <1>1, <1>5, <2>2, <3>4, OrdinaryRun
    <3>6. QED  BY <1>5, <1>7, <2>2, <3>1, <3>2, <3>5
  <2>5. QED  BY <1>1, <1>5, <2>1, <2>3, <2>4 DEF InvRegister
<1>9. CASE ~Exchange
  <2>1. wk'.arg = wk.arg /\ wk'.cmds = wk.cmds /\ cd' = cd
    <3>1. CASE ReadByte \/ Test
      BY <1>1, <3>1, ReadByteFacts, TestFacts
    <3>2. CASE ~(ReadByte \/ Test)
      <4>1. \/ \E p : wk' = [wk EXCEPT !.at = p]
            \/ \E r : wk' = [wk EXCEPT !.at = "TOKENTEST", !.r = r]
        <5>1. ~Return("ERROR") /\ ~Return("OK")
          BY ReturnFacts
        <5>2. Single
          BY DEF Single
        <5>3. QED  BY <1>3, <1>9, <3>2, <5>1, <5>2 DEF Registered, Receive, ReadToken, TokenTest, NoBlock
      <4>2. QED  BY <1>1, <1>3, <1>9, <3>2, <4>1 DEF IsWk, WkFields, Registered, ReadToken, TokenTest, card
    <3>3. QED  BY <3>1, <3>2
  <2>2. ASSUME Usable', Underway' PROVE Underway
    <3>1. past.sound
      BY <2>2, UsableBefore DEF Usable, Well
    <3>2. CASE ReadByte
      BY <1>1, <1>5, <2>2, <3>2, ReadByteFacts DEF Underway, Coming, At
    <3>3. CASE Test
      <4>1. wk.cmds # <<>> /\ (~wk.ff => timer[2] > 0)
        BY <1>5, <3>1, <3>3, QuestionHeads, TimesAssumption DEF HInv, InvTimer, Test, At
      <4>2. wk'.at \in {"WAIT", "SEND"}
        BY <1>1, <3>3, <4>1, TestFacts
      <4>3. QED  BY <2>2, <4>2 DEF Underway, Coming, At
    <3>4. CASE Registered
      <4>1. ~Return("ERROR") /\ ~Return("OK")
        BY ReturnFacts
      <4>2. call.ctrl # "MMC_GET_OCR"
        BY <3>4, <4>1 DEF Registered
      <4>3. QED  BY <1>5, <3>4, <4>2 DEF Underway, Registered, Step, At
    <3>5. CASE ReadToken \/ TokenTest
      BY <3>5 DEF ReadToken, TokenTest, Underway, Coming, At
    <3>6. QED  BY <1>3, <1>9, <3>2, <3>3, <3>4, <3>5
  <2>3. Usable' => Usable /\ slot' = slot /\ (Known' => Known)
    BY UsableBefore
  <2>4. QED  BY <1>1, <1>5, <2>1, <2>2, <2>3 DEF InvRegister
<1>10. QED  BY <1>8, <1>9

\* Every step of the driver keeps what a card that works is promised.
LEMMA DriverServes ==
  ASSUME IInv, DInv, AInv, HInv, SInv, Driver
  PROVE  SInv'
<1>1. InvSlot' /\ InvMmc' /\ SInit' /\ InvRegister'
  BY SlotAfter, MmcAfter, InitServes, RegisterServes DEF SInv
<1>2. call' = call
  BY DriverFrame
<1>3. InvServed'
  <2> SUFFICES ASSUME Usable', Wanted', Known', call.op # "init" PROVE Served'
    BY <1>2 DEF InvServed
  <2>1. Usable /\ Wanted /\ Known /\ past'.sound /\ UNCHANGED <<slot, noinit>>
    BY UsableBefore
  <2>2. Served
    BY <2>1 DEF SInv, InvServed
  <2>3. ~InitOnly
    BY OnlyInit
  <2>4. ~PowerOff
    BY DEF PowerOff, Usable
  <2>5. CASE ReadByte \/ Test
    BY <1>2, <2>1, <2>2, <2>5, WaitsServed
  <2>6. CASE Exchange
    BY <2>1, <2>2, <2>6, AskServes
  <2>7. CASE Polled \/ ReadOpened \/ Stopped \/ Erased \/ WriteOpened \/ Registered
    BY <1>2, <2>1, <2>2, <2>7, RepliesServed
  <2>8. CASE ReadToken \/ TokenTest
    BY <1>2, <2>1, <2>2, <2>8, TokenServes
  <2>9. CASE TakeBlock
    BY <1>2, <2>1, <2>2, <2>9, TakeServes
  <2>10. CASE SendBlock
    BY <1>2, <2>1, <2>2, <2>10, SendServes
  <2>11. CASE SendStop \/ Synced \/ TakeRegister
    BY <2>1, <2>2, <2>11, EndsServed
  <2>12. QED
    BY <2>3, <2>4, <2>5, <2>6, <2>7, <2>8, <2>9, <2>10, <2>11 DEF Driver, InitOnly
<1>4. QED  BY <1>1, <1>3 DEF SInv

\* At first nothing is promised.
LEMMA InitServing == Init => SInv
<1> SUFFICES ASSUME Init PROVE SInv
  OBVIOUS
<1>1. past.sound = FALSE /\ slot \in Cards /\ noinit = TRUE /\ call = [op |-> "none"] /\ wk.at = "REST"
  BY RestingFacts DEF Init
<1>2. QED
  BY <1>1 DEF SInv, InvSlot, InvMmc, SInit, Well, InvRegister, InvServed, Usable, At

\* Every step keeps what is promised.
LEMMA NextServes ==
  ASSUME IInv, DInv, AInv, HInv, SInv, [Next]_vars
  PROVE  SInv'
<1>1. CASE Driver
  BY <1>1, DriverServes
<1>2. CASE Poll \/ Initialize \/ Transfer \/ Ioctl
  BY <1>2, BeginServes
<1>3. CASE Outside \/ UNCHANGED vars
  BY <1>3, OutsideServes
<1>4. QED  BY <1>1, <1>2, <1>3 DEF Next, Outside

\* A card that is in, works, and was left at rest by the call before, is found by
\* disk_initialize and disk_poll, and serves the blocks and the registers it has,
\* even if it takes up to the last tick of each timer to answer.
THEOREM ServesCorrect == Spec => []Serves
<1>1. SInv => Serves
  <2> SUFFICES ASSUME SInv, At("REST"), past.sound, past.closed PROVE Serves
    BY DEF Serves
  <2>1. call.op = "init" => answer = "OK"
    BY DEF SInv, SInit, Well
  <2>2. ASSUME ~noinit, cd.mode = "ready", call.op \in {"poll", "read", "write", "ioctl"}, Wanted, Known
        PROVE  answer = "OK"
    BY <2>2 DEF SInv, InvServed, Usable, Well, Served, SEnd
  <2>3. QED  BY <2>1, <2>2 DEF Serves, Wanted, Known, Moving
<1>2. QED
  BY <1>1, InitIInv, NextIInv, InitDInv, NextDInv, InitHeard, NextHeard, InitServing, NextServes, PTL DEF Spec
=============================================================================
