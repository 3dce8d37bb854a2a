-------------------------- MODULE PanelPortProofs ---------------------------
(***************************************************************************)
(* Proofs about PanelPort for every set of images and every number of      *)
(* chunks: the SPI driver's transaction is left alone while it owns it,    *)
(* and a refresh or a sleep that reports success has done what it says.    *)
(***************************************************************************)
EXTENDS PanelPort, SequenceTheorems, TLAPS

Ops == {"idle", "recover", "init", "refresh", "sleep", "release"}
Scripted == {"init", "refresh", "sleep"}

(* s_transaction_inflight tells the truth; what it guards is allocated; a  *)
(* call that returns with a transaction in flight leaves the port poisoned.*)
Ownership ==
    /\ inflight <=> spi # "free"
    /\ inflight => ready /\ (poisoned \/ at = "await")
    /\ at # "begin" => /\ op \in Scripted
                       /\ todo # <<>>
                       /\ Step.kind \in Transfers
                       /\ ~poisoned
    /\ op \in Scripted => ready

PortInv == TypeOK /\ Ownership

-----------------------------------------------------------------------------
LEMMA StepTypes ==
    /\ \A kind \in Transfers \cup {"reset", "busy"} : Do(kind) \in Steps
    /\ \A image \in MaybeImage, part \in 0..Chunks : Pixels(image, part) \in Steps
BY PanelAssumption DEF Do, Pixels, Steps, MaybeImage, Transfers

LEMMA NoSteps == <<>> \in Seq(Steps)
OBVIOUS

LEMMA ScriptTypes ==
    /\ InitScript \in Seq(Steps)
    /\ SleepScript \in Seq(Steps)
    /\ \A image \in Images : RefreshScript(image) \in Seq(Steps)
<1>1. \A kind \in Transfers \cup {"reset", "busy"} : Do(kind) \in Steps
  BY StepTypes
<1>2. InitScript \in Seq(Steps) /\ SleepScript \in Seq(Steps)
  BY <1>1 DEF InitScript, SleepScript, Transfers
<1>3. TurnOnDisplay \in Seq(Steps) /\ <<Do("ram")>> \in Seq(Steps)
  BY <1>1 DEF TurnOnDisplay, Transfers
<1>4. ASSUME NEW image \in Images
      PROVE  RefreshScript(image) \in Seq(Steps)
  <2>1. Screen(image) \in [1..Chunks -> Steps]
    BY StepTypes DEF Screen, MaybeImage
  <2>2. Screen(image) \in Seq(Steps)
    BY <2>1, PanelAssumption
  <2>. QED BY <1>3, <2>2 DEF RefreshScript
<1>. QED BY <1>2, <1>4

(* A working operation has a first step, and steps after it.               *)
LEMMA WorkTypes ==
    ASSUME TypeOK, Working
    PROVE  Step \in Steps /\ Tail(todo) \in Seq(Steps)
BY DEF TypeOK, Working, Step

(* Where an operation stands has its type after every way to go on.        *)
ControlOK == op \in Ops /\ todo \in Seq(Steps) /\ at \in {"begin", "queue", "await"}

LEMMA ControlTypes ==
    ASSUME TypeOK
    PROVE  /\ Release => ControlOK'
           /\ Finished => ControlOK'
           /\ Failed => ControlOK'
           /\ Working /\ Advance => ControlOK'
<1>1. Release => ControlOK'
  BY NoSteps DEF Release, ControlOK, Ops
<1>2. Finished => ControlOK'
  BY NoSteps DEF Finished, ControlOK, Ops
<1>3. Working /\ Advance => ControlOK'
  BY WorkTypes DEF Advance, ControlOK, Ops, TypeOK
<1>. QED BY <1>1, <1>2, <1>3 DEF Failed

Panels == [ram : Seq(Steps), shown : MaybeImage,
           powered : BOOLEAN, refreshing : BOOLEAN]

(* The panel stays a panel whatever it receives.                           *)
LEMMA ReceivedType ==
    ASSUME TypeOK, NEW step \in Steps
    PROVE  Received(step) \in Panels
<1>1. panel \in Panels /\ NoImage \in MaybeImage
  BY DEF TypeOK, Panels, MaybeImage
<1>2. <<>> \in Seq(Steps) /\ Append(panel.ram, step) \in Seq(Steps)
  BY <1>1, NoSteps DEF Panels
<1>3. /\ [panel EXCEPT !.ram = <<>>] \in Panels
      /\ [panel EXCEPT !.ram = Append(@, step)] \in Panels
      /\ [panel EXCEPT !.powered = TRUE] \in Panels
      /\ [panel EXCEPT !.powered = FALSE, !.refreshing = FALSE] \in Panels
      /\ [panel EXCEPT !.shown = NoImage, !.refreshing = TRUE] \in Panels
  BY <1>1, <1>2 DEF Panels
<1>4. Received(step) \in Panels
  BY <1>1, <1>3, Zenon DEF Received
<1>. QED BY <1>4

-----------------------------------------------------------------------------
(* Every state of the driver has its type.                                 *)
THEOREM TypeCorrect == Spec => []TypeOK
<1>1. Init => TypeOK
  <2>1. Do("data") \in Steps /\ NoImage \in MaybeImage
    BY StepTypes DEF MaybeImage, Transfers
  <2>2. Init => panel \in Panels
    BY <2>1, NoSteps DEF Init, Panels
  <2>. QED BY <2>1, <2>2, NoSteps DEF Init, TypeOK, Panels, MaybeImage
<1>2. TypeOK /\ [Next]_vars => TypeOK'
  <2>. SUFFICES ASSUME TypeOK, [Next]_vars
                PROVE  TypeOK'
    OBVIOUS
  <2>. DEFINE TransferOK == /\ inflight \in BOOLEAN /\ spi \in {"free", "queued", "sent"}
                            /\ poisoned \in BOOLEAN /\ transaction \in Steps
  <2>1. CASE Fill
    <3>1. TransferOK'
      BY <2>1, WorkTypes DEF Fill, Drained, NotDrained, TypeOK
    <3>2. ControlOK'
      BY <2>1, ControlTypes DEF Fill, ControlOK, Ops, TypeOK
    <3>. QED BY <2>1, <3>1, <3>2 DEF Fill, ControlOK, Ops, TypeOK
  <2>2. CASE Queue
    <3>1. TransferOK'
      BY <2>2 DEF Queue, TypeOK
    <3>2. ControlOK'
      BY <2>2, ControlTypes DEF Queue, ControlOK, Ops, TypeOK
    <3>. QED BY <2>2, <3>1, <3>2 DEF Queue, ControlOK, Ops, TypeOK
  <2>3. CASE Await
    <3>1. TransferOK'
      BY <2>3 DEF Await, Drained, NotDrained, TypeOK
    <3>2. ControlOK'
      BY <2>3, ControlTypes DEF Await
    <3>. QED BY <2>3, <3>1, <3>2 DEF Await, ControlOK, Ops, TypeOK
  <2>4. CASE Reset
    <3>1. ControlOK'
      BY <2>4, ControlTypes DEF Reset
    <3>2. panel' \in Panels
      BY <2>4, NoSteps DEF Reset, TypeOK, Panels
    <3>. QED BY <2>4, <3>1, <3>2 DEF Reset, ControlOK, Ops, TypeOK, Panels
  <2>5. CASE WaitBusy
    <3>1. ControlOK'
      BY <2>5, ControlTypes DEF WaitBusy
    <3>. QED BY <2>5, <3>1 DEF WaitBusy, ControlOK, Ops, TypeOK
  <2>6. CASE CallInit
    BY <2>6 DEF CallInit, TypeOK
  <2>7. CASE Recover
    <3>1. TransferOK' /\ ready' \in BOOLEAN
      BY <2>7 DEF Recover, Drained, NotDrained, TypeOK
    <3>2. ControlOK'
      BY <2>7, ControlTypes, ScriptTypes DEF Recover, ControlOK, Ops, TypeOK
    <3>. QED BY <2>7, <3>1, <3>2 DEF Recover, ControlOK, Ops, TypeOK
  <2>8. CASE InitDone
    <3>1. ControlOK'
      BY <2>8, ControlTypes DEF InitDone
    <3>. QED BY <2>8, <3>1 DEF InitDone, ControlOK, Ops, TypeOK
  <2>9. ASSUME NEW image \in Images, CallRefresh(image)
        PROVE  TypeOK'
    BY <2>9, ScriptTypes DEF CallRefresh, TypeOK, MaybeImage
  <2>10. CASE CallSleep
    BY <2>10, ScriptTypes DEF CallSleep, TypeOK
  <2>11. CASE Done
    BY <2>11, NoSteps DEF Done, Finished, TypeOK
  <2>12. CASE CallDeinit
    BY <2>12, NoSteps DEF CallDeinit, Release, TypeOK, MaybeImage
  <2>13. CASE PortDeinit
    BY <2>13, NoSteps DEF PortDeinit, Finished, Drained, NotDrained, TypeOK
  <2>14. CASE DeadlinePasses
    BY <2>14 DEF DeadlinePasses, TypeOK
  <2>15. CASE Transmit
    <3>1. <<Pixels(NoImage, 0)>> \in Seq(Steps)
      BY StepTypes, PanelAssumption DEF MaybeImage
    <3>2. [panel EXCEPT !.ram = <<Pixels(NoImage, 0)>>] \in Panels
      BY <3>1 DEF TypeOK, Panels
    <3>3. Received(transaction) \in Panels /\ panel \in Panels
      BY ReceivedType DEF TypeOK, Panels
    <3>4. panel' \in Panels
      BY <2>15, <3>2, <3>3 DEF Transmit
    <3>. QED BY <2>15, <3>4 DEF Transmit, program, TypeOK, Panels
  <2>16. CASE Refreshed
    <3>1. panel' \in Panels
      <4>1. panel \in Panels
        BY DEF TypeOK, Panels
      <4>2. ASSUME NEW image \in MaybeImage
            PROVE  [panel EXCEPT !.refreshing = FALSE, !.shown = image] \in Panels
        BY <4>1 DEF Panels
      <4>3. [panel EXCEPT !.refreshing = FALSE] \in Panels
        BY <4>1 DEF Panels
      <4>4. \/ \E image \in MaybeImage :
                 panel' = [panel EXCEPT !.refreshing = FALSE, !.shown = image]
            \/ panel' = [panel EXCEPT !.refreshing = FALSE]
        BY <2>16, Zenon DEF Refreshed, MaybeImage
      <4>. QED BY <4>2, <4>3, <4>4
    <3>2. UNCHANGED <<caller, program, spi>>
      BY <2>16, Zenon DEF Refreshed
    <3>. QED BY <3>1, <3>2 DEF program, TypeOK, Panels
  <2>17. CASE Reboot
    BY <2>17, NoSteps DEF Reboot, TypeOK, MaybeImage
  <2>18. CASE UNCHANGED vars
    BY <2>18 DEF vars, TypeOK
  <2>. QED
    BY <2>1, NoSteps, <2>2, <2>3, <2>4, <2>5, <2>6, <2>7, <2>8, <2>9, <2>10, <2>11, <2>12,
       <2>13, <2>14, <2>15, <2>16, <2>17, <2>18 DEF Next, Program
<1>. QED BY <1>1, <1>2, PTL DEF Spec

(* The ownership of the transaction is inductive.                          *)
LEMMA OwnershipStep ==
    ASSUME PortInv, [Next]_vars
    PROVE  Ownership'
<1>. USE DEF PortInv, Ownership, Scripted, Step
<1>1. CASE Fill
  BY <1>1 DEF Fill, Working, Failed, Release, Finished, Drained, NotDrained, TypeOK
<1>2. CASE Queue
  BY <1>2 DEF Queue, Working, Failed, Release, Finished, TypeOK
<1>3. CASE Await
  BY <1>3 DEF Await, Working, Advance, Failed, Release, Finished, Drained,
              NotDrained, TypeOK
<1>4. CASE Reset
  BY <1>4 DEF Reset, Working, Advance, TypeOK, Transfers
<1>5. CASE WaitBusy
  BY <1>5 DEF WaitBusy, Working, Advance, Failed, Release, Finished, TypeOK, Transfers
<1>6. CASE CallInit
  BY <1>6 DEF CallInit, TypeOK
<1>7. CASE Recover
  BY <1>7 DEF Recover, Release, Drained, NotDrained, TypeOK
<1>8. CASE InitDone
  BY <1>8 DEF InitDone, Release, Finished, TypeOK
<1>9. ASSUME NEW image \in Images, CallRefresh(image)
      PROVE  Ownership'
  BY <1>9 DEF CallRefresh, TypeOK
<1>10. CASE CallSleep
  BY <1>10 DEF CallSleep, TypeOK
<1>11. CASE Done
  BY <1>11 DEF Done, Finished, TypeOK
<1>12. CASE CallDeinit
  BY <1>12 DEF CallDeinit, Release, TypeOK
<1>13. CASE PortDeinit
  BY <1>13 DEF PortDeinit, Finished, Drained, NotDrained, TypeOK
<1>14. CASE DeadlinePasses
  BY <1>14 DEF DeadlinePasses, TypeOK
<1>15. CASE Transmit
  BY <1>15 DEF Transmit, program, TypeOK
<1>16. CASE Refreshed
  BY <1>16 DEF Refreshed, program, TypeOK
<1>17. CASE Reboot
  BY <1>17 DEF Reboot, TypeOK
<1>18. CASE UNCHANGED vars
  BY <1>18 DEF vars
<1>. QED
  BY <1>1, <1>2, <1>3, <1>4, <1>5, <1>6, <1>7, <1>8, <1>9, <1>10, <1>11, <1>12,
     <1>13, <1>14, <1>15, <1>16, <1>17, <1>18 DEF Next, Program

(* Whatever drains time out, whichever call fails and wherever it is cut   *)
(* short, the transaction in the SPI driver and its memory stay as they    *)
(* are.                                                                    *)
THEOREM DriverKeepsItsTransaction == Spec => OwnedUntouched
<1>1. Init => Ownership
  BY DEF Init, Ownership, Scripted
<1>2. Spec => []PortInv
  <2>1. PortInv /\ [Next]_vars /\ TypeOK' => PortInv'
    BY OwnershipStep DEF PortInv
  <2>2. Spec => []TypeOK
    BY TypeCorrect
  <2>3. Init /\ TypeOK => PortInv
    BY <1>1 DEF PortInv
  <2>. QED BY <2>1, <2>2, <2>3, PTL DEF Spec
<1>3. PortInv /\ [Next]_vars
      => [spi # "free" /\ spi' # "free" => ready' /\ UNCHANGED transaction]_vars
  <2>. SUFFICES ASSUME PortInv, Next, spi # "free", spi' # "free"
                PROVE  ready' /\ UNCHANGED transaction
    OBVIOUS
  <2>. USE DEF PortInv, Ownership, Scripted
  <2>1. inflight /\ ready
    OBVIOUS
  <2>2. CASE Fill
    BY <2>1, <2>2 DEF Fill, Working, Drained
  <2>3. CASE Recover
    BY <2>1, <2>3 DEF Recover, Drained
  <2>4. CASE PortDeinit
    BY <2>1, <2>4 DEF PortDeinit, Drained
  <2>5. CASE Reboot
    BY <2>5 DEF Reboot
  <2>6. CASE \/ Queue \/ Await \/ Reset \/ WaitBusy \/ CallInit \/ InitDone
             \/ (\E image \in Images : CallRefresh(image)) \/ CallSleep \/ Done
             \/ CallDeinit \/ DeadlinePasses \/ Transmit \/ Refreshed
    BY <2>1, <2>6 DEF Queue, Await, Reset, WaitBusy, CallInit, InitDone, CallRefresh,
       CallSleep, Done, CallDeinit, DeadlinePasses, Transmit, Refreshed, program
  <2>. QED BY <2>2, <2>3, <2>4, <2>5, <2>6 DEF Next, Program
<1>. QED BY <1>2, <1>3, PTL DEF Spec, OwnedUntouched
-----------------------------------------------------------------------------
(* How far an operation is. The steps still to do are the rest of its      *)
(* script; a step that is awaited and sent has had its effect.             *)
IsRest(steps, script) ==
    /\ Len(steps) <= Len(script)
    /\ \A i \in 1..Len(steps) : steps[i] = script[Len(script) - Len(steps) + i]

Left == IF at = "await" /\ spi = "sent" THEN Len(todo) - 1 ELSE Len(todo)

(* What a refresh with so many effects still to come has made of panel p.  *)
Painted(p, image, left) ==
    /\ left \in 9 .. Chunks + 9 =>
          /\ Len(p.ram) = Chunks + 9 - left
          /\ \A i \in 1 .. Chunks + 9 - left : p.ram[i] = Pixels(image, i)
    /\ left <= 9 => p.ram = Screen(image)
    /\ left \in 3..8 => p.powered
    /\ left \in 4..5 => p.refreshing \/ p.shown = image
    /\ left <= 3 => ~p.refreshing /\ p.shown = image
    /\ left <= 2 => ~p.powered

RefreshInv ==
    op = "refresh" =>
       /\ framebuffer \in Images
       /\ IsRest(todo, RefreshScript(framebuffer))
       /\ Len(todo) < Chunks + 10 => ~poisoned
       /\ Painted(panel, framebuffer, Left)

SleepInv ==
    op = "sleep" =>
       /\ IsRest(todo, SleepScript)
       /\ Len(todo) < 3 => ~poisoned
       /\ Left <= 2 => ~panel.powered

ScriptInv ==
    /\ at # "begin" => transaction = Step
    /\ at = "await" => inflight
    /\ RefreshInv
    /\ SleepInv

LEMMA RestOfTail ==
    ASSUME NEW steps \in Seq(Steps), NEW script \in Seq(Steps), steps # <<>>,
           IsRest(steps, script)
    PROVE  /\ IsRest(Tail(steps), script)
           /\ Len(Tail(steps)) = Len(steps) - 1
           /\ Len(steps) \in 1..Len(script)
           /\ Head(steps) = script[Len(script) - Len(steps) + 1]
<1>1. /\ Len(steps) \in Nat \ {0} /\ Len(script) \in Nat
      /\ Len(Tail(steps)) = Len(steps) - 1
      /\ \A i \in 1 .. Len(steps) - 1 : Tail(steps)[i] = steps[i + 1]
      /\ Head(steps) = steps[1]
  OBVIOUS
<1>2. ASSUME NEW i \in 1..Len(Tail(steps))
      PROVE  Tail(steps)[i] = script[Len(script) - Len(Tail(steps)) + i]
  <2>1. i + 1 \in 1..Len(steps) /\ i \in 1 .. Len(steps) - 1
    BY <1>1
  <2>2. steps[i + 1] = script[Len(script) - Len(steps) + (i + 1)]
    BY <2>1 DEF IsRest
  <2>3. Len(script) - Len(steps) + (i + 1) = Len(script) - Len(Tail(steps)) + i
    BY <1>1
  <2> QED
    BY <1>1, <2>1, <2>2, <2>3
<1> QED
  BY <1>1, <1>2 DEF IsRest

(* The steps of a refresh, counted from its end. *)
LEMMA RefreshSteps ==
    ASSUME NEW image \in Images
    PROVE  /\ RefreshScript(image) \in Seq(Steps)
           /\ Len(RefreshScript(image)) = Chunks + 10
           /\ RefreshScript(image)[1] = Do("ram")
           /\ \A i \in 1..Chunks : RefreshScript(image)[1 + i] = Pixels(image, i)
           /\ \A i \in 1..9 : RefreshScript(image)[Chunks + 1 + i] = TurnOnDisplay[i]
<1>1. /\ Chunks \in Nat \ {0}
      /\ RefreshScript(image) \in Seq(Steps)
  BY PanelAssumption, ScriptTypes
<1>2. \A kind \in Transfers \cup {"reset", "busy"} : Do(kind) \in Steps
  BY StepTypes
<1>3. /\ TurnOnDisplay \in Seq(Steps) /\ Len(TurnOnDisplay) = 9
      /\ <<Do("ram")>> \in Seq(Steps) /\ Len(<<Do("ram")>>) = 1
  BY <1>2 DEF TurnOnDisplay, Transfers
<1>4. /\ Screen(image) \in Seq(Steps) /\ Len(Screen(image)) = Chunks
      /\ \A i \in 1..Chunks : Screen(image)[i] = Pixels(image, i)
  <2>1. Screen(image) \in [1..Chunks -> Steps]
    BY StepTypes DEF Screen, MaybeImage
  <2> QED
    BY <1>1, <2>1 DEF Screen
<1> DEFINE painting == <<Do("ram")>> \o Screen(image)
<1>5. /\ painting \in Seq(Steps) /\ Len(painting) = Chunks + 1
      /\ painting[1] = Do("ram")
      /\ \A i \in 1..Chunks : painting[1 + i] = Pixels(image, i)
  <2>1. /\ painting \in Seq(Steps) /\ Len(painting) = 1 + Chunks
        /\ \A i \in 1 .. 1 + Chunks : painting[i] = IF i <= 1 THEN <<Do("ram")>>[i]
                                                   ELSE Screen(image)[i - 1]
    BY <1>1, <1>3, <1>4, ConcatProperties
  <2> HIDE DEF painting
  <2>2. painting[1] = Do("ram")
    BY <1>1, <2>1
  <2>3. ASSUME NEW i \in 1..Chunks
        PROVE  painting[1 + i] = Pixels(image, i)
    BY <1>1, <1>4, <2>1
  <2> QED
    BY <1>1, <2>1, <2>2, <2>3
<1>6. RefreshScript(image) = painting \o TurnOnDisplay
  BY DEF RefreshScript
<1> HIDE DEF painting
<1>7. /\ Len(RefreshScript(image)) = Chunks + 10
      /\ \A i \in 1 .. Chunks + 10 :
            RefreshScript(image)[i] = IF i <= Chunks + 1 THEN painting[i]
                                      ELSE TurnOnDisplay[i - (Chunks + 1)]
  <2>1. /\ Len(painting \o TurnOnDisplay) = Len(painting) + Len(TurnOnDisplay)
        /\ \A i \in 1 .. Len(painting) + Len(TurnOnDisplay) :
              (painting \o TurnOnDisplay)[i] =
                 IF i <= Len(painting) THEN painting[i]
                 ELSE TurnOnDisplay[i - Len(painting)]
    BY <1>3, <1>5, ConcatProperties
  <2>2. Len(painting) + Len(TurnOnDisplay) = Chunks + 10
    BY <1>1, <1>3, <1>5
  <2> QED
    BY <1>5, <1>6, <2>1, <2>2
<1>8. \A i \in 1..9 : RefreshScript(image)[Chunks + 1 + i] = TurnOnDisplay[i]
  <2> SUFFICES ASSUME NEW i \in 1..9, NEW j, j = Chunks + 1 + i
               PROVE  RefreshScript(image)[j] = TurnOnDisplay[i]
    OBVIOUS
  <2>1. j \in 1 .. Chunks + 10 /\ ~(j <= Chunks + 1) /\ j - (Chunks + 1) = i
    BY <1>1
  <2>2. RefreshScript(image)[j] = TurnOnDisplay[j - (Chunks + 1)]
    BY <1>7, <2>1
  <2> QED
    BY <2>1, <2>2
<1>9. \A i \in 1 .. Chunks + 1 : RefreshScript(image)[i] = painting[i]
  BY <1>1, <1>7
<1> QED
  BY <1>1, <1>5, <1>7, <1>8, <1>9
(* The first of the n steps that a refresh has still to do.                *)
LEMMA StepOfRefresh ==
    ASSUME TypeOK, NEW image \in Images, IsRest(todo, RefreshScript(image)), todo # <<>>,
           NEW n \in Nat, n = Len(todo)
    PROVE  /\ n \in 1 .. Chunks + 10
           /\ n = Chunks + 10 => Step = Do("ram")
           /\ n \in 10 .. Chunks + 9 => Step = Pixels(image, Chunks + 10 - n)
           /\ n \in 1..9 => Step = TurnOnDisplay[10 - n]
<1>1. Chunks \in Nat \ {0} /\ todo \in Seq(Steps)
  BY PanelAssumption DEF TypeOK
<1> DEFINE script == RefreshScript(image)
<1>2. script \in Seq(Steps) /\ Len(script) = Chunks + 10
  BY RefreshSteps
<1>3. /\ Len(todo) \in 1..Len(script)
      /\ Head(todo) = script[Len(script) - Len(todo) + 1]
  BY <1>1, <1>2, RestOfTail
<1>4. n \in 1 .. Chunks + 10 /\ Step = script[Chunks + 10 - n + 1]
  BY <1>1, <1>2, <1>3 DEF Step
<1>5. CASE n = Chunks + 10
  <2>1. Chunks + 10 - n + 1 = 1
    BY <1>1, <1>5
  <2>2. Step = Do("ram")
    BY <1>4, <2>1, RefreshSteps
  <2> QED
    BY <1>1, <1>4, <1>5, <2>2
<1>6. CASE n \in 10 .. Chunks + 9
  <2>5. Chunks + 10 - n \in 1..Chunks
    BY <1>1, <1>6
  <2>1. PICK i \in 1..Chunks : i = Chunks + 10 - n
    BY <2>5
  <2>2. Chunks + 10 - n + 1 = 1 + i
    BY <1>1, <1>4, <2>1
  <2>3. script[1 + i] = Pixels(image, i)
    BY RefreshSteps
  <2>4. Step = Pixels(image, Chunks + 10 - n)
    BY <1>4, <2>1, <2>2, <2>3
  <2> QED
    BY <1>1, <1>4, <1>6, <2>4
<1>7. CASE n \in 1..9
  <2>0. ASSUME NEW m \in 1..9
        PROVE  \E i \in 1..9 : i = 10 - m
    <3>1. 10 - m \in 1..9
      OBVIOUS
    <3> QED
      BY <3>1
  <2>1. PICK i \in 1..9 : i = 10 - n
    BY <1>7, <2>0
  <2>2. Chunks + 10 - n + 1 = Chunks + 1 + i
    BY <1>1, <1>4, <2>1
  <2>3. script[Chunks + 1 + i] = TurnOnDisplay[i]
    BY RefreshSteps
  <2>4. Step = TurnOnDisplay[10 - n]
    BY <1>4, <2>1, <2>2, <2>3
  <2> QED
    BY <1>1, <1>4, <1>7, <2>4
<1> QED
  BY <1>1, <1>4, <1>5, <1>6, <1>7

(* The steps of TurnOnDisplay, n from its end.                             *)
LEMMA TurnOnSteps ==
    ASSUME NEW n \in 1..9, NEW step, step = TurnOnDisplay[10 - n]
    PROVE  /\ n = 9 => step = Do("power_on")
           /\ n = 6 => step = Do("refresh")
           /\ n = 3 => step = Do("power_off")
           /\ n \in {2, 5, 7} => step = Do("data")
           /\ n \in {1, 4, 8} => step = Do("busy")
<1>1. /\ TurnOnDisplay[1] = Do("power_on") /\ TurnOnDisplay[2] = Do("busy")
      /\ TurnOnDisplay[3] = Do("data") /\ TurnOnDisplay[4] = Do("refresh")
      /\ TurnOnDisplay[5] = Do("data") /\ TurnOnDisplay[6] = Do("busy")
      /\ TurnOnDisplay[7] = Do("power_off") /\ TurnOnDisplay[8] = Do("data")
      /\ TurnOnDisplay[9] = Do("busy")
  BY DEF TurnOnDisplay
<1>2. /\ n = 9 => 10 - n = 1
      /\ n = 8 => 10 - n = 2
      /\ n = 7 => 10 - n = 3
      /\ n = 6 => 10 - n = 4
      /\ n = 5 => 10 - n = 5
      /\ n = 4 => 10 - n = 6
      /\ n = 3 => 10 - n = 7
      /\ n = 2 => 10 - n = 8
      /\ n = 1 => 10 - n = 9
  OBVIOUS
<1> QED
  BY <1>1, <1>2

LEMMA StepKinds ==
    ASSUME TypeOK, NEW image \in Images, IsRest(todo, RefreshScript(image)), todo # <<>>
    PROVE  /\ Step.kind # "reset"
           /\ Step.kind = "busy" => Len(todo) \in {1, 4, 8}
<1>1. PICK n \in Nat : n = Len(todo)
  BY DEF TypeOK
<1>2. /\ Chunks \in Nat \ {0}
      /\ n \in 1 .. Chunks + 10
  BY <1>1, PanelAssumption, StepOfRefresh
<1>3. CASE n = Chunks + 10
  BY <1>1, <1>3, StepOfRefresh DEF Do
<1>4. CASE n \in 10 .. Chunks + 9
  BY <1>1, <1>4, StepOfRefresh DEF Pixels
<1>5. CASE n \in 1..9
  <2>1. Step = TurnOnDisplay[10 - n]
    BY <1>1, <1>5, StepOfRefresh
  <2>2. \/ n \in {1, 4, 8} /\ Step = Do("busy")
        \/ Step \in {Do("power_on"), Do("refresh"), Do("power_off"), Do("data")}
    BY <1>5, <2>1, TurnOnSteps
  <2>3. CASE n \in {1, 4, 8} /\ Step = Do("busy")
    BY <1>1, <2>3 DEF Do
  <2>4. CASE Step \in {Do("power_on"), Do("refresh"), Do("power_off"), Do("data")}
    BY <2>4 DEF Do
  <2> QED
    BY <2>2, <2>3, <2>4
<1> QED
  BY <1>2, <1>3, <1>4, <1>5

(* What the panel received was the next effect of the refresh.             *)
LEMMA PaintedSent ==
    ASSUME panel \in Panels, NEW image \in Images, NEW n \in 1 .. Chunks + 10,
           NEW step \in Steps, step.kind \in Transfers, Painted(panel, image, n),
           n = Chunks + 10 => step = Do("ram"),
           n \in 10 .. Chunks + 9 => step = Pixels(image, Chunks + 10 - n),
           n \in 1..9 => step = TurnOnDisplay[10 - n]
    PROVE  Painted(Received(step), image, n - 1)
<1>1. Chunks \in Nat \ {0} /\ n \in Nat
  BY PanelAssumption
<1>2. CASE n = Chunks + 10
  <2>1. Received(step) = [panel EXCEPT !.ram = <<>>]
    BY <1>2 DEF Received, Do
  <2>2. Received(step).ram = <<>>
    BY <1>1, <2>1 DEF Panels
  <2>3. n - 1 = Chunks + 9 /\ n - 1 > 9 /\ Chunks + 9 - (n - 1) = 0
    BY <1>1, <1>2
  <2> QED
    BY <1>1, <2>2, <2>3 DEF Painted
<1>3. CASE n \in 10 .. Chunks + 9
  <2>1. PICK k \in Nat : k = Chunks + 9 - n /\ k + 1 = Chunks + 10 - n
    BY <1>1, <1>3
  <2>2. step = Pixels(image, k + 1)
    BY <1>3, <2>1
  <2> DEFINE r == Received(step)
  <2>3. r = [panel EXCEPT !.ram = Append(@, step)]
    BY <2>2 DEF Received, Pixels
  <2>4. panel.ram \in Seq(Steps) /\ r.ram = Append(panel.ram, step)
    BY <1>1, <2>3 DEF Panels
  <2>5. Len(panel.ram) = k /\ \A i \in 1..k : panel.ram[i] = Pixels(image, i)
    BY <1>1, <1>3, <2>1 DEF Painted
  <2> HIDE DEF r
  <2>6. /\ r.ram \in Seq(Steps)
        /\ Len(r.ram) = k + 1
        /\ \A i \in 1 .. k + 1 : r.ram[i] = Pixels(image, i)
    <3>1. /\ r.ram \in Seq(Steps)
          /\ Len(r.ram) = Len(panel.ram) + 1
          /\ \A i \in 1 .. Len(panel.ram) + 1 :
                r.ram[i] = IF i <= Len(panel.ram) THEN panel.ram[i] ELSE step
      BY <2>4, AppendProperties
    <3>2. ASSUME NEW i \in 1 .. k + 1
          PROVE  r.ram[i] = Pixels(image, i)
      <4>1. CASE i \in 1..k
        BY <2>5, <3>1, <4>1
      <4>2. CASE i = k + 1
        BY <2>2, <2>5, <3>1, <4>2
      <4> QED
        BY <4>1, <4>2
    <3> QED
      BY <2>5, <3>1, <3>2
  <2>7. ASSUME n - 1 = 9
        PROVE  r.ram = Screen(image)
    <3>1. k + 1 = Chunks
      BY <1>1, <2>1, <2>7
    <3>2. r.ram = [i \in 1..Chunks |-> r.ram[i]]
      BY <2>6, <3>1
    <3> QED
      BY <2>6, <3>1, <3>2 DEF Screen
  <2>8. Chunks + 9 - (n - 1) = k + 1 /\ n - 1 >= 9
    BY <1>1, <1>3, <2>1
  <2>9. Painted(r, image, n - 1)
    BY <1>1, <1>3, <2>6, <2>7, <2>8 DEF Painted
  <2> QED
    BY <2>9 DEF r
<1>4. CASE n \in 1..9
  <2>1. panel.ram = Screen(image)
    BY <1>4 DEF Painted
  <2>2. step = TurnOnDisplay[10 - n]
    BY <1>4
  <2>3. ASSUME NEW q, q.ram = panel.ram
        PROVE  /\ n - 1 \notin 9 .. Chunks + 9
               /\ q.ram = Screen(image)
    BY <1>4, <2>1, <2>3
  <2>4. CASE n = 9
    <3>1. Received(step) = [panel EXCEPT !.powered = TRUE]
      BY <2>2, <2>4, TurnOnSteps DEF Received, Do
    <3>2. Received(step).powered = TRUE /\ Received(step).ram = panel.ram
      BY <1>1, <3>1 DEF Panels
    <3> QED
      BY <2>3, <2>4, <3>2 DEF Painted
  <2>5. CASE n = 6
    <3>1. panel.powered
      BY <2>5 DEF Painted
    <3>2. Received(step) = [panel EXCEPT !.shown = NoImage, !.refreshing = TRUE]
      BY <2>2, <2>5, <3>1, TurnOnSteps DEF Received, Do
    <3>3. /\ Received(step).powered = panel.powered /\ Received(step).ram = panel.ram
          /\ Received(step).refreshing = TRUE
      BY <1>1, <3>2 DEF Panels
    <3> QED
      BY <2>3, <2>5, <3>1, <3>3 DEF Painted
  <2>6. CASE n = 3
    <3>1. panel.shown = image
      BY <2>6 DEF Painted
    <3>2. Received(step) = [panel EXCEPT !.powered = FALSE, !.refreshing = FALSE]
      BY <2>2, <2>6, TurnOnSteps DEF Received, Do
    <3>3. /\ Received(step).powered = FALSE /\ Received(step).ram = panel.ram
          /\ Received(step).refreshing = FALSE /\ Received(step).shown = panel.shown
      BY <1>1, <3>2 DEF Panels
    <3> QED
      BY <2>3, <2>6, <3>1, <3>3 DEF Painted
  <2>7. CASE n \in {2, 5, 7}
    <3>1. step = Do("data")
      BY <2>2, <2>7, TurnOnSteps
    <3>2. Received(step) = panel
      BY <3>1 DEF Received, Do
    <3>3. Painted(panel, image, n - 1)
      BY <2>3, <2>7 DEF Painted
    <3> QED
      BY <3>2, <3>3
  <2>8. CASE n \in {1, 4, 8}
    <3>1. step = Do("busy")
      BY <2>2, <2>8, TurnOnSteps
    <3> QED
      BY <3>1 DEF Do, Transfers
  <2> QED
    BY <1>4, <2>4, <2>5, <2>6, <2>7, <2>8
<1> QED
  BY <1>1, <1>2, <1>3, <1>4

(* A panel that is not busy has done what it was told before the wait.     *)
LEMMA PaintedWaited ==
    ASSUME NEW p \in Panels, NEW image \in Images, NEW left \in {1, 4, 8},
           ~p.refreshing, Painted(p, image, left)
    PROVE  Painted(p, image, left - 1)
BY PanelAssumption DEF Painted

(* The panel shows the only image that its memory is the screen of.        *)
LEMMA PaintedRefreshed ==
    ASSUME TypeOK, NEW image \in Images, NEW left \in Nat, Painted(panel, image, left),
           Refreshed
    PROVE  Painted(panel', image, left)
<1>1. panel \in Panels /\ Chunks \in Nat \ {0}
  BY PanelAssumption DEF TypeOK, Panels
<1>2. panel.refreshing
  BY DEF Refreshed
<1>3. left > 3
  BY <1>2 DEF Painted
<1>4. ASSUME NEW other \in Images, panel.ram = Screen(other),
             panel' = [panel EXCEPT !.refreshing = FALSE, !.shown = other]
      PROVE  Painted(panel', image, left)
  <2>1. /\ panel'.ram = panel.ram /\ panel'.powered = panel.powered
        /\ panel'.shown = other
    BY <1>1, <1>4 DEF Panels
  <2>2. left <= 9 => other = image
    <3> SUFFICES ASSUME Screen(image) = Screen(other)
                 PROVE  other = image
      BY <1>4 DEF Painted
    <3>1. Screen(image)[1] = Pixels(image, 1) /\ Screen(other)[1] = Pixels(other, 1)
      BY <1>1 DEF Screen
    <3> QED
      BY <3>1 DEF Pixels
  <2> QED
    BY <1>3, <2>1, <2>2 DEF Painted
<1>5. ASSUME \A other \in Images : panel.ram # Screen(other),
             panel' = [panel EXCEPT !.refreshing = FALSE]
      PROVE  Painted(panel', image, left)
  <2>1. panel'.ram = panel.ram /\ panel'.powered = panel.powered
    BY <1>1, <1>5 DEF Panels
  <2>2. left > 9
    BY <1>5 DEF Painted
  <2> QED
    BY <1>3, <2>1, <2>2 DEF Painted
<1> QED
  BY <1>4, <1>5 DEF Refreshed
LEMMA SleepSteps ==
    ASSUME TypeOK, IsRest(todo, SleepScript), todo # <<>>
    PROVE  /\ Len(todo) \in 1..3
           /\ Len(todo) = 3 => Step = Do("power_off")
           /\ Len(todo) = 2 => Step = Do("data")
           /\ Len(todo) = 1 => Step = Do("busy")
<1>1. /\ todo \in Seq(Steps) /\ SleepScript \in Seq(Steps) /\ Len(SleepScript) = 3
      /\ SleepScript[1] = Do("power_off") /\ SleepScript[2] = Do("data")
      /\ SleepScript[3] = Do("busy")
  BY ScriptTypes DEF TypeOK, SleepScript
<1>2. /\ Len(todo) \in 1..3
      /\ Step = SleepScript[3 - Len(todo) + 1]
  BY <1>1, RestOfTail DEF Step
<1>3. CASE Len(todo) = 3
  <2>1. 3 - Len(todo) + 1 = 1
    BY <1>3
  <2> QED
    BY <1>1, <1>2, <1>3, <2>1
<1>4. CASE Len(todo) = 2
  <2>1. 3 - Len(todo) + 1 = 2
    BY <1>4
  <2> QED
    BY <1>1, <1>2, <1>4, <2>1
<1>5. CASE Len(todo) = 1
  <2>1. 3 - Len(todo) + 1 = 3
    BY <1>5
  <2> QED
    BY <1>1, <1>2, <1>5, <2>1
<1> QED
  BY <1>2, <1>3, <1>4, <1>5

(* What a step that does not move the operation on must keep.              *)
LEMMA ScriptCarries ==
    ASSUME ScriptInv, UNCHANGED <<op, todo, framebuffer, poisoned, panel>>, Left' = Left,
           at' # "begin" => transaction' = Step,
           at' = "await" => inflight'
    PROVE  ScriptInv'
BY DEF ScriptInv, RefreshInv, SleepInv, Step

LEMMA NoScript ==
    ASSUME op' \notin {"refresh", "sleep"}, at' = "begin"
    PROVE  ScriptInv'
BY DEF ScriptInv, RefreshInv, SleepInv

LEMMA FailedScript ==
    ASSUME Failed
    PROVE  ScriptInv'
BY NoScript DEF Failed, Release, Finished

LEMMA AwaitScript ==
    ASSUME PortInv, ScriptInv, Await
    PROVE  ScriptInv'
<1> USE DEF PortInv
<1>1. CASE Failed
  BY <1>1, FailedScript
<1>2. CASE Drained /\ Advance /\ UNCHANGED poisoned
  <2>1. at = "await" /\ inflight /\ spi = "sent" /\ ~poisoned /\ todo # <<>>
    BY <1>2 DEF Await, Drained, Ownership, ScriptInv
  <2>2. todo \in Seq(Steps) /\ Len(todo) \in Nat
    BY DEF TypeOK
  <2>3. Left = Len(todo) - 1
    BY <2>1 DEF Left
  <2>4. /\ todo' = Tail(todo) /\ at' = "begin" /\ Len(todo') = Len(todo) - 1
        /\ UNCHANGED <<op, framebuffer, panel, poisoned>>
    BY <1>2, <2>1, <2>2 DEF Await, Advance
  <2>5. Left' = Left
    BY <2>3, <2>4 DEF Left
  <2>6. RefreshInv'
    BY <2>1, <2>2, <2>4, <2>5, RestOfTail, ScriptTypes DEF ScriptInv, RefreshInv
  <2>7. SleepInv'
    BY <2>1, <2>2, <2>4, <2>5, RestOfTail, ScriptTypes DEF ScriptInv, SleepInv
  <2> QED
    BY <2>4, <2>6, <2>7 DEF ScriptInv
<1> QED
  BY <1>1, <1>2 DEF Await

LEMMA WaitBusyScript ==
    ASSUME PortInv, ScriptInv, WaitBusy
    PROVE  ScriptInv'
<1> USE DEF PortInv
<1>1. CASE Failed
  BY <1>1, FailedScript
<1>2. CASE ~panel.refreshing /\ Advance
  <2>1. Step.kind = "busy" /\ todo # <<>> /\ UNCHANGED <<framebuffer, panel, poisoned>>
    BY DEF WaitBusy, Working
  <2>2. at = "begin"
    BY <2>1 DEF Ownership, Transfers
  <2>3. todo \in Seq(Steps) /\ Len(todo) \in Nat /\ Left = Len(todo) /\ panel \in Panels
    BY <2>2 DEF TypeOK, Left, Panels
  <2>4. /\ todo' = Tail(todo) /\ at' = "begin" /\ op' = op
        /\ Len(todo') = Len(todo) - 1 /\ Left' = Len(todo) - 1
    BY <1>2, <2>1, <2>3 DEF Advance, Left
  <2>5. RefreshInv'
    <3> SUFFICES ASSUME op = "refresh"
                 PROVE  /\ framebuffer \in Images
                        /\ IsRest(todo', RefreshScript(framebuffer))
                        /\ ~poisoned
                        /\ Painted(panel, framebuffer, Left')
      BY <2>1, <2>4 DEF RefreshInv
    <3>1. /\ framebuffer \in Images /\ IsRest(todo, RefreshScript(framebuffer))
          /\ Len(todo) < Chunks + 10 => ~poisoned
          /\ Painted(panel, framebuffer, Len(todo))
      BY <2>3 DEF ScriptInv, RefreshInv
    <3>2. Len(todo) \in {1, 4, 8}
      BY <2>1, <3>1, StepKinds
    <3>3. Painted(panel, framebuffer, Len(todo) - 1)
      BY <1>2, <2>3, <3>1, <3>2, PaintedWaited
    <3>4. Len(todo) < Chunks + 10
      <4>1. Chunks \in Nat
        BY PanelAssumption
      <4>2. ASSUME NEW n \in {1, 4, 8}
            PROVE  n < Chunks + 10
        BY <4>1
      <4> QED
        BY <3>2, <4>2
    <3> QED
      BY <2>1, <2>3, <2>4, <3>1, <3>3, <3>4, RestOfTail, ScriptTypes
  <2>6. SleepInv'
    <3> SUFFICES ASSUME op = "sleep"
                 PROVE  IsRest(todo', SleepScript) /\ ~poisoned /\ ~panel.powered
      BY <2>1, <2>4 DEF SleepInv
    <3>1. /\ IsRest(todo, SleepScript)
          /\ Len(todo) < 3 => ~poisoned
          /\ Len(todo) <= 2 => ~panel.powered
      BY <2>3 DEF ScriptInv, SleepInv
    <3>2. Len(todo) = 1
      BY <2>1, <3>1, SleepSteps DEF Do
    <3> QED
      BY <2>1, <2>3, <2>4, <3>1, <3>2, RestOfTail, ScriptTypes
  <2> QED
    BY <2>4, <2>5, <2>6 DEF ScriptInv
<1> QED
  BY <1>1, <1>2 DEF WaitBusy

LEMMA TransmitScript ==
    ASSUME PortInv, ScriptInv, Transmit
    PROVE  ScriptInv'
<1> USE DEF PortInv
<1>1. /\ spi = "queued" /\ spi' = "sent" /\ inflight
      /\ UNCHANGED <<op, todo, framebuffer, poisoned, at, transaction, inflight>>
  BY DEF Transmit, program, Ownership
<1>2. todo \in Seq(Steps) /\ Len(todo) \in Nat /\ Left = Len(todo)
  BY <1>1 DEF TypeOK, Left
<1>3. CASE at = "await"
  <2>1. /\ todo # <<>> /\ Step.kind \in Transfers /\ Step \in Steps
        /\ transaction = Step /\ panel' = Received(Step)
    BY <1>3, ElementOfSeq DEF Transmit, Ownership, ScriptInv, TypeOK, Step
  <2>2. Left' = Len(todo) - 1
    BY <1>1, <1>3 DEF Left
  <2>3. RefreshInv'
    <3> SUFFICES ASSUME op = "refresh"
                 PROVE  Painted(Received(Step), framebuffer, Len(todo) - 1)
      BY <1>1, <2>1, <2>2 DEF ScriptInv, RefreshInv
    <3>1. /\ framebuffer \in Images /\ IsRest(todo, RefreshScript(framebuffer))
          /\ Painted(panel, framebuffer, Len(todo))
      BY <1>2 DEF ScriptInv, RefreshInv
    <3>2. /\ Len(todo) \in 1 .. Chunks + 10
          /\ Len(todo) = Chunks + 10 => Step = Do("ram")
          /\ Len(todo) \in 10 .. Chunks + 9
                => Step = Pixels(framebuffer, Chunks + 10 - Len(todo))
          /\ Len(todo) \in 1..9 => Step = TurnOnDisplay[10 - Len(todo)]
      BY <1>2, <2>1, <3>1, StepOfRefresh
    <3>3. panel \in Panels
      BY DEF TypeOK, Panels
    <3> QED
      BY <2>1, <3>1, <3>2, <3>3, PaintedSent
  <2>4. SleepInv'
    <3> SUFFICES ASSUME op = "sleep"
                 PROVE  Len(todo) - 1 <= 2 => ~Received(Step).powered
      BY <1>1, <2>1, <2>2 DEF ScriptInv, SleepInv
    <3>1. IsRest(todo, SleepScript) /\ (Len(todo) <= 2 => ~panel.powered)
      BY <1>2 DEF ScriptInv, SleepInv
    <3>2. CASE Len(todo) = 3
      <4>1. Received(Step) = [panel EXCEPT !.powered = FALSE, !.refreshing = FALSE]
        BY <2>1, <3>1, <3>2, SleepSteps DEF Received, Do
      <4> QED
        BY <4>1 DEF TypeOK
    <3>3. CASE Len(todo) = 2
      <4>1. Received(Step) = panel
        BY <2>1, <3>1, <3>3, SleepSteps DEF Received, Do
      <4> QED
        BY <3>1, <3>3, <4>1
    <3>4. Len(todo) # 1
      BY <2>1, <3>1, SleepSteps DEF Do, Transfers
    <3> QED
      BY <2>1, <3>1, <3>2, <3>3, <3>4, SleepSteps
  <2> QED
    BY <1>1, <2>1, <2>3, <2>4 DEF ScriptInv, Step
<1>4. CASE at # "await"
  <2>1. poisoned /\ Left' = Len(todo)
    BY <1>1, <1>4 DEF Ownership, Left
  <2>2. RefreshInv'
    <3> SUFFICES ASSUME op = "refresh"
                 PROVE  Painted(panel', framebuffer, Len(todo))
      BY <1>1, <2>1 DEF ScriptInv, RefreshInv
    <3>1. ~(Len(todo) < Chunks + 10)
      BY <2>1 DEF ScriptInv, RefreshInv
    <3>2. Len(todo) > Chunks + 9 /\ Len(todo) > 9
      BY <1>2, <3>1, PanelAssumption
    <3> QED
      BY <1>2, <3>2, PanelAssumption DEF Painted
  <2>3. SleepInv'
    BY <1>1, <1>2, <2>1 DEF ScriptInv, SleepInv
  <2>4. (at' # "begin" => transaction' = Step') /\ (at' = "await" => inflight')
    BY <1>1 DEF ScriptInv, Step
  <2> QED
    BY <2>2, <2>3, <2>4 DEF ScriptInv
<1> QED
  BY <1>3, <1>4

LEMMA CallScript ==
    ASSUME PortInv, ScriptInv, CallSleep \/ \E image \in Images : CallRefresh(image)
    PROVE  ScriptInv'
<1> USE DEF PortInv
<1>1. op = "idle" /\ at = "begin" /\ at' = "begin"
  BY DEF CallSleep, CallRefresh, Ownership, Scripted
<1>2. CASE op' = "idle"
  BY <1>1, <1>2, NoScript
<1>3. ASSUME NEW image \in Images, op' = "refresh", todo' = RefreshScript(image),
             framebuffer' = image
      PROVE  ScriptInv'
  <2>1. /\ RefreshScript(image) \in Seq(Steps) /\ Len(RefreshScript(image)) = Chunks + 10
        /\ Chunks \in Nat
    BY RefreshSteps, PanelAssumption
  <2>2. IsRest(todo', RefreshScript(image)) /\ Left' = Chunks + 10
    BY <1>1, <1>3, <2>1 DEF IsRest, Left
  <2>3. Painted(panel', image, Chunks + 10)
    BY <2>1 DEF Painted
  <2>4. RefreshInv'
    BY <1>3, <2>1, <2>2, <2>3 DEF RefreshInv
  <2> QED
    BY <1>1, <1>3, <2>4 DEF ScriptInv, SleepInv
<1>4. ASSUME op' = "sleep", todo' = SleepScript
      PROVE  ScriptInv'
  <2>1. SleepScript \in Seq(Steps) /\ Len(SleepScript) = 3
    BY ScriptTypes DEF SleepScript
  <2>2. IsRest(todo', SleepScript) /\ Left' = 3
    BY <1>1, <1>4, <2>1 DEF IsRest, Left
  <2>3. SleepInv'
    BY <1>4, <2>1, <2>2 DEF SleepInv
  <2> QED
    BY <1>1, <1>4, <2>3 DEF ScriptInv, RefreshInv
<1> QED
  BY <1>1, <1>2, <1>3, <1>4 DEF CallSleep, CallRefresh

LEMMA ScriptStep ==
    ASSUME PortInv, ScriptInv, [Next]_vars
    PROVE  ScriptInv'
<1> USE DEF PortInv
<1>1. CASE Fill
  <2>1. CASE Failed
    BY <2>1, FailedScript
  <2>2. CASE /\ transaction' = Step /\ at' = "queue"
             /\ UNCHANGED <<poisoned, op, todo>>
    <3>1. at = "begin" /\ UNCHANGED <<framebuffer, panel>>
      BY <1>1 DEF Fill
    <3>2. Left' = Left
      BY <2>2, <3>1 DEF Left
    <3> QED
      BY <2>2, <3>1, <3>2, ScriptCarries
  <2> QED
    BY <1>1, <2>1, <2>2 DEF Fill
<1>2. CASE Queue
  <2>1. CASE Failed
    BY <2>1, FailedScript
  <2>2. CASE /\ at' = "await" /\ inflight' = TRUE /\ spi' = "queued"
             /\ UNCHANGED <<op, todo>>
    <3>1. /\ at = "queue" /\ transaction = Step
          /\ UNCHANGED <<framebuffer, panel, poisoned, transaction>>
      BY <1>2 DEF Queue, ScriptInv
    <3>2. Left' = Left
      BY <2>2, <3>1 DEF Left
    <3> QED
      BY <2>2, <3>1, <3>2, ScriptCarries
  <2> QED
    BY <1>2, <2>1, <2>2 DEF Queue
<1>3. CASE Await
  BY <1>3, AwaitScript
<1>4. CASE Reset
  <2>1. op \in {"init", "refresh", "sleep"} /\ todo # <<>> /\ Step.kind = "reset"
        /\ op' = op /\ at' = "begin"
    BY <1>4 DEF Reset, Working, Advance
  <2>2. op # "refresh"
    BY <2>1, StepKinds DEF ScriptInv, RefreshInv
  <2>3. op # "sleep"
    BY <2>1, SleepSteps DEF ScriptInv, SleepInv, Do
  <2> QED
    BY <2>1, <2>2, <2>3, NoScript
<1>5. CASE WaitBusy
  BY <1>5, WaitBusyScript
<1>6. CASE CallInit \/ Recover
  BY <1>6, NoScript DEF CallInit, Recover, Release, Ownership, Scripted
<1>7. CASE InitDone \/ Done \/ CallDeinit \/ PortDeinit \/ Reboot
  BY <1>7, NoScript DEF InitDone, Done, CallDeinit, PortDeinit, Reboot, Release, Finished
<1>8. CASE CallSleep \/ \E image \in Images : CallRefresh(image)
  BY <1>8, CallScript
<1>9. CASE DeadlinePasses \/ UNCHANGED vars
  <2>1. UNCHANGED <<op, todo, framebuffer, poisoned, panel, at, spi, transaction, inflight>>
    BY <1>9 DEF DeadlinePasses, vars
  <2>2. Left' = Left
    BY <2>1 DEF Left
  <2> QED
    BY <2>1, <2>2, ScriptCarries DEF ScriptInv
<1>10. CASE Transmit
  BY <1>10, TransmitScript
<1>11. CASE Refreshed
  <2>1. UNCHANGED <<op, todo, framebuffer, poisoned, at, spi, transaction, inflight>>
    BY <1>11 DEF Refreshed, program
  <2>2. Left' = Left
    BY <2>1 DEF Left
  <2>3. RefreshInv'
    <3> SUFFICES ASSUME op = "refresh"
                 PROVE  Painted(panel', framebuffer, Left)
      BY <2>1, <2>2 DEF ScriptInv, RefreshInv
    <3>1. framebuffer \in Images /\ Painted(panel, framebuffer, Left)
      BY DEF ScriptInv, RefreshInv
    <3>2. Left \in Nat
      <4>1. todo \in Seq(Steps) /\ (at # "begin" => todo # <<>>)
        BY DEF TypeOK, Ownership
      <4> QED
        BY <4>1 DEF Left
    <3> QED
      BY <1>11, <3>1, <3>2, PaintedRefreshed
  <2>4. panel'.powered = panel.powered
    BY <1>11 DEF Refreshed, TypeOK
  <2>5. SleepInv'
    BY <2>1, <2>2, <2>4 DEF ScriptInv, SleepInv
  <2> QED
    BY <2>1, <2>3, <2>5 DEF ScriptInv, Step
<1> QED
  BY <1>1, <1>2, <1>3, <1>4, <1>5, <1>6, <1>7, <1>8, <1>9, <1>10, <1>11
     DEF Next, Program

(* A refresh that reports success left the framebuffer on the panel and    *)
(* its power off, a sleep the latter, for every number of chunks: whatever *)
(* transfers earlier calls left behind, the panel took exactly the bytes   *)
(* of the script.                                                          *)
THEOREM SuccessMeansShown == Spec => SuccessIsTrue
<1>1. Init => Ownership /\ ScriptInv
  BY DEF Init, Ownership, Scripted, ScriptInv, RefreshInv, SleepInv
<1>2. PortInv /\ ScriptInv /\ [Next]_vars
      => [Done => /\ ~panel.powered
                  /\ op = "refresh" => panel.shown = framebuffer]_vars
  <2> SUFFICES ASSUME PortInv, ScriptInv, Done
               PROVE  ~panel.powered /\ (op = "refresh" => panel.shown = framebuffer)
    OBVIOUS
  <2>1. op \in {"refresh", "sleep"} /\ todo = <<>> /\ at = "begin"
    BY DEF Done, PortInv, Ownership
  <2>2. Left = 0
    BY <2>1 DEF Left
  <2> QED
    BY <2>1, <2>2 DEF ScriptInv, RefreshInv, SleepInv, Painted
<1>3. PortInv /\ ScriptInv /\ [Next]_vars /\ TypeOK' => PortInv' /\ ScriptInv'
  BY OwnershipStep, ScriptStep DEF PortInv
<1> QED
  BY <1>1, <1>2, <1>3, TypeCorrect, PTL DEF Spec, SuccessIsTrue, PortInv

-----------------------------------------------------------------------------
(* The refinement of PanelPicture. The initialisation draws nothing, and a *)
(* panel that is changing has its power.                                   *)
Quiet(step) == step.kind \in {"reset", "busy", "data", "power_on"}

SetUpInv ==
    /\ op = "init" => \A i \in 1..Len(todo) : Quiet(todo[i])
    /\ panel.refreshing => panel.powered

PictureInv == PortInv /\ ScriptInv /\ SetUpInv

LEMMA SetUpSteps ==
    /\ InitScript \in Seq(Steps)
    /\ \A i \in 1..Len(InitScript) : Quiet(InitScript[i])
<1>1. /\ Len(InitScript) = 5
      /\ InitScript[1] = Do("reset") /\ InitScript[2] = Do("busy")
      /\ InitScript[3] = Do("data") /\ InitScript[4] = Do("power_on")
      /\ InitScript[5] = Do("busy")
  BY DEF InitScript
<1>2. ASSUME NEW kind \in {"reset", "busy", "data", "power_on"}
      PROVE  Quiet(Do(kind))
  BY DEF Quiet, Do
<1>3. \A i \in 1..5 : i \in {1, 2, 3, 4, 5}
  OBVIOUS
<1> QED
  BY <1>1, <1>2, <1>3, ScriptTypes

LEMMA SetUpStep ==
    ASSUME PortInv, SetUpInv, [Next]_vars
    PROVE  SetUpInv'
<1>1. todo \in Seq(Steps) /\ panel \in Panels
  BY DEF PortInv, TypeOK, Panels
<1>2. (op = "init" => \A i \in 1..Len(todo) : Quiet(todo[i]))'
  <2> SUFFICES ASSUME op' = "init"
               PROVE  \A i \in 1..Len(todo') : Quiet(todo'[i])
    OBVIOUS
  <2>1. CASE op = "init" /\ todo' = todo
    BY <2>1 DEF SetUpInv
  <2>2. CASE op = "init" /\ todo # <<>> /\ todo' = Tail(todo)
    <3>1. /\ Len(todo) \in Nat \ {0} /\ Len(Tail(todo)) = Len(todo) - 1
          /\ \A i \in 1 .. Len(todo) - 1 : Tail(todo)[i] = todo[i + 1]
      BY <1>1, <2>2
    <3>2. ASSUME NEW i \in 1 .. Len(todo) - 1
          PROVE  Quiet(Tail(todo)[i])
      <4>1. i + 1 \in 1..Len(todo)
        BY <3>1
      <4> QED
        BY <2>2, <3>1, <4>1 DEF SetUpInv
    <3> QED
      BY <2>2, <3>1, <3>2
  <2>3. CASE todo' = InitScript
    BY <2>3, SetUpSteps
  <2>4. \/ op = "init" /\ todo' = todo
        \/ op = "init" /\ todo # <<>> /\ todo' = Tail(todo)
        \/ todo' = InitScript
    <3>1. ~Release /\ ~Finished /\ ~Failed
      BY DEF Release, Finished, Failed
    <3>2. CASE Fill \/ Queue \/ Await \/ Reset \/ WaitBusy
      BY <3>1, <3>2 DEF Fill, Queue, Await, Reset, WaitBusy, Working, Advance
    <3>3. CASE \/ CallInit \/ Recover \/ InitDone
               \/ \E image \in Images : CallRefresh(image)
      BY <3>1, <3>3 DEF CallInit, Recover, InitDone, CallRefresh
    <3>4. CASE CallSleep \/ Done \/ CallDeinit \/ PortDeinit \/ DeadlinePasses
      BY <3>1, <3>4 DEF CallSleep, Done, CallDeinit, PortDeinit, DeadlinePasses
    <3>5. CASE Transmit \/ Refreshed \/ Reboot \/ UNCHANGED vars
      BY <3>5 DEF Transmit, Refreshed, Reboot, program, vars
    <3> QED
      BY <3>2, <3>3, <3>4, <3>5 DEF Next, Program
  <2> QED
    BY <2>1, <2>2, <2>3, <2>4
<1>3. (panel.refreshing => panel.powered)'
  <2>1. CASE panel' = panel
    BY <2>1 DEF SetUpInv
  <2>2. CASE Reset \/ Reboot
    BY <1>1, <2>2 DEF Reset, Reboot, Panels
  <2>3. CASE Transmit
    <3>1. ASSUME NEW step
          PROVE  Received(step).refreshing => Received(step).powered
      <4>1. CASE step.kind = "ram"
        BY <1>1, <4>1 DEF Received, SetUpInv, Panels
      <4>2. CASE step.kind = "pixels"
        BY <1>1, <4>2 DEF Received, SetUpInv, Panels
      <4>3. CASE step.kind = "power_on"
        BY <1>1, <4>3 DEF Received, SetUpInv, Panels
      <4>4. CASE step.kind = "power_off"
        BY <1>1, <4>4 DEF Received, SetUpInv, Panels
      <4>5. CASE step.kind = "refresh" /\ panel.powered
        BY <1>1, <4>5 DEF Received, SetUpInv, Panels
      <4>6. CASE /\ step.kind \notin {"ram", "pixels", "power_on", "power_off"}
                 /\ ~(step.kind = "refresh" /\ panel.powered)
        <5>1. Received(step) = panel
          BY <4>6 DEF Received
        <5> QED
          BY <5>1 DEF SetUpInv
      <4> QED
        BY <4>1, <4>2, <4>3, <4>4, <4>5, <4>6
    <3>2. \/ panel' = Received(transaction)
          \/ panel' = panel
          \/ panel' = [panel EXCEPT !.ram = <<Pixels(NoImage, 0)>>]
      BY <2>3 DEF Transmit
    <3> QED
      BY <1>1, <3>1, <3>2 DEF SetUpInv, Panels
  <2>4. CASE Refreshed
    BY <1>1, <2>4 DEF Refreshed, SetUpInv, Panels
  <2>5. panel' = panel \/ Reset \/ Reboot \/ Transmit \/ Refreshed
    BY DEF Next, Program, Fill, Queue, Await, WaitBusy, CallInit, Recover, InitDone,
       CallRefresh, CallSleep, Done, CallDeinit, PortDeinit, DeadlinePasses, vars
  <2> QED
    BY <2>1, <2>2, <2>3, <2>4, <2>5
<1> QED
  BY <1>2, <1>3 DEF SetUpInv

-----------------------------------------------------------------------------
(* What is in the panel's memory.                                          *)
LEMMA ScreenLength ==
    ASSUME NEW image \in Images
    PROVE  /\ Screen(image) \in Seq(Steps)
           /\ Len(Screen(image)) = Chunks
           /\ Screen(image)[1] = Pixels(image, 1)
<1>1. Screen(image) \in [1..Chunks -> Steps]
  BY StepTypes DEF Screen, MaybeImage
<1> QED
  BY <1>1, PanelAssumption DEF Screen

LEMMA MemoryWhole ==
    ASSUME NEW image \in Images
    PROVE  Whole(Screen(image)) = image
<1>1. ASSUME NEW other \in Images, Screen(image) = Screen(other)
      PROVE  other = image
  <2>1. Pixels(image, 1) = Pixels(other, 1)
    BY <1>1, ScreenLength
  <2> QED
    BY <2>1 DEF Pixels
<1> QED
  BY <1>1 DEF Whole

(* Less than an image, or pixels that are no part of one.                  *)
LEMMA MemoryShort ==
    ASSUME NEW ram \in Seq(Steps), Len(ram) < Chunks \/ ram = <<Pixels(NoImage, 0)>>
    PROVE  Whole(ram) = NoImage
<1>1. ASSUME NEW image \in Images, ram = Screen(image)
      PROVE  FALSE
  <2>1. CASE Len(ram) < Chunks
    BY <1>1, <2>1, ScreenLength, PanelAssumption
  <2>2. CASE ram = <<Pixels(NoImage, 0)>>
    <3>1. ram[1] = Pixels(NoImage, 0)
      BY <2>2
    <3>2. Pixels(NoImage, 0) = Pixels(image, 1)
      BY <1>1, <3>1, ScreenLength
    <3> QED
      BY <3>2 DEF Pixels
  <2> QED
    BY <2>1, <2>2
<1> QED
  BY <1>1 DEF Whole

(* The parts of the picture that the steps below speak of.                 *)
Memory == Whole(panel.ram)
Given == IF op = "refresh" THEN framebuffer ELSE NoImage

LEMMA CallKept ==
    ASSUME UNCHANGED <<op, todo, framebuffer>>
    PROVE  Call' = Call /\ Given' = Given
BY DEF Call, Given

(* A call that goes on, ends, or returns, while the panel does nothing.    *)
LEMMA CallMoves ==
    ASSUME PictureInv, PictureInv', UNCHANGED panel,
           \/ UNCHANGED <<op, framebuffer>> /\ todo # <<>>
           \/ op' \notin {"refresh", "sleep"}
    PROVE  [Picture!Next]_(Picture!vars)
<1>1. Memory' = Memory
  BY DEF Memory
<1>2. CASE op' \notin {"refresh", "sleep"}
  <2>1. Call' = "none" /\ Given' = NoImage
    BY <1>2 DEF Call, Given
  <2>2. CASE Call = "none"
    <3>1. Given = NoImage
      BY <2>2 DEF Call, Given
    <3> QED
      BY <1>1, <2>1, <2>2, <3>1 DEF Memory, Picture!vars, Given
  <2>3. CASE Call # "none"
    <3>1. Picture!Return
      BY <1>1, <2>1, <2>3 DEF Memory, Picture!Return, Given
    <3> QED
      BY <3>1 DEF Picture!Next
  <2> QED
    BY <2>2, <2>3
<1>3. CASE /\ UNCHANGED <<op, framebuffer>> /\ todo # <<>>
           /\ op' \in {"refresh", "sleep"}
  <2>1. Given' = Given /\ Call = op
    BY <1>3 DEF Given, Call
  <2>2. CASE todo' # <<>>
    <3>1. Call' = op
      BY <1>3, <2>2 DEF Call
    <3> QED
      BY <1>1, <2>1, <3>1 DEF Memory, Picture!vars, Given
  <2>3. CASE todo' = <<>>
    <3>1. Call' = "done"
      BY <1>3, <2>3 DEF Call
    <3>2. at' = "begin"
      BY <2>3 DEF PictureInv, PortInv, Ownership
    <3>3. Left' = 0
      BY <2>3, <3>2 DEF Left
    <3>4. ~panel'.powered /\ (op = "refresh" => panel'.shown = framebuffer)
      BY <1>3, <3>3 DEF PictureInv, ScriptInv, RefreshInv, SleepInv, Painted
    <3>5. ~panel.refreshing /\ ~panel.powered
      BY <3>4 DEF PictureInv, SetUpInv
    <3>6. \/ Call = "refresh" /\ panel.shown = Given
          \/ Call = "sleep"
      BY <1>3, <2>1, <3>4 DEF Given
    <3>7. Picture!Succeed
      BY <1>1, <2>1, <3>1, <3>5, <3>6 DEF Memory, Picture!Succeed, Given
    <3> QED
      BY <3>7 DEF Picture!Next
  <2> QED
    BY <2>2, <2>3
<1> QED
  BY <1>2, <1>3

(* What the call under way sends is what the picture may do.               *)
LEMMA SentMoves ==
    ASSUME PictureInv, PictureInv', Transmit, at = "await"
    PROVE  [Picture!Next]_(Picture!vars)
<1>1. /\ UNCHANGED <<op, todo, framebuffer>>
      /\ todo \in Seq(Steps) /\ todo # <<>> /\ Len(todo) \in Nat \ {0}
      /\ Step.kind \in Transfers /\ Step \in Steps /\ op \in Scripted
      /\ transaction = Step /\ panel' = Received(Step)
      /\ spi = "queued" /\ spi' = "sent" /\ at' = "await"
  BY ElementOfSeq DEF Transmit, program, PictureInv, PortInv, Ownership, ScriptInv,
                      TypeOK, Step
<1>2. panel \in Panels /\ panel' \in Panels
  BY DEF PictureInv, PortInv, TypeOK, Panels
<1>3. Call' = Call /\ Given' = Given
  BY <1>1, CallKept
<1>4. CASE Received(Step) = panel
  BY <1>1, <1>3, <1>4 DEF Memory, Picture!vars, Given
<1>5. CASE Received(Step) = [panel EXCEPT !.powered = TRUE] /\ op # "sleep"
  <2>1. /\ panel'.powered = TRUE /\ panel'.ram = panel.ram
        /\ panel'.shown = panel.shown /\ panel'.refreshing = panel.refreshing
    BY <1>1, <1>2, <1>5 DEF Panels
  <2>2. Call \in {"none", "refresh"}
    BY <1>1, <1>5 DEF Call
  <2>3. Picture!PowerOn
    BY <1>3, <2>1, <2>2 DEF Memory, Picture!PowerOn, Given
  <2> QED
    BY <2>3 DEF Picture!Next
<1>6. CASE /\ Received(Step) = [panel EXCEPT !.powered = FALSE, !.refreshing = FALSE]
           /\ op = "sleep" \/ (op = "refresh" /\ ~panel.refreshing)
  <2>1. /\ panel'.powered = FALSE /\ panel'.ram = panel.ram
        /\ panel'.shown = panel.shown /\ panel'.refreshing = FALSE
    BY <1>1, <1>2, <1>6 DEF Panels
  <2>2. Call = op
    BY <1>1, <1>6 DEF Call
  <2>3. Picture!PowerOff
    BY <1>3, <1>6, <2>1, <2>2 DEF Memory, Picture!PowerOff, Given
  <2> QED
    BY <2>3 DEF Picture!Next
<1>7. CASE op = "init"
  <2>1. Quiet(Step)
    BY <1>1, <1>7 DEF PictureInv, SetUpInv, Step
  <2>2. CASE Step.kind = "power_on"
    <3>1. Received(Step) = [panel EXCEPT !.powered = TRUE]
      BY <2>2 DEF Received
    <3> QED
      BY <1>5, <1>7, <3>1
  <2>3. CASE Step.kind = "data"
    <3>1. Received(Step) = panel
      BY <2>3 DEF Received
    <3> QED
      BY <1>4, <3>1
  <2> QED
    BY <1>1, <2>1, <2>2, <2>3 DEF Quiet, Transfers
<1>8. CASE op = "sleep"
  <2>1. /\ Len(todo) \in 1..3
        /\ Len(todo) = 3 => Step = Do("power_off")
        /\ Len(todo) = 2 => Step = Do("data")
        /\ Len(todo) = 1 => Step = Do("busy")
    BY <1>1, <1>8, SleepSteps DEF PictureInv, PortInv, ScriptInv, SleepInv
  <2>2. CASE Len(todo) = 3
    <3>1. Received(Step) = [panel EXCEPT !.powered = FALSE, !.refreshing = FALSE]
      BY <2>1, <2>2 DEF Received, Do
    <3> QED
      BY <1>6, <1>8, <3>1
  <2>3. CASE Len(todo) = 2
    <3>1. Received(Step) = panel
      BY <2>1, <2>3 DEF Received, Do
    <3> QED
      BY <1>4, <3>1
  <2>4. Len(todo) # 1
    BY <1>1, <2>1 DEF Do, Transfers
  <2> QED
    BY <2>1, <2>2, <2>3, <2>4
<1>9. CASE op = "refresh"
  <2>1. PICK n \in Nat : n = Len(todo)
    BY <1>1
  <2>2. Left = n /\ Left' = n - 1
    BY <1>1, <2>1 DEF Left
  <2>3. /\ framebuffer \in Images /\ IsRest(todo, RefreshScript(framebuffer))
        /\ Painted(panel, framebuffer, n)
    BY <1>9, <2>2 DEF PictureInv, ScriptInv, RefreshInv
  <2>4. Painted(panel', framebuffer, n - 1)
    BY <1>1, <1>9, <2>2 DEF PictureInv, ScriptInv, RefreshInv
  <2>5. /\ n \in 1 .. Chunks + 10
        /\ n = Chunks + 10 => Step = Do("ram")
        /\ n \in 10 .. Chunks + 9 => Step = Pixels(framebuffer, Chunks + 10 - n)
        /\ n \in 1..9 => Step = TurnOnDisplay[10 - n]
    BY <1>1, <2>1, <2>3, StepOfRefresh DEF PictureInv, PortInv
  <2>6. Call = "refresh" /\ Given = framebuffer /\ Chunks \in Nat \ {0}
    BY <1>1, <1>9, PanelAssumption DEF Call, Given
  <2>7. CASE n \in 10 .. Chunks + 10
    <3>1. Step.kind \in {"ram", "pixels"}
      BY <2>5, <2>6, <2>7 DEF Do, Pixels
    <3>2. /\ panel'.powered = panel.powered /\ panel'.shown = panel.shown
          /\ panel'.refreshing = panel.refreshing
      BY <1>1, <1>2, <3>1 DEF Received, Panels
    <3>3. CASE n = 10
      <4>1. panel'.ram = Screen(framebuffer)
        BY <2>4, <3>3 DEF Painted
      <4>2. Memory' = framebuffer
        BY <2>3, <4>1, MemoryWhole DEF Memory
      <4>3. Picture!Load
        BY <1>3, <2>6, <3>2, <4>2 DEF Memory, Picture!Load, Given
      <4> QED
        BY <4>3 DEF Picture!Next
    <3>4. CASE n # 10
      <4>1. n - 1 \in 9 .. Chunks + 9 /\ Chunks + 9 - (n - 1) < Chunks
        BY <2>6, <2>7, <3>4
      <4>2. Len(panel'.ram) < Chunks /\ panel'.ram \in Seq(Steps)
        BY <1>2, <2>4, <4>1 DEF Painted, Panels
      <4>3. Memory' = NoImage
        BY <4>2, MemoryShort DEF Memory
      <4>4. Picture!Spoil
        BY <1>3, <3>2, <4>3 DEF Memory, Picture!Spoil, Given
      <4> QED
        BY <4>4 DEF Picture!Next
    <3> QED
      BY <3>3, <3>4
  <2>8. CASE n \in 1..9
    <3>1. Step = TurnOnDisplay[10 - n]
      BY <2>5, <2>8
    <3>2. CASE n = 9
      <4>1. Received(Step) = [panel EXCEPT !.powered = TRUE]
        BY <3>1, <3>2, TurnOnSteps DEF Received, Do
      <4> QED
        BY <1>5, <1>9, <4>1
    <3>3. CASE n = 6
      <4>1. panel.powered /\ panel.ram = Screen(framebuffer)
        BY <2>3, <3>3 DEF Painted
      <4>2. Received(Step) = [panel EXCEPT !.shown = NoImage, !.refreshing = TRUE]
        BY <3>1, <3>3, <4>1, TurnOnSteps DEF Received, Do
      <4>3. /\ panel'.powered = panel.powered /\ panel'.shown = NoImage
            /\ panel'.refreshing = TRUE /\ panel'.ram = panel.ram
        BY <1>1, <1>2, <4>2 DEF Panels
      <4>4. Memory = Given /\ Memory' = Memory
        BY <2>3, <2>6, <4>1, <4>3, MemoryWhole DEF Memory
      <4>5. Picture!Draw
        BY <1>3, <2>6, <4>1, <4>3, <4>4 DEF Memory, Picture!Draw, Given
      <4> QED
        BY <4>5 DEF Picture!Next
    <3>4. CASE n = 3
      <4>1. Received(Step) = [panel EXCEPT !.powered = FALSE, !.refreshing = FALSE]
        BY <3>1, <3>4, TurnOnSteps DEF Received, Do
      <4>2. ~panel.refreshing
        BY <2>3, <3>4 DEF Painted
      <4> QED
        BY <1>6, <1>9, <4>1, <4>2
    <3>5. CASE n \in {2, 5, 7}
      <4>1. Received(Step) = panel
        BY <3>1, <3>5, TurnOnSteps DEF Received, Do
      <4> QED
        BY <1>4, <4>1
    <3>6. n \notin {1, 4, 8}
      BY <1>1, <2>8, <3>1, TurnOnSteps DEF Do, Transfers
    <3> QED
      BY <2>8, <3>2, <3>3, <3>4, <3>5, <3>6
  <2> QED
    BY <2>5, <2>6, <2>7, <2>8
<1> QED
  BY <1>1, <1>7, <1>8, <1>9 DEF Scripted

(* Every step of the driver, the SPI driver and the panel is a step of the *)
(* picture or none.                                                        *)
LEMMA PictureStep ==
    ASSUME PictureInv, PictureInv', [Next]_vars
    PROVE  [Picture!Next]_(Picture!vars)
<1>1. panel \in Panels /\ panel' \in Panels
  BY DEF PictureInv, PortInv, TypeOK, Panels
<1>2. CASE Fill \/ Queue \/ Await \/ WaitBusy
  <2>1. UNCHANGED <<panel, framebuffer>> /\ todo # <<>>
    BY <1>2 DEF Fill, Queue, Await, WaitBusy, Working
  <2>2. op' = op \/ op' \notin {"refresh", "sleep"}
    BY <1>2 DEF Fill, Queue, Await, WaitBusy, Failed, Release, Finished, Advance
  <2> QED
    BY <2>1, <2>2, CallMoves
<1>3. CASE Reset
  <2>1. /\ op \in Scripted /\ todo # <<>> /\ Step.kind = "reset"
        /\ UNCHANGED <<op, framebuffer>>
        /\ panel' = [panel EXCEPT !.ram = <<>>, !.powered = FALSE, !.refreshing = FALSE]
    BY <1>3 DEF Reset, Working, Advance, Scripted
  <2>2. op # "refresh"
    BY <2>1, StepKinds DEF PictureInv, PortInv, ScriptInv, RefreshInv
  <2>3. op # "sleep"
    BY <2>1, SleepSteps DEF PictureInv, PortInv, ScriptInv, SleepInv, Do
  <2>4. /\ Call = "none" /\ Call' = "none" /\ Given = NoImage /\ Given' = NoImage
    BY <2>1, <2>2, <2>3 DEF Call, Given
  <2>5. /\ panel'.ram = <<>> /\ panel'.powered = FALSE /\ panel'.refreshing = FALSE
        /\ panel'.shown = panel.shown
    BY <1>1, <2>1 DEF Panels
  <2>6. Memory' = NoImage
    <3>1. panel'.ram \in Seq(Steps) /\ Len(panel'.ram) < Chunks
      BY <2>5, NoSteps, PanelAssumption
    <3> QED
      BY <3>1, MemoryShort DEF Memory
  <2>7. Picture!Reset
    BY <2>4, <2>5, <2>6 DEF Memory, Picture!Reset, Given
  <2> QED
    BY <2>7 DEF Picture!Next
<1>4. CASE CallInit \/ Recover \/ InitDone \/ Done \/ CallDeinit \/ PortDeinit
  <2>1. UNCHANGED panel
    BY <1>4 DEF CallInit, Recover, InitDone, Done, CallDeinit, PortDeinit
  <2>2. op' \notin {"refresh", "sleep"}
    BY <1>4 DEF CallInit, Recover, InitDone, Done, CallDeinit, PortDeinit, Release, Finished
  <2> QED
    BY <2>1, <2>2, CallMoves
<1>5. CASE CallSleep \/ \E image \in Images : CallRefresh(image)
  <2>1. UNCHANGED panel /\ op = "idle" /\ Call = "none" /\ Given = NoImage
    BY <1>5 DEF CallSleep, CallRefresh, Call, Given
  <2>2. Memory' = Memory
    BY <2>1 DEF Memory
  <2>3. CASE op' = "idle"
    BY <2>1, <2>3, CallMoves
  <2>4. ASSUME NEW image \in Images, op' = "refresh", todo' = RefreshScript(image),
               framebuffer' = image
        PROVE  Picture!Next
    <3>1. todo' # <<>>
      <4>1. Len(todo') = Chunks + 10 /\ Chunks \in Nat
        BY <2>4, RefreshSteps, PanelAssumption
      <4> QED
        BY <4>1
    <3>2. Call' = "refresh" /\ Given' = image
      BY <2>4, <3>1 DEF Call, Given
    <3>3. Picture!Refresh(image)
      BY <2>1, <2>2, <3>2 DEF Memory, Picture!Refresh, Given
    <3> QED
      BY <3>3 DEF Picture!Next
  <2>5. CASE op' = "sleep" /\ todo' = SleepScript
    <3>1. Call' = "sleep" /\ Given' = NoImage
      BY <2>5 DEF Call, Given, SleepScript
    <3>2. Picture!Sleep
      BY <2>1, <2>2, <3>1 DEF Memory, Picture!Sleep, Given
    <3> QED
      BY <3>2 DEF Picture!Next
  <2> QED
    BY <1>5, <2>1, <2>3, <2>4, <2>5 DEF CallSleep, CallRefresh
<1>6. CASE Transmit
  <2>1. CASE at = "await"
    BY <1>6, <2>1, SentMoves
  <2>2. CASE at # "await"
    <3>1. /\ UNCHANGED <<op, todo, framebuffer>>
          /\ \/ panel' = panel
             \/ panel' = [panel EXCEPT !.ram = <<Pixels(NoImage, 0)>>]
      BY <1>6, <2>2 DEF Transmit, program
    <3>2. Call' = Call /\ Given' = Given
      BY <3>1, CallKept
    <3>3. CASE panel' = panel
      BY <3>2, <3>3 DEF Memory, Picture!vars, Given
    <3>4. CASE panel' = [panel EXCEPT !.ram = <<Pixels(NoImage, 0)>>]
      <4>1. /\ panel'.ram = <<Pixels(NoImage, 0)>> /\ panel'.powered = panel.powered
            /\ panel'.shown = panel.shown /\ panel'.refreshing = panel.refreshing
            /\ panel'.ram \in Seq(Steps)
        BY <1>1, <3>4 DEF Panels
      <4>2. Memory' = NoImage
        BY <4>1, MemoryShort DEF Memory
      <4>3. Picture!Spoil
        BY <3>2, <4>1, <4>2 DEF Memory, Picture!Spoil, Given
      <4> QED
        BY <4>3 DEF Picture!Next
    <3> QED
      BY <3>1, <3>3, <3>4
  <2> QED
    BY <2>1, <2>2
<1>7. CASE Refreshed
  <2>1. panel.refreshing /\ UNCHANGED <<op, todo, framebuffer>>
    BY <1>7 DEF Refreshed, program
  <2>2. Call' = Call /\ Given' = Given
    BY <2>1, CallKept
  <2>3. /\ panel'.refreshing = FALSE /\ panel'.ram = panel.ram
        /\ panel'.powered = panel.powered
    BY <1>1, <1>7 DEF Refreshed, Panels
  <2>4. panel'.shown = IF Memory = NoImage THEN panel.shown ELSE Memory
    <3>1. ASSUME NEW image \in Images, panel.ram = Screen(image),
                 panel' = [panel EXCEPT !.refreshing = FALSE, !.shown = image]
          PROVE  panel'.shown = IF Memory = NoImage THEN panel.shown ELSE Memory
      <4>1. Memory = image /\ Memory # NoImage
        BY <3>1, MemoryWhole, PanelAssumption DEF Memory
      <4> QED
        BY <1>1, <3>1, <4>1 DEF Panels
    <3>2. ASSUME \A image \in Images : panel.ram # Screen(image),
                 panel' = [panel EXCEPT !.refreshing = FALSE]
          PROVE  panel'.shown = IF Memory = NoImage THEN panel.shown ELSE Memory
      BY <1>1, <3>2 DEF Memory, Whole, Panels
    <3> QED
      BY <1>7, <3>1, <3>2 DEF Refreshed
  <2>5. Picture!Appear
    BY <2>1, <2>2, <2>3, <2>4 DEF Memory, Picture!Appear, Given
  <2> QED
    BY <2>5 DEF Picture!Next
<1>8. CASE Reboot
  <2>1. Call' = "none" /\ Given' = NoImage
    BY <1>8 DEF Reboot, Call, Given
  <2>2. /\ panel'.refreshing = FALSE /\ panel'.ram = panel.ram
        /\ panel'.powered = panel.powered /\ panel'.shown = panel.shown
    BY <1>1, <1>8 DEF Reboot, Panels
  <2>3. Picture!Reboot
    BY <2>1, <2>2 DEF Memory, Picture!Reboot, Given
  <2> QED
    BY <2>3 DEF Picture!Next
<1>9. CASE DeadlinePasses \/ UNCHANGED vars
  <2>1. UNCHANGED <<op, todo, framebuffer, panel>>
    BY <1>9 DEF DeadlinePasses, vars
  <2> QED
    BY <2>1, CallKept DEF Memory, Picture!vars, Given
<1> QED
  BY <1>2, <1>3, <1>4, <1>5, <1>6, <1>7, <1>8, <1>9 DEF Next, Program

(* The driver implements the picture that only a refresh changes, for any  *)
(* images and any number of chunks, wherever calls are cut short, however  *)
(* late transfers go out and whenever the power fails: no image appears    *)
(* that no refresh was given, and none in part by a call that succeeds.    *)
THEOREM PortImplementsPicture == Spec => ImplementsPicture
<1>1. Init => Ownership /\ ScriptInv /\ SetUpInv
  BY DEF Init, Ownership, Scripted, ScriptInv, RefreshInv, SleepInv, SetUpInv
<1>2. Init => Picture!Init
  <2> SUFFICES ASSUME Init PROVE Picture!Init
    OBVIOUS
  <2>1. panel.ram \in Seq(Steps) /\ Len(panel.ram) < Chunks
    BY NoSteps, PanelAssumption DEF Init
  <2>2. Memory = NoImage
    BY <2>1, MemoryShort DEF Memory
  <2> QED
    BY <2>2 DEF Init, Call, Memory, Picture!Init
<1>3. PictureInv /\ [Next]_vars /\ TypeOK' => PictureInv'
  BY OwnershipStep, ScriptStep, SetUpStep DEF PictureInv, PortInv
<1>4. PictureInv /\ PictureInv' /\ [Next]_vars => [Picture!Next]_(Picture!vars)
  BY PictureStep
<1>5. Init /\ TypeOK => PictureInv
  BY <1>1 DEF PictureInv, PortInv
<1> QED
  BY <1>2, <1>3, <1>4, <1>5, TypeCorrect, PTL DEF Spec, ImplementsPicture, Picture!Spec
=============================================================================
