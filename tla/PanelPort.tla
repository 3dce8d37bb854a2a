----------------------------- MODULE PanelPort ------------------------------
(***************************************************************************)
(* The panel driver: epd_driver.c over epaper_port.c, as run_once calls    *)
(* it. An operation is a script of steps: bytes and pixel chunks, which go *)
(* through the one static SPI transaction, and waits for BUSY. The SPI     *)
(* driver and the panel are what these files make of ESP-IDF and of the    *)
(* hardware: a queued transfer goes out whenever it does.                  *)
(***************************************************************************)
EXTENDS Naturals, Sequences

CONSTANTS
    Images,    \* what the framebuffer can hold
    NoImage,   \* none, or a screen that is no image of Images
    Chunks     \* transfers of EPD_SPI_CHUNK bytes to an image; 39 in the code

ASSUME PanelAssumption == NoImage \notin Images /\ Chunks \in Nat \ {0}

VARIABLES
    (* run_once and epd_driver.c *)
    caller,        \* where run_once is: "asleep", "up", "refreshed", "slept"
    initialized,   \* s_initialized
    framebuffer,   \* the image in s_framebuffer
    (* epaper_port.c *)
    ready,         \* s_spi_ready: bus, device and DMA buffer are allocated
    inflight,      \* s_transaction_inflight
    poisoned,      \* s_poisoned
    deadline,      \* s_operation_deadline_us: "none", "ahead" or "past"
    transaction,   \* what s_transaction makes the SPI driver send
    (* the call under way *)
    op,            \* "idle", "init", "recover", "refresh", "sleep", "release"
    todo,          \* the steps of op still to do
    at,            \* in the first of them: "begin", "queue" or "await"
    (* hardware *)
    spi,           \* the transaction in the SPI driver: "free", "queued", "sent"
    panel          \* what the panel received, shows and does

program == <<initialized, framebuffer, ready, inflight, poisoned, deadline,
             transaction, op, todo, at>>
vars == <<caller, initialized, framebuffer, ready, inflight, poisoned, deadline,
          transaction, op, todo, at, spi, panel>>

MaybeImage == Images \cup {NoImage}
Transfers == {"data", "power_on", "power_off", "ram", "refresh", "pixels"}
Steps == [kind : Transfers \cup {"reset", "busy"}, image : MaybeImage,
          part : 0..Chunks]

Do(kind) == [kind |-> kind, image |-> NoImage, part |-> 0]
Pixels(image, part) == [kind |-> "pixels", image |-> image, part |-> part]
Screen(image) == [part \in 1..Chunks |-> Pixels(image, part)]

(* The commands behind epaper_port_init, _display and _sleep. "data" stands *)
(* for the bytes, one or many, that set registers or complete a command.   *)
InitScript ==
    <<Do("reset"), Do("busy"), Do("data"), Do("power_on"), Do("busy")>>

(* Mutant of TurnOnDisplay: no wait for the refresh before the power-off.  *)
TurnOnDisplayInHaste ==
    <<Do("power_on"), Do("busy"), Do("data"), Do("refresh"), Do("data"),
      Do("power_off"), Do("data"), Do("busy")>>

TurnOnDisplay ==
    <<Do("power_on"), Do("busy"), Do("data"), Do("refresh"), Do("data"),
      Do("busy"), Do("power_off"), Do("data"), Do("busy")>>

RefreshScript(image) == <<Do("ram")>> \o Screen(image) \o TurnOnDisplay
SleepScript == <<Do("power_off"), Do("data"), Do("busy")>>

Init ==
    /\ caller = "asleep"
    /\ initialized = FALSE
    /\ framebuffer = NoImage
    /\ ready = FALSE
    /\ inflight = FALSE
    /\ poisoned = FALSE
    /\ deadline = "none"
    /\ transaction = Do("data")
    /\ op = "idle"
    /\ todo = <<>>
    /\ at = "begin"
    /\ spi = "free"
    /\ panel = [ram |-> <<>>, shown |-> NoImage, powered |-> FALSE, refreshing |-> FALSE]

-----------------------------------------------------------------------------
(* The parts of an operation.                                              *)

(* epaper_port_deinit is next, for a failed init and for a deinit.         *)
Release == op' = "release" /\ todo' = <<>> /\ at' = "begin"

(* The operation is over: a failed init still releases what it took.       *)
Finished ==
    /\ op' = "idle"
    /\ todo' = <<>>
    /\ at' = "begin"

Failed == IF op = "init" THEN Release ELSE Finished

Advance == todo' = Tail(todo) /\ at' = "begin" /\ UNCHANGED op

Working == op \in {"init", "refresh", "sleep"} /\ todo # <<>>

Step == Head(todo)

(* spi_timeout_ticks() is 0. *)
NoTimeLeft == deadline = "past"

(* Mutant of Drained: the flag of the collected transaction stays up.      *)
DrainedFlagKept ==
    \/ ~inflight /\ UNCHANGED <<inflight, spi>>
    \/ inflight /\ spi = "sent" /\ UNCHANGED inflight /\ spi' = "free"

(* drain_transaction: nothing to do, the result is there, or it is not     *)
(* there in time.                                                          *)
Drained ==
    \/ ~inflight /\ UNCHANGED <<inflight, spi>>
    \/ inflight /\ spi = "sent" /\ inflight' = FALSE /\ spi' = "free"

NotDrained == inflight /\ spi # "sent" /\ UNCHANGED <<inflight, spi>>

(* spi_send_byte and the loop of epaper_send_buffer, up to the transaction *)
(* being filled in. A send_byte that cannot drain does not poison.         *)
Fill ==
    /\ Working
    /\ at = "begin"
    /\ Step.kind \in Transfers
    /\ \/ /\ poisoned
          /\ Failed
          /\ UNCHANGED <<inflight, poisoned, transaction, spi>>
       \/ /\ ~poisoned
          /\ NotDrained
          /\ poisoned' = (Step.kind = "pixels")
          /\ Failed
          /\ UNCHANGED transaction
       \/ /\ ~poisoned
          /\ Drained
          /\ transaction' = Step
          /\ at' = "queue"
          /\ UNCHANGED <<poisoned, op, todo>>
    /\ UNCHANGED <<caller, initialized, framebuffer, ready, deadline, panel>>

(* No time left, or spi_device_queue_trans; a failure leaves no trace.     *)
Queue ==
    /\ Working
    /\ at = "queue"
    /\ \/ /\ Failed
          /\ UNCHANGED <<inflight, spi>>
       \/ /\ ~NoTimeLeft
          /\ at' = "await"
          /\ inflight' = TRUE
          /\ spi' = "queued"
          /\ UNCHANGED <<op, todo>>
    /\ UNCHANGED <<caller, initialized, framebuffer, ready, poisoned, deadline,
                   transaction, panel>>

(* The drain after it; a transfer that is not done in time poisons.        *)
Await ==
    /\ Working
    /\ at = "await"
    /\ \/ Drained /\ Advance /\ UNCHANGED poisoned
       \/ NotDrained /\ Failed /\ poisoned' = TRUE
    /\ UNCHANGED <<caller, initialized, framebuffer, ready, deadline,
                   transaction, panel>>

(* epaper_reset: the panel forgets everything but its picture.             *)
Reset ==
    /\ Working
    /\ Step.kind = "reset"
    /\ Advance
    /\ panel' = [panel EXCEPT !.ram = <<>>, !.powered = FALSE, !.refreshing = FALSE]
    /\ UNCHANGED <<caller, initialized, framebuffer, ready, inflight, poisoned,
                   deadline, transaction, spi>>

(* Mutant of WaitBusy: the end of the wait is not told from a free panel.  *)
WaitBusyUnheeded ==
    /\ Working
    /\ Step.kind = "busy"
    /\ Advance
    /\ UNCHANGED <<caller, initialized, framebuffer, ready, inflight, poisoned,
                   deadline, transaction, spi, panel>>

(* epaper_readbusyh; BUSY is low while the panel refreshes, and may stay   *)
(* low for longer than the code waits.                                     *)
WaitBusy ==
    /\ Working
    /\ Step.kind = "busy"
    /\ \/ ~NoTimeLeft /\ ~panel.refreshing /\ Advance
       \/ Failed
    /\ UNCHANGED <<caller, initialized, framebuffer, ready, inflight, poisoned,
                   deadline, transaction, spi, panel>>

-----------------------------------------------------------------------------
(* The operations.                                                         *)

(* epd_driver_set_deadline_us and epd_driver_init at the start of a wake.  *)
(* epaper_port_init first recovers from a transaction left behind.         *)
CallInit ==
    /\ op = "idle"
    /\ caller = "asleep"
    /\ ~initialized
    /\ deadline' = "ahead"
    /\ op' = "recover"
    /\ UNCHANGED <<caller, initialized, framebuffer, ready, inflight, poisoned,
                   transaction, todo, at, spi, panel>>

(* drain_transaction_for_cleanup, epaper_spi_init and epaper_gpio_init.    *)
Recover ==
    /\ op = "recover"
    /\ \/ /\ poisoned
          /\ NotDrained
          /\ Release
          /\ UNCHANGED <<poisoned, ready>>
       \/ /\ IF poisoned THEN Drained ELSE UNCHANGED <<inflight, spi>>
          /\ poisoned' = FALSE
          /\ \/ ready' \in {ready, TRUE} /\ Release
             \/ /\ ready' = TRUE
                /\ op' = "init"
                /\ todo' = InitScript
                /\ UNCHANGED at
    /\ UNCHANGED <<caller, initialized, framebuffer, deadline, transaction, panel>>

(* The rest of epd_driver_init: no framebuffer and the port is released,   *)
(* as the panel is, powered.                                               *)
InitDone ==
    /\ op = "init"
    /\ todo = <<>>
    /\ \/ Release /\ UNCHANGED <<initialized, caller>>
       \/ Finished /\ initialized' = TRUE /\ caller' = "up"
    /\ UNCHANGED <<framebuffer, ready, inflight, poisoned, deadline, transaction,
                   spi, panel>>

(* epd_driver_refresh, which a wake calls at most once and in time.        *)
CallRefresh(image) ==
    /\ op = "idle"
    /\ caller = "up"
    /\ initialized
    /\ deadline # "past"
    /\ caller' = "refreshed"
    /\ framebuffer' = image
    /\ IF ready
       THEN op' = "refresh" /\ todo' = RefreshScript(image)
       ELSE UNCHANGED <<op, todo>>
    /\ UNCHANGED <<initialized, ready, inflight, poisoned, deadline, transaction,
                   at, spi, panel>>

(* epd_driver_sleep, at the end of every wake that had the display.        *)
CallSleep ==
    /\ op = "idle"
    /\ caller \in {"up", "refreshed"}
    /\ caller' = "slept"
    /\ IF initialized /\ ready
       THEN op' = "sleep" /\ todo' = SleepScript
       ELSE UNCHANGED <<op, todo>>
    /\ UNCHANGED <<initialized, framebuffer, ready, inflight, poisoned, deadline,
                   transaction, at, spi, panel>>

Done ==
    /\ op \in {"refresh", "sleep"}
    /\ todo = <<>>
    /\ Finished
    /\ UNCHANGED <<caller, initialized, framebuffer, ready, inflight, poisoned,
                   deadline, transaction, spi, panel>>

(* epd_driver_deinit: the framebuffer goes, then the port.                 *)
CallDeinit ==
    /\ op = "idle"
    /\ caller = "slept"
    /\ caller' = "asleep"
    /\ framebuffer' = NoImage
    /\ initialized' = FALSE
    /\ Release
    /\ UNCHANGED <<ready, inflight, poisoned, deadline, transaction, spi, panel>>

(* Mutant of PortDeinit: the bus is released whatever the drain returned.  *)
PortDeinitUnchecked ==
    /\ op = "release"
    /\ Finished
    /\ Drained \/ NotDrained
    /\ ready' = FALSE
    /\ deadline' = "none"
    /\ poisoned' = FALSE
    /\ UNCHANGED <<caller, initialized, framebuffer, transaction, panel>>

(* epaper_port_deinit. What the SPI driver still owns is kept.             *)
PortDeinit ==
    /\ op = "release"
    /\ Finished
    /\ \/ /\ ready
          /\ NotDrained
          /\ poisoned' = TRUE
          /\ UNCHANGED <<ready, deadline>>
       \/ /\ IF ready THEN Drained ELSE UNCHANGED <<inflight, spi>>
          /\ ready' = FALSE
          /\ deadline' = "none"
          /\ poisoned' = FALSE
    /\ UNCHANGED <<caller, initialized, framebuffer, transaction, panel>>

-----------------------------------------------------------------------------
(* Time and hardware.                                                      *)

DeadlinePasses ==
    /\ deadline = "ahead"
    /\ deadline' = "past"
    /\ UNCHANGED <<caller, initialized, framebuffer, ready, inflight, poisoned,
                   transaction, op, todo, at, spi, panel>>

(* What the panel makes of a transfer while it is selected.                *)
Received(step) ==
    CASE step.kind = "ram" -> [panel EXCEPT !.ram = <<>>]
      [] step.kind = "pixels" -> [panel EXCEPT !.ram = Append(@, step)]
      [] step.kind = "power_on" -> [panel EXCEPT !.powered = TRUE]
      [] step.kind = "power_off" ->
            [panel EXCEPT !.powered = FALSE, !.refreshing = FALSE]
      [] step.kind = "refresh" /\ panel.powered ->
            [panel EXCEPT !.shown = NoImage, !.refreshing = TRUE]
      [] OTHER -> panel

(* The SPI driver sends what the transaction points at by now. Once the    *)
(* call has given up the panel is deselected; if another selects it, the   *)
(* panel may take the bytes for pixels.                                    *)
Transmit ==
    /\ spi = "queued"
    /\ spi' = "sent"
    /\ panel' \in IF at = "await" THEN {Received(transaction)}
                  ELSE {panel, [panel EXCEPT !.ram = <<Pixels(NoImage, 0)>>]}
    /\ UNCHANGED <<caller, program>>

(* The refresh the panel was told to make completes.                       *)
Refreshed ==
    /\ panel.refreshing
    /\ \/ \E image \in Images :
             /\ panel.ram = Screen(image)
             /\ panel' = [panel EXCEPT !.refreshing = FALSE, !.shown = image]
       \/ /\ \A image \in Images : panel.ram # Screen(image)
          /\ panel' = [panel EXCEPT !.refreshing = FALSE]
    /\ UNCHANGED <<caller, program, spi>>

(* Power loss, reset, or the deep sleep of a build that uses it.           *)
Reboot ==
    /\ caller' = "asleep"
    /\ initialized' = FALSE
    /\ framebuffer' = NoImage
    /\ ready' = FALSE
    /\ inflight' = FALSE
    /\ poisoned' = FALSE
    /\ deadline' = "none"
    /\ op' = "idle"
    /\ todo' = <<>>
    /\ at' = "begin"
    /\ spi' = "free"
    /\ panel' = [panel EXCEPT !.refreshing = FALSE]
    /\ UNCHANGED transaction

Program ==
    \/ Fill
    \/ Queue
    \/ Await
    \/ Reset
    \/ WaitBusy
    \/ CallInit
    \/ Recover
    \/ InitDone
    \/ \E image \in Images : CallRefresh(image)
    \/ CallSleep
    \/ Done
    \/ CallDeinit
    \/ PortDeinit

Next ==
    \/ Program
    \/ DeadlinePasses
    \/ Transmit
    \/ Refreshed
    \/ Reboot

Spec == Init /\ [][Next]_vars

(* The main task runs: every wait in it has a time limit. The SPI driver   *)
(* gets round to what is queued.                                           *)
FairSpec == Spec /\ WF_vars(Program) /\ WF_vars(Transmit)

-----------------------------------------------------------------------------
(* Type invariant; no transfer reads beyond the framebuffer.               *)
TypeOK ==
    /\ caller \in {"asleep", "up", "refreshed", "slept"}
    /\ initialized \in BOOLEAN
    /\ framebuffer \in MaybeImage
    /\ ready \in BOOLEAN
    /\ inflight \in BOOLEAN
    /\ poisoned \in BOOLEAN
    /\ deadline \in {"none", "ahead", "past"}
    /\ transaction \in Steps
    /\ op \in {"idle", "recover", "init", "refresh", "sleep", "release"}
    /\ todo \in Seq(Steps)
    /\ at \in {"begin", "queue", "await"}
    /\ spi \in {"free", "queued", "sent"}
    /\ panel \in [ram : Seq(Steps), shown : MaybeImage,
                  powered : BOOLEAN, refreshing : BOOLEAN]

(* While the SPI driver owns the transaction, neither it nor its buffer is *)
(* written, nor the bus, the device or the buffer released: the driver     *)
(* would send other bytes than those that were queued, or touch freed      *)
(* memory.                                                                 *)
OwnedUntouched ==
    [][spi # "free" /\ spi' # "free" => ready' /\ UNCHANGED transaction]_vars

(* A refresh that reports success has put the whole framebuffer on the     *)
(* panel and switched its power off, and a sleep that reports success has  *)
(* done the latter, whatever transfers earlier calls left behind.          *)
SuccessIsTrue ==
    [][Done => /\ ~panel.powered
               /\ op = "refresh" => panel.shown = framebuffer]_vars

(* The memory a timed-out transfer keeps is not kept for ever: some later  *)
(* init or deinit collects the transaction and the panel works again.      *)
PoisonHeals == poisoned ~> ~poisoned

(* The image that memory of the panel is, if it is a whole one.            *)
Whole(ram) ==
    IF \E image \in Images : ram = Screen(image)
    THEN CHOOSE image \in Images : ram = Screen(image)
    ELSE NoImage

(* A call with no step left is about to report success.                    *)
Call ==
    IF op \notin {"refresh", "sleep"} THEN "none"
    ELSE IF todo = <<>> THEN "done" ELSE op

Picture == INSTANCE PanelPicture WITH
    call <- Call,
    image <- IF op = "refresh" THEN framebuffer ELSE NoImage,
    memory <- Whole(panel.ram),
    shown <- panel.shown,
    powered <- panel.powered,
    refreshing <- panel.refreshing

(* epd_driver.c implements one picture that only a refresh changes: a call *)
(* cut short at any transfer or wait, with transfers that go out late,     *)
(* lets the panel show what it did, nothing whole or the image it was      *)
(* given, that one maybe later, and never another; ESP_OK means it shows   *)
(* and is off; no refresh cuts the power while the panel is changing.      *)
ImplementsPicture == Picture!Spec
=============================================================================
