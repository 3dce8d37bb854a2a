------------------------------ MODULE BearerKey ------------------------------
(***************************************************************************)
(* How the display comes by its key: load_bearer_key and                   *)
(* provision_bearer_key of main/ha_frame_runtime.c. The key is read from   *)
(* NVS at every wake; while NVS has none, it is asked for on the serial    *)
(* line for a minute. NVS calls may fail and the display may lose power    *)
(* at any step.                                                            *)
(***************************************************************************)
EXTENDS Integers, Sequences

CONSTANTS
    Printable,  \* bytes 0x21..0x7E
    Nul,
    KeyMax,     \* HA_KEY_MAX
    MaxBytes    \* bound on the bytes that arrive in one prompt

ASSUME KeyAssumption ==
    /\ KeyMax \in Nat \ {0}
    /\ Nul \notin Printable

VARIABLES
    kpc,      \* "off", the steps of load and provision, "done"
    key,      \* char key[HA_KEY_MAX + 1]
    length,
    stored,   \* the string in NVS, or Absent
    pending,  \* nvs_set_str without nvs_commit
    result,   \* what load_bearer_key returned
    \* History.
    bytes,    \* bytes read at this prompt
    line,     \* printable bytes since the last one that was not
    left,     \* what the lines given up at this prompt left in the buffer
    entered   \* the last prompt was ended by Enter

keyVars == <<kpc, key, length, stored, pending, result, bytes, line, left, entered>>

Absent == <<Nul>>

Empty == [i \in 0..KeyMax |-> Nul]

IsEnd(i) == key[i] = Nul /\ \A j \in 0..(i - 1) : key[j] # Nul

Terminated == \E i \in 0..KeyMax : IsEnd(i)

(* The string in the buffer, up to the first NUL.                          *)
String == LET end == CHOOSE i \in 0..KeyMax : IsEnd(i)
          IN  [i \in 1..end |-> key[i - 1]]

ValidBearerKey == Terminated /\ key[0] # Nul

(* A line written over what an earlier one left, which goes on behind it.  *)
Overlay(new, old) ==
    [i \in 1..(IF Len(new) >= Len(old) THEN Len(new) ELSE Len(old)) |->
        IF i <= Len(new) THEN new[i] ELSE old[i]]

Fill(text) == [i \in 0..KeyMax |-> IF i < Len(text) THEN text[i + 1] ELSE Nul]

-----------------------------------------------------------------------------
Finish(error, buffer) ==
    /\ kpc' = "done"
    /\ result' = error
    /\ key' = buffer

Boot ==
    /\ kpc \in {"off", "done"}
    /\ kpc' = "load"
    /\ key' = Empty
    /\ length' = 0
    /\ result' = "none"
    /\ UNCHANGED <<stored, pending, bytes, line, left, entered>>

(* load_bearer_key: what NVS holds, or the prompt, or an error of NVS.     *)
LoadStored ==
    /\ kpc = "load"
    /\ stored # Absent
    /\ Finish("ok", Fill(stored))
    /\ UNCHANGED <<length, stored, pending, bytes, line, left, entered>>

LoadFails ==
    /\ kpc = "load"
    /\ Finish("nvs", Empty)
    /\ UNCHANGED <<length, stored, pending, bytes, line, left, entered>>

Prompt ==
    /\ kpc = "load"
    /\ stored = Absent
    /\ kpc' = "prompt"
    /\ bytes' = 0
    /\ line' = <<>> /\ left' = <<>>
    /\ entered' = FALSE
    /\ UNCHANGED <<key, length, stored, pending, result>>

PromptFails ==
    /\ kpc = "load"
    /\ stored = Absent
    /\ Finish("uart", Empty)
    /\ UNCHANGED <<length, stored, pending, bytes, line, left, entered>>

Arrives == kpc = "prompt" /\ bytes < MaxBytes /\ bytes' = bytes + 1

(* The line is given up: the bytes stay where they are.                    *)
GiveUp ==
    /\ line' = <<>>
    /\ left' = Overlay(line, left)

(* Mutant of TakePrintable: a line of HA_KEY_MAX + 1 bytes is taken.       *)
TakePrintableLong(b) ==
    /\ Arrives
    /\ line' = Append(line, b)
    /\ length <= KeyMax
    /\ key' = [key EXCEPT ![length] = b]
    /\ length' = length + 1
    /\ UNCHANGED <<kpc, stored, pending, result, left, entered>>

TakePrintable(b) ==
    /\ Arrives
    /\ IF length < KeyMax
       THEN /\ key' = [key EXCEPT ![length] = b]
            /\ length' = length + 1
            /\ line' = Append(line, b)
            /\ UNCHANGED left
       ELSE length' = 0 /\ GiveUp /\ UNCHANGED key
    /\ UNCHANGED <<kpc, stored, pending, result, entered>>

(* Mutant of TakeOther: the line goes on behind a blank.                   *)
TakeOtherKept ==
    /\ Arrives
    /\ GiveUp
    /\ UNCHANGED <<kpc, key, length, stored, pending, result, entered>>

TakeOther ==
    /\ Arrives
    /\ length' = 0
    /\ GiveUp
    /\ UNCHANGED <<kpc, key, stored, pending, result, entered>>

(* Mutant of TakeEnter: the line is not terminated.                        *)
TakeEnterOpen ==
    /\ Arrives
    /\ IF length > 0
       THEN /\ kpc' = "check"
            /\ entered' = TRUE
       ELSE UNCHANGED <<kpc, entered>>
    /\ UNCHANGED <<key, length, stored, pending, result, line, left>>

TakeEnter ==
    /\ Arrives
    /\ IF length > 0
       THEN /\ key' = [key EXCEPT ![length] = Nul]
            /\ kpc' = "check"
            /\ entered' = TRUE
       ELSE UNCHANGED <<key, kpc, entered>>
    /\ UNCHANGED <<length, stored, pending, result, line, left>>

(* The minute is over.                                                     *)
PromptEnds ==
    /\ kpc = "prompt"
    /\ kpc' = "check"
    /\ UNCHANGED <<key, length, stored, pending, result, bytes, line, left, entered>>

CheckKey ==
    /\ kpc = "check"
    /\ IF ValidBearerKey
       THEN kpc' = "set" /\ UNCHANGED <<key, result>>
       ELSE Finish("timeout", Empty)
    /\ UNCHANGED <<length, stored, pending, bytes, line, left, entered>>

(* nvs_set_str, then nvs_commit; a string that was set may reach the flash *)
(* although the commit reports an error, or never comes.                   *)
SetKey ==
    /\ kpc = "set"
    /\ \/ kpc' = "commit" /\ pending' = String /\ UNCHANGED <<key, result>>
       \/ Finish("nvs", Empty) /\ UNCHANGED pending
    /\ UNCHANGED <<length, stored, bytes, line, left, entered>>

(* Mutant of CommitKey: an error leaves the key in the buffer.             *)
CommitKeyKept ==
    /\ kpc = "commit"
    /\ \/ stored' = pending /\ Finish("ok", key)
       \/ stored' \in {stored, pending} /\ Finish("ok", key)
    /\ pending' = Absent
    /\ UNCHANGED <<length, bytes, line, left, entered>>

CommitKey ==
    /\ kpc = "commit"
    /\ \/ stored' = pending /\ Finish("ok", key)
       \/ stored' \in {stored, pending} /\ Finish("nvs", Empty)
    /\ pending' = Absent
    /\ UNCHANGED <<length, bytes, line, left, entered>>

PowerOff ==
    /\ kpc' = "off"
    /\ stored' \in IF pending = Absent THEN {stored} ELSE {stored, pending}
    /\ pending' = Absent
    /\ key' = Empty /\ length' = 0 /\ result' = "none" /\ bytes' = 0
    /\ UNCHANGED <<line, left, entered>>

KeyInit ==
    /\ kpc = "off" /\ key = Empty /\ length = 0 /\ stored = Absent /\ pending = Absent
    /\ result = "none" /\ bytes = 0 /\ line = <<>> /\ left = <<>> /\ entered = FALSE

KeyNext ==
    \/ Boot \/ LoadStored \/ LoadFails \/ Prompt \/ PromptFails
    \/ (\E b \in Printable : TakePrintable(b)) \/ TakeOther \/ TakeEnter
    \/ PromptEnds \/ CheckKey \/ SetKey \/ CommitKey \/ PowerOff

KeySpec == KeyInit /\ [][KeyNext]_keyVars

-----------------------------------------------------------------------------
Texts == UNION {[1..n -> Printable] : n \in 1..KeyMax}

KeyTypeOK ==
    /\ kpc \in {"off", "load", "prompt", "check", "set", "commit", "done"}
    /\ key \in [0..KeyMax -> Printable \cup {Nul}]
    /\ length \in 0..KeyMax
    /\ stored \in Texts \cup {Absent}
    /\ pending \in Texts \cup {Absent}
    /\ result \in {"none", "ok", "nvs", "uart", "timeout"}

(* The buffer holds a string whatever is typed: the line since the last    *)
(* byte that is not printable, and behind it what is left of longer lines  *)
(* given up at this prompt.                                                *)
LineInBuffer ==
    /\ Terminated
    /\ kpc = "prompt" => length = Len(line) /\ key = Fill(Overlay(line, left))

(* A key that is used is a valid one and the one NVS holds for the next    *)
(* wake: no failed write leaves a key that works once.                     *)
UsedKeyIsStored ==
    kpc = "done" => IF result = "ok" THEN ValidBearerKey /\ stored = String
                    ELSE key = Empty

(* What a prompt comes to. Enter cuts off what lies behind the line; when  *)
(* the minute is over it is not cut off, and may be all there is.          *)
Entry == IF entered THEN line ELSE Overlay(line, left)

(* NVS has exactly that, also when power fails between the write and its   *)
(* commit: the line typed, if Enter came. A key without Enter is stored as *)
(* well (README.md asks for Enter, provision_bearer_key does not insist),  *)
(* and it may be a mix of lines: abcdef, blank, xy gives xycdef.           *)
SavedIsEntry == stored # Absent => stored = Entry

(* The key in use is the key stored; the key stored is the line typed if   *)
(* Enter ended it, and else the last line over the longer ones before it.  *)
KeyIsAsTyped == LineInBuffer /\ UsedKeyIsStored /\ SavedIsEntry
=============================================================================
