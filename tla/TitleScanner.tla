---------------------------- MODULE TitleScanner ----------------------------
(***************************************************************************)
(* The window titles a terminal's output sets (crates/machine/src/         *)
(* osc_title.rs): OscTitleScanner reads the bytes of an attach one by one, *)
(* in chunks that may end anywhere, and reports the text of every OSC 0    *)
(* and OSC 2 sequence.                                                     *)
(*                                                                         *)
(* A byte is abstracted to what the scanner tells apart; the two limits    *)
(* are constants.  Beside it runs the sequence a terminal would accept,    *)
(* ESC ] 0 ; text BEL, as a plain matcher without limits.                  *)
(***************************************************************************)
EXTENDS Naturals, Sequences

CONSTANTS
    MAX_TITLE_BYTES,
    MAX_SEQUENCE_BYTES

Letters == {"a", "b"}
Byte == Letters \cup {"ESC", "]", "0", ";", "BEL", "\\", "TAB"}
Text(byte) == byte \notin {"ESC", "BEL", "TAB"}

VARIABLES
    state,   \* of the scanner
    titles,  \* what push reports for the last byte
    wanted   \* the matcher: none, esc, osc, cmd or the text so far

scanVars == <<state, titles, wanted>>

At(kind) == [kind |-> kind, bytes |-> <<>>, sequence_bytes |-> 0, escape |-> FALSE]
Ignore(n, byte) == [At("Ignore") EXCEPT !.sequence_bytes = n, !.escape = (byte = "ESC")]
NoText == [kind |-> "none", text |-> <<>>]

ScanInit == state = At("Ground") /\ titles = <<>> /\ wanted = NoText

-----------------------------------------------------------------------------

(* An empty title says nothing. *)
push_title(bytes) == IF bytes = <<>> THEN <<>> ELSE <<bytes>>

Outcome(next, found) == [state |-> next, titles |-> found]
Go(next) == Outcome(next, <<>>)

InGround(byte) == Go(At(IF byte = "ESC" THEN "Escape" ELSE "Ground"))

InEscape(byte) ==
    Go(At(IF byte = "]" THEN "Command" ELSE IF byte = "ESC" THEN "Escape" ELSE "Ground"))

InCommand(byte) ==
    IF byte = "0" THEN Go(At("Semicolon"))
    ELSE IF byte = "BEL" THEN Go(At("Ground")) ELSE Go(Ignore(1, byte))

InSemicolon(byte) ==
    IF byte = ";" THEN Go(At("Title"))
    ELSE IF byte = "BEL" THEN Go(At("Ground")) ELSE Go(Ignore(1, byte))

(* The text is cut at its limit; a sequence that never ends is given up.   *)
InTitle(s, byte) ==
    LET n == s.sequence_bytes + 1 IN
    IF byte = "BEL" \/ (s.escape /\ byte = "\\") THEN Outcome(At("Ground"), push_title(s.bytes))
    ELSE IF s.escape /\ byte = "]" THEN Go(At("Command"))
    ELSE IF n >= MAX_SEQUENCE_BYTES THEN InGround(byte)
    ELSE Go([s EXCEPT !.sequence_bytes = n, !.escape = (byte = "ESC"), !.bytes =
                IF ~s.escape /\ Text(byte) /\ Len(@) < MAX_TITLE_BYTES
                THEN Append(@, byte) ELSE @])

(* Mutant: only a terminator ends a sequence that is ignored. *)
IgnoresToTheEnd(s, byte) ==
    LET n == s.sequence_bytes + 1 IN
    IF byte = "BEL" \/ (s.escape /\ byte = "\\") THEN Go(At("Ground"))
    ELSE IF n >= MAX_SEQUENCE_BYTES THEN InGround(byte) ELSE Go(Ignore(n, byte))

InIgnore(s, byte) ==
    LET n == s.sequence_bytes + 1 IN
    IF byte = "BEL" \/ (s.escape /\ byte = "\\") THEN Go(At("Ground"))
    ELSE IF s.escape /\ byte = "]" THEN Go(At("Command"))
    ELSE IF n >= MAX_SEQUENCE_BYTES THEN InGround(byte) ELSE Go(Ignore(n, byte))

push(byte) ==
    CASE state.kind = "Ground" -> InGround(byte)
      [] state.kind = "Escape" -> InEscape(byte)
      [] state.kind = "Command" -> InCommand(byte)
      [] state.kind = "Semicolon" -> InSemicolon(byte)
      [] state.kind = "Title" -> InTitle(state, byte)
      [] state.kind = "Ignore" -> InIgnore(state, byte)

-----------------------------------------------------------------------------
(* The sequence as a terminal reads it; the text is followed as far as the *)
(* scanner's limits go.                                                    *)

Matched(byte) ==
    IF byte = "ESC" THEN [NoText EXCEPT !.kind = "esc"]
    ELSE CASE wanted.kind = "esc" /\ byte = "]" -> [NoText EXCEPT !.kind = "osc"]
           [] wanted.kind = "osc" /\ byte = "0" -> [NoText EXCEPT !.kind = "cmd"]
           [] wanted.kind = "cmd" /\ byte = ";" -> [NoText EXCEPT !.kind = "text"]
           [] wanted.kind = "text" /\ byte \in Letters /\ Len(wanted.text) < MAX_TITLE_BYTES ->
                  [wanted EXCEPT !.text = Append(@, byte)]
           [] wanted.kind = "text" /\ byte = "BEL" -> [wanted EXCEPT !.kind = "done"]
           [] OTHER -> NoText

Read(byte) ==
    /\ state' = push(byte).state /\ titles' = push(byte).titles
    /\ wanted' = Matched(byte)

ScanNext == \E byte \in Byte : Read(byte)
ScanSpec == ScanInit /\ [][ScanNext]_scanVars

-----------------------------------------------------------------------------
(* A complete title sequence whose text fits is reported, exactly and at   *)
(* once, whatever came before it: garbage, a sequence cut off by another,  *)
(* or one that was given up at its limit.                                  *)
TitleIsFound ==
    wanted.kind = "done" /\ wanted.text # <<>> => titles = <<wanted.text>>
=============================================================================
