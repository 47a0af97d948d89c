----------------------------- MODULE WsEchoSpec -----------------------------
(***************************************************************************)
(* What a WebSocket session of the server promises, stated from spec.md    *)
(* sections 4.5 and 4.6 and independent of the C code.                     *)
(*                                                                         *)
(* SpecRun(frames) is the message loop of section 4.6 applied to the       *)
(* frames read from the client, in order: control frames answer or count  *)
(* but leave the fragment state alone, a non-CONT data frame starts a      *)
(* message, CONT frames extend it, FIN completes it, an unmasked frame, a  *)
(* CONT with nothing to continue or an unknown opcode is a protocol error. *)
(*                                                                         *)
(* The state machine says what an echo session may do: take frames off   *)
(* the wire, echo the next complete message of SpecRun, or stop.           *)
(***************************************************************************)
EXTENDS Integers, Sequences, SequencesExt

CONSTANTS
    OC_CONT, OC_TEXT, OC_BIN, OC_CLOSE, OC_PING, OC_PONG,
    NoOpcode,         \* "no message in progress" (the -1 of the C code)
    Frames            \* the frames a client can put on the wire

VARIABLES
    received,         \* frames taken off the wire, in order
    delivered,        \* messages echoed back, in order
    closed            \* the session has stopped reading

DataOpcodes == {OC_TEXT, OC_BIN}
ControlOpcodes == {OC_PING, OC_PONG}

SpecInit == [prev |-> NoOpcode, buff |-> <<>>, msgs |-> <<>>, outcome |-> "open"]

\* One frame of the section 4.6 loop (with the masking rule of 4.5).
SpecStep(s, f) ==
    LET eff == IF f.op = OC_CONT THEN s.prev ELSE f.op
        start == IF f.op \in DataOpcodes THEN <<>> ELSE s.buff
        data == start \o f.payload
    IN  IF s.outcome # "open" THEN s
        ELSE IF ~f.masked THEN [s EXCEPT !.outcome = "error"]
        ELSE IF eff \in ControlOpcodes THEN s
        ELSE IF eff = OC_CLOSE THEN [s EXCEPT !.outcome = "close"]
        ELSE IF eff \in DataOpcodes
             THEN [s EXCEPT !.buff = data,
                            !.prev = IF f.fin THEN NoOpcode ELSE eff,
                            !.msgs = IF f.fin
                                     THEN Append(@, [type |-> eff, data |-> data])
                                     ELSE @]
        ELSE [s EXCEPT !.outcome = "error"]

SpecRun(frames) == FoldLeft(SpecStep, SpecInit, frames)

SpecMessages(frames) == SpecRun(frames).msgs

-----------------------------------------------------------------------------

vars == <<received, delivered, closed>>

Init ==
    /\ received = <<>>
    /\ delivered = <<>>
    /\ closed = FALSE

\* A frame is read; reading it may end the session.
Receive ==
    /\ ~closed
    /\ \E f \in Frames : received' = Append(received, f)
    /\ closed' \in BOOLEAN
    /\ UNCHANGED delivered

\* The next complete message is echoed, exactly as the client sent it.
Deliver ==
    /\ Len(delivered) < Len(SpecMessages(received))
    /\ delivered' = Append(delivered, SpecMessages(received)[Len(delivered) + 1])
    /\ UNCHANGED <<received, closed>>

\* The session stops, for any reason.
Close ==
    /\ ~closed
    /\ closed' = TRUE
    /\ UNCHANGED <<received, delivered>>

Next == Receive \/ Deliver \/ Close

Spec == Init /\ [][Next]_vars

=============================================================================
