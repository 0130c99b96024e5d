---------------------------- MODULE MessageStream ----------------------------
(***************************************************************************)
(* What a receiver of WebSocket frames promises: data messages are put     *)
(* together from a first fragment and its continuations, control frames    *)
(* may come in between, frames that do not fit are rejected and leave the  *)
(* message under assembly alone.  When frames are not merged the same      *)
(* sequence is handed out frame by frame.                                  *)
(*                                                                         *)
(* The one blemish of the promise is part of it: a first fragment rejected *)
(* for its UTF-8 still opens a message, whose beginning is lost.  Its      *)
(* continuations are accepted, and what they add up to is arbitrary.       *)
(***************************************************************************)
EXTENDS Naturals, Sequences

CONSTANT Frames       \* the frames a peer may send

VARIABLES
    merging,    \* fragments are merged into messages
    policy,     \* what is checked for UTF-8: "Off", "FastFail" or "On"
    next,       \* the frame that is read next
    msg,        \* the message under assembly
    res         \* what the last step handed out

vars == <<merging, policy, next, msg, res>>

NoMsg == [open |-> "no", type |-> "Continue", data |-> <<>>]
Lost == [open |-> "lost", type |-> "Continue", data |-> <<>>]
Open(type, data) ==
    IF merging THEN [open |-> "yes", type |-> type, data |-> data]
    ELSE [open |-> "yes", type |-> "Continue", data |-> <<>>]

DataCodes == {"Text", "Binary"}
ControlCodes == {"Ping", "Pong", "Close"}

Quiet == res' = [kind |-> "none", code |-> "Continue", fin |-> FALSE, body |-> <<>>,
                 err |-> "none"]

HandOut(code, fin, body) ==
    res' = [kind |-> "ok", code |-> code, fin |-> fin, body |-> body, err |-> "none"]

Fails == res'.kind = "err"

Init == msg = NoMsg /\ next \in Frames /\ res.kind = "none"

WellFormed(s) ==
    \A i \in DOMAIN s :
        /\ s[i] = "h" => i < Len(s) /\ s[i + 1] = "t"
        /\ s[i] = "t" => i > 1 /\ s[i - 1] = "h"

(* A text is checked when it comes in one frame, and FastFail also checks the
   first fragment of one.  Nothing checks the rest of a fragmented text. *)
TextOK(f) ==
    f.code = "Text" =>
        \/ WellFormed(f.body)
        \/ policy = "Off"
        \/ policy = "On" /\ ~f.fin

LegalControl(f) ==
    /\ f.code \in ControlCodes
    /\ f.fin
    /\ f.ctl # "long"
    /\ f.code = "Close" => f.ctl = "ok"

Step == next' \in Frames /\ UNCHANGED <<merging, policy>>

(* A frame whose header is refused is read again and again. *)
Refuse == Fails /\ UNCHANGED <<merging, policy, next, msg>>

Start ==
    /\ msg = NoMsg
    /\ next.code \in DataCodes /\ ~next.fin /\ TextOK(next)
    /\ msg' = Open(next.code, next.body)
    /\ IF merging THEN Quiet ELSE HandOut(next.code, FALSE, next.body)
    /\ Step

Whole ==
    /\ msg = NoMsg
    /\ next.code \in DataCodes /\ next.fin /\ TextOK(next)
    /\ HandOut(next.code, TRUE, next.body)
    /\ msg' = msg
    /\ Step

Extend ==
    /\ msg.open = "yes"
    /\ next.code = "Continue" /\ ~next.fin
    /\ msg' = Open(msg.type, msg.data \o next.body)
    /\ IF merging THEN Quiet ELSE HandOut("Continue", FALSE, next.body)
    /\ Step

Finish ==
    /\ msg.open = "yes"
    /\ next.code = "Continue" /\ next.fin
    /\ IF merging THEN HandOut(msg.type, TRUE, msg.data \o next.body)
       ELSE HandOut("Continue", TRUE, next.body)
    /\ msg' = NoMsg
    /\ Step

ControlFrame ==
    /\ LegalControl(next)
    /\ HandOut(next.code, TRUE, next.body)
    /\ msg' = msg
    /\ Step

(* An illegal frame is dropped and changes nothing else. *)
Reject ==
    /\ \/ next.code = "Continue" /\ msg = NoMsg
       \/ next.code \in DataCodes /\ msg # NoMsg
       \/ next.code \in DataCodes /\ next.fin /\ ~TextOK(next)
       \/ next.code \in ControlCodes /\ ~LegalControl(next)
       \/ next.code = "Reserved"
    /\ Fails
    /\ msg' = msg
    /\ Step

(* The first fragment of a text is not UTF-8: an error, and an open message. *)
LoseStart ==
    /\ msg = NoMsg
    /\ next.code = "Text" /\ ~next.fin /\ ~TextOK(next)
    /\ Fails
    /\ msg' = Lost
    /\ Step

(* A continuation of such a message. *)
ContinueLost ==
    /\ msg = Lost
    /\ next.code = "Continue"
    /\ msg' = IF next.fin THEN NoMsg ELSE Lost
    /\ res'.kind \in {"none", "ok"}
    /\ Step

Next ==
    \/ Refuse
    \/ Start
    \/ Whole
    \/ Extend
    \/ Finish
    \/ ControlFrame
    \/ Reject
    \/ LoseStart
    \/ ContinueLost

Spec == Init /\ [][Next]_vars

=============================================================================
