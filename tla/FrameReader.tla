----------------------------- MODULE FrameReader -----------------------------
(***************************************************************************)
(* Receiving: FrameReadState::receive with parse_frame_header, check_frame *)
(* and merge_frame (codec/frame/mod.rs, codec/frame/blocking.rs and its    *)
(* async twin).  One step is one turn of receive's loop: the frame at the  *)
(* head of the buffer, which FrameBuffer.tla proves to be the next one of  *)
(* the stream, is parsed, checked, merged or handed out.  The caller may   *)
(* call receive again after any result, errors included, as the run loop   *)
(* of examples/autobahn_client.rs does.                                    *)
(*                                                                         *)
(* Payload bytes: "a" is a character of one byte, "h" and "t" the head and *)
(* the tail of a character of two.                                         *)
(***************************************************************************)
EXTENDS Naturals, Sequences

CONSTANTS
    Configs,      \* the FrameConfigs a reader may be built with
    Frames,       \* the frames a peer may send
    MaxFrames     \* bound: frames taken off the stream

Bytes == {"a", "h", "t"}
Data == {"Text", "Binary"}
Control == {"Ping", "Pong", "Close"}
Codes == Data \cup Control \cup {"Continue", "Reserved"}
Policies == {"Off", "FastFail", "On"}

\* What is wrong with a header, and with the payload of a control frame.
Heads == {"ok", "rsv", "large"}
ControlBodies == {"ok", "long", "onebyte", "badcode", "badreason"}

ASSUME ConfigsAssumption ==
    Configs \subseteq [check_rsv : BOOLEAN, max_size : BOOLEAN, merge_frame : BOOLEAN,
                       validate_utf8 : Policies]

ASSUME FramesAssumption ==
    Frames \subseteq [code : Codes, fin : BOOLEAN, head : Heads, body : Seq(Bytes),
                      ctl : ControlBodies]

ASSUME MaxFramesAssumption == MaxFrames \in Nat

VARIABLES
    config,            \* FrameReadState::config, fixed for the connection
    next,              \* the frame at the head of the buffer
    fragmented,        \* FrameReadState::fragmented
    fragmented_data,   \* FrameReadState::fragmented_data
    fragmented_type,   \* FrameReadState::fragmented_type
    poisoned,          \* history: the open message lost its first fragment
    res,               \* what receive returned, or None while its loop goes on
    count              \* frames taken off the stream

vars == <<config, next, fragmented, fragmented_data, fragmented_type, poisoned, res, count>>

None == [kind |-> "none", code |-> "Continue", fin |-> FALSE, body |-> <<>>, err |-> "none"]
Err(e) == [None EXCEPT !.kind = "err", !.err = e]
Deliver(code, fin, body) ==
    [kind |-> "ok", code |-> code, fin |-> fin, body |-> body, err |-> "none"]

HeaderErrors == {"InvalidLeadingBits", "PayloadTooLarge"}
Errors == HeaderErrors \cup
    {"none", "MissInitialFragmentedFrame", "NotContinueFrameAfterFragmented", "InvalidUtf8",
     "FragmentedControlFrame", "ControlFrameTooBig", "InvalidCloseFramePayload",
     "InvalidCloseCode", "UnsupportedFrame"}

TypeOK ==
    /\ config \in Configs
    /\ next \in Frames
    /\ fragmented \in BOOLEAN
    /\ fragmented_data \in Seq(Bytes)
    /\ fragmented_type \in Data \cup {"Continue"}
    /\ poisoned \in BOOLEAN
    /\ res \in [kind : {"none", "ok", "err"}, code : Codes, fin : BOOLEAN,
                body : Seq(Bytes), err : Errors]
    /\ count \in 0 .. MaxFrames

Init ==
    /\ config \in Configs
    /\ next \in Frames
    /\ fragmented = FALSE
    /\ fragmented_data = <<>>
    /\ fragmented_type = "Continue"
    /\ poisoned = FALSE
    /\ res = None
    /\ count = 0

-----------------------------------------------------------------------------
(* A head must be followed by its tail, a tail must follow its head. *)
Utf8Valid(s) ==
    \A i \in DOMAIN s :
        /\ s[i] = "h" => i < Len(s) /\ s[i + 1] = "t"
        /\ s[i] = "t" => i > 1 /\ s[i - 1] = "h"

(* parse_frame_header: leading bits first, then the payload size limit. *)
HeaderError(f) ==
    IF config.check_rsv /\ f.head = "rsv" THEN "InvalidLeadingBits"
    ELSE IF config.max_size /\ f.head = "large" THEN "PayloadTooLarge"
    ELSE "none"

\* FastFail checks a whole text and the first fragment of one, On a whole text.
Utf8Checked(f) ==
    IF f.fin THEN config.validate_utf8 # "Off" ELSE config.validate_utf8 = "FastFail"

ControlError(f) ==
    IF ~f.fin THEN "FragmentedControlFrame"
    ELSE IF f.ctl = "long" THEN "ControlFrameTooBig"
    ELSE IF f.code # "Close" THEN "none"
    ELSE IF f.ctl = "onebyte" THEN "InvalidCloseFramePayload"
    ELSE IF f.ctl = "badcode" THEN "InvalidCloseCode"
    ELSE IF f.ctl = "badreason" THEN "InvalidUtf8"
    ELSE "none"

\* Faulty variant: a control frame inside a fragmented message is refused too.
CheckErrorNoInterleaving(f) ==
    IF f.code = "Continue" THEN IF fragmented THEN "none" ELSE "MissInitialFragmentedFrame"
    ELSE IF fragmented THEN "NotContinueFrameAfterFragmented"
    ELSE IF f.code \in Control THEN ControlError(f)
    ELSE IF f.code = "Reserved" THEN "UnsupportedFrame"
    ELSE IF f.code = "Text" /\ Utf8Checked(f) /\ ~Utf8Valid(f.body) THEN "InvalidUtf8"
    ELSE "none"

\* Faulty variant: texts are only checked under FastFail.
CheckErrorFastFailOnly(f) ==
    IF f.code = "Continue" THEN IF fragmented THEN "none" ELSE "MissInitialFragmentedFrame"
    ELSE IF f.code \in Control THEN ControlError(f)
    ELSE IF f.code = "Reserved" THEN "UnsupportedFrame"
    ELSE IF fragmented THEN "NotContinueFrameAfterFragmented"
    ELSE IF f.code = "Text" /\ config.validate_utf8 = "FastFail" /\ ~Utf8Valid(f.body)
         THEN "InvalidUtf8"
    ELSE "none"

(* check_frame's verdict on a frame, in the order of its tests. *)
CheckError(f) ==
    IF f.code = "Continue" THEN IF fragmented THEN "none" ELSE "MissInitialFragmentedFrame"
    ELSE IF f.code \in Control THEN ControlError(f)
    ELSE IF f.code = "Reserved" THEN "UnsupportedFrame"
    ELSE IF fragmented THEN "NotContinueFrameAfterFragmented"
    ELSE IF f.code = "Text" /\ Utf8Checked(f) /\ ~Utf8Valid(f.body) THEN "InvalidUtf8"
    ELSE "none"

\* The first fragment of a text that FastFail rejects.
BadStart(f) == CheckError(f) = "InvalidUtf8" /\ f.code = "Text" /\ ~f.fin

\* Faulty variant: only the last fragment of a text closes the message.
FragmentedAfterTextOnly(f) ==
    CASE f.code = "Continue" -> fragmented /\ (f.fin => fragmented_type = "Binary")
      [] f.code \in Data     -> fragmented \/ ~f.fin
      [] OTHER               -> fragmented

(* What check_frame leaves in fragmented: the last continuation closes the
   message, a first fragment opens it, before its UTF-8 is looked at. *)
FragmentedAfter(f) ==
    CASE f.code = "Continue" -> fragmented /\ ~f.fin
      [] f.code \in Data     -> fragmented \/ ~f.fin
      [] OTHER               -> fragmented

-----------------------------------------------------------------------------
Advance == next' \in Frames /\ count' = count + 1

\* Faulty variant: the refused frame is dropped and reading goes on behind it.
RefuseAndSkip ==
    /\ HeaderError(next) # "none"
    /\ count < MaxFrames
    /\ res' = Err(HeaderError(next))
    /\ Advance
    /\ UNCHANGED <<config, fragmented, fragmented_data, fragmented_type, poisoned>>

(* A header error is returned before consume_frame: the frame stays at the head
   of the buffer and the next call meets it again. *)
Refuse ==
    /\ HeaderError(next) # "none"
    /\ res' = Err(HeaderError(next))
    /\ UNCHANGED <<config, next, fragmented, fragmented_data, fragmented_type, poisoned, count>>

\* The frame is taken off the buffer and passes through check_frame.
Consume ==
    /\ HeaderError(next) = "none"
    /\ count < MaxFrames
    /\ Advance
    /\ fragmented' = FragmentedAfter(next)
    /\ poisoned' = (FragmentedAfter(next) /\ (poisoned \/ BadStart(next)))
    /\ UNCHANGED config

(* check_frame fails: the frame is gone, the assembly is as check_frame left it. *)
Reject ==
    /\ CheckError(next) # "none"
    /\ res' = Err(CheckError(next))
    /\ Consume
    /\ UNCHANGED <<fragmented_data, fragmented_type>>

(* merge_frame: false. *)
Pass ==
    /\ ~config.merge_frame
    /\ CheckError(next) = "none"
    /\ res' = Deliver(next.code, next.fin, next.body)
    /\ Consume
    /\ UNCHANGED <<fragmented_data, fragmented_type>>

\* Faulty variant: a control frame is treated like an unfragmented message.
MergeControlAsWhole ==
    /\ config.merge_frame
    /\ CheckError(next) = "none"
    /\ next.code \in Control
    /\ fragmented_type' = next.code
    /\ res' = Deliver(next.code, next.fin, next.body)
    /\ Consume
    /\ UNCHANGED fragmented_data

(* merge_frame on a control frame: handed out, assembly untouched. *)
MergeControl ==
    /\ config.merge_frame
    /\ CheckError(next) = "none"
    /\ next.code \in Control
    /\ res' = Deliver(next.code, next.fin, next.body)
    /\ Consume
    /\ UNCHANGED <<fragmented_data, fragmented_type>>

(* merge_frame on an unfragmented message. *)
MergeWhole ==
    /\ config.merge_frame
    /\ CheckError(next) = "none"
    /\ next.code \in Data /\ next.fin
    /\ fragmented_type' = next.code
    /\ res' = Deliver(next.code, TRUE, next.body)
    /\ Consume
    /\ UNCHANGED fragmented_data

\* Faulty variant: the data of the previous message is not cleared.
MergeStartNoClear ==
    /\ config.merge_frame
    /\ CheckError(next) = "none"
    /\ next.code \in Data /\ ~next.fin
    /\ fragmented_type' = next.code
    /\ fragmented_data' = fragmented_data \o next.body
    /\ res' = None
    /\ Consume

(* merge_frame on a first fragment. *)
MergeStart ==
    /\ config.merge_frame
    /\ CheckError(next) = "none"
    /\ next.code \in Data /\ ~next.fin
    /\ fragmented_type' = next.code
    /\ fragmented_data' = next.body
    /\ res' = None
    /\ Consume

(* merge_frame on a continuation; the last one hands out fragmented_data, which
   stays as it is until the next first fragment. *)
MergeContinue ==
    /\ config.merge_frame
    /\ CheckError(next) = "none"
    /\ next.code = "Continue"
    /\ fragmented_data' = fragmented_data \o next.body
    /\ res' = IF next.fin THEN Deliver(fragmented_type, TRUE, fragmented_data') ELSE None
    /\ Consume
    /\ UNCHANGED fragmented_type

Next ==
    \/ Refuse
    \/ Reject
    \/ Pass
    \/ MergeControl
    \/ MergeWhole
    \/ MergeStart
    \/ MergeContinue

Spec == Init /\ [][Next]_vars

-----------------------------------------------------------------------------
(* Properties. *)

(* A refused header is fatal: every later call returns the same error and no
   frame behind it is ever handed out. *)
RefusalIsFinal ==
    [][HeaderError(next) # "none" => res'.kind = "err" /\ res'.err \in HeaderErrors
                                     /\ next' = next]_vars

(* With a policy other than Off no unfragmented text that is not UTF-8 reaches
   the caller, whatever was rejected before it. *)
WholeTextValid ==
    [][/\ config.validate_utf8 # "Off"
       /\ next.code = "Text"
       /\ next.fin
       /\ res'.kind = "ok" /\ count' > count
       => Utf8Valid(res'.body)]_vars

(* "check utf8 after merged": under On a text message handed out is UTF-8,
   merged ones included. *)
MergedTextValid ==
    config.validate_utf8 = "On" /\ config.merge_frame
        /\ res.kind = "ok" /\ res.code = "Text" => Utf8Valid(res.body)

\* The message under assembly, as MessageStream sees it.
Assembly ==
    IF ~fragmented THEN [open |-> "no", type |-> "Continue", data |-> <<>>]
    ELSE IF poisoned THEN [open |-> "lost", type |-> "Continue", data |-> <<>>]
    ELSE IF config.merge_frame
         THEN [open |-> "yes", type |-> fragmented_type, data |-> fragmented_data]
         ELSE [open |-> "yes", type |-> "Continue", data |-> <<>>]

(* The reader implements message assembly as MessageStream states it: messages
   are exactly their fragments in order under the first one's opcode, control
   frames pass in between, and exactly the illegal frames are rejected. *)
Messages == INSTANCE MessageStream
    WITH merging <- config.merge_frame, policy <- config.validate_utf8, msg <- Assembly

ImplementsMessages == Messages!Spec

=============================================================================
