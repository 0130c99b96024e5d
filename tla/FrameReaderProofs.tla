-------------------------- MODULE FrameReaderProofs --------------------------
(***************************************************************************)
(* The receiver is type correct and implements MessageStream for every set *)
(* of frames and configurations, merging or not.                           *)
(***************************************************************************)
EXTENDS FrameReader, SequenceTheorems, TLAPS

Invariant == TypeOK /\ (poisoned => fragmented)

Results ==
    [kind : {"none", "ok", "err"}, code : Codes, fin : BOOLEAN, body : Seq(Bytes), err : Errors]

LEMMA FrameFields ==
    ASSUME NEW f \in Frames
    PROVE  /\ f.code \in Codes
           /\ f.fin \in BOOLEAN
           /\ f.body \in Seq(Bytes)
           /\ f.ctl \in ControlBodies
BY FramesAssumption

LEMMA EmptyBody == <<>> \in Seq(Bytes)
OBVIOUS

LEMMA NoneIsResult ==
    /\ None \in Results
    /\ None = [kind |-> "none", code |-> "Continue", fin |-> FALSE, body |-> <<>>, err |-> "none"]
BY EmptyBody DEF None, Results, Codes, Data, Control, Errors, HeaderErrors

LEMMA ErrIsResult ==
    ASSUME NEW e \in Errors
    PROVE  Err(e) \in Results /\ Err(e).kind = "err" /\ Err(e).err = e
BY EmptyBody DEF Err, None, Results, Codes, Data, Control

LEMMA DeliverIsResult ==
    ASSUME NEW c \in Codes, NEW fin \in BOOLEAN, NEW body \in Seq(Bytes)
    PROVE  Deliver(c, fin, body) \in Results
BY DEF Deliver, Results, Errors

LEMMA ErrorsAreErrors ==
    ASSUME NEW f \in Frames
    PROVE  HeaderError(f) \in Errors /\ CheckError(f) \in Errors
BY DEF HeaderError, CheckError, ControlError, Errors, HeaderErrors

-----------------------------------------------------------------------------
LEMMA InitInvariant == Init => Invariant
<1> SUFFICES ASSUME Init PROVE Invariant
  OBVIOUS
<1>1. res \in Results
  BY NoneIsResult DEF Init
<1>2. fragmented_type \in Data \cup {"Continue"} /\ fragmented_data \in Seq(Bytes)
  BY EmptyBody DEF Init
<1>3. count \in 0 .. MaxFrames
  BY MaxFramesAssumption DEF Init
<1>4. fragmented \in BOOLEAN /\ poisoned \in BOOLEAN /\ ~poisoned
      /\ config \in Configs /\ next \in Frames
  BY DEF Init
<1> QED BY <1>1, <1>2, <1>3, <1>4 DEF Invariant, TypeOK, Results

LEMMA NextInvariant == Invariant /\ [Next]_vars => Invariant'
<1> SUFFICES ASSUME Invariant, [Next]_vars PROVE Invariant'
  OBVIOUS
<1> USE MaxFramesAssumption
<1>1. /\ next \in Frames /\ next.code \in Codes /\ next.fin \in BOOLEAN
      /\ next.body \in Seq(Bytes)
      /\ fragmented \in BOOLEAN /\ fragmented_data \in Seq(Bytes)
      /\ fragmented_type \in Data \cup {"Continue"}
      /\ fragmented_data \o next.body \in Seq(Bytes)
  <2>1. next \in Frames /\ fragmented_data \in Seq(Bytes)
    BY DEF Invariant, TypeOK
  <2>2. next.body \in Seq(Bytes)
    BY <2>1, FrameFields
  <2>3. fragmented_data \o next.body \in Seq(Bytes)
    BY <2>1, <2>2, ConcatProperties
  <2> QED BY <2>1, <2>2, <2>3, FrameFields DEF Invariant, TypeOK
<1>2. Consume => /\ config' \in Configs /\ next' \in Frames /\ fragmented' \in BOOLEAN
                 /\ poisoned' \in BOOLEAN /\ (poisoned' => fragmented')
                 /\ count' \in 0 .. MaxFrames
  <2> SUFFICES ASSUME Consume
               PROVE  /\ config' \in Configs /\ next' \in Frames /\ fragmented' \in BOOLEAN
                      /\ poisoned' \in BOOLEAN /\ (poisoned' => fragmented')
                      /\ count' \in 0 .. MaxFrames
    OBVIOUS
  <2>1. FragmentedAfter(next) \in BOOLEAN
    BY <1>1 DEF FragmentedAfter
  <2>2. poisoned' \in BOOLEAN /\ (poisoned' => FragmentedAfter(next))
    <3> HIDE DEF FragmentedAfter
    <3> QED BY Zenon DEF Consume
  <2>3. count' \in 0 .. MaxFrames
    BY DEF Consume, Advance, Invariant, TypeOK
  <2> QED BY <2>1, <2>2, <2>3 DEF Consume, Advance, Invariant, TypeOK
<1>3. CASE Refuse
  <2>1. res' \in Results
    BY <1>1, <1>3, ErrorsAreErrors, ErrIsResult DEF Refuse
  <2> QED BY <1>3, <2>1 DEF Refuse, Invariant, TypeOK, Results
<1>4. CASE Reject
  <2>1. res' \in Results
    BY <1>1, <1>4, ErrorsAreErrors, ErrIsResult DEF Reject
  <2> QED BY <1>1, <1>2, <1>4, <2>1 DEF Reject, Invariant, TypeOK, Results
<1>5. CASE Pass
  <2>1. res' \in Results
    BY <1>1, <1>5, DeliverIsResult DEF Pass
  <2> QED BY <1>1, <1>2, <1>5, <2>1 DEF Pass, Invariant, TypeOK, Results
<1>6. CASE MergeControl
  <2>1. res' \in Results
    BY <1>1, <1>6, DeliverIsResult DEF MergeControl
  <2> QED BY <1>1, <1>2, <1>6, <2>1 DEF MergeControl, Invariant, TypeOK, Results
<1>7. CASE MergeWhole
  <2>1. res' \in Results
    BY <1>1, <1>7, DeliverIsResult DEF MergeWhole
  <2> QED BY <1>1, <1>2, <1>7, <2>1 DEF MergeWhole, Invariant, TypeOK, Results
<1>8. CASE MergeStart
  <2>1. res' \in Results
    BY <1>8, NoneIsResult DEF MergeStart
  <2> QED BY <1>1, <1>2, <1>8, <2>1 DEF MergeStart, Invariant, TypeOK, Results
<1>9. CASE MergeContinue
  <2>1. fragmented_data' \in Seq(Bytes) /\ fragmented_type \in Codes
    BY <1>1, <1>9 DEF MergeContinue, Codes, Data
  <2>2. res' \in Results
    BY <1>9, <2>1, DeliverIsResult, NoneIsResult DEF MergeContinue
  <2> QED BY <1>1, <1>2, <1>9, <2>1, <2>2 DEF MergeContinue, Invariant, TypeOK, Results
<1>10. CASE UNCHANGED vars
  BY <1>10 DEF vars, Invariant, TypeOK
<1> QED BY <1>3, <1>4, <1>5, <1>6, <1>7, <1>8, <1>9, <1>10 DEF Next

LEMMA SpecInvariant == Spec => []Invariant
BY InitInvariant, NextInvariant, PTL DEF Spec

(* Types hold in every reachable state. *)
THEOREM TypeCorrect == Spec => []TypeOK
BY SpecInvariant, PTL DEF Invariant

(* A refused header is fatal: every later call of receive fails the same way. *)
THEOREM RefusalFinal == Spec => RefusalIsFinal
<1>1. Invariant /\ [Next]_vars =>
        [HeaderError(next) # "none" => /\ res'.kind = "err" /\ res'.err \in HeaderErrors
                                       /\ next' = next]_vars
  <2> SUFFICES ASSUME Invariant, Next, HeaderError(next) # "none"
               PROVE  res'.kind = "err" /\ res'.err \in HeaderErrors /\ next' = next
    BY DEF vars
  <2>1. Refuse
    BY DEF Next, Reject, Pass, MergeControl, MergeWhole, MergeStart, MergeContinue, Consume
  <2>2. HeaderError(next) \in HeaderErrors
    BY DEF HeaderError, HeaderErrors
  <2> QED BY <2>1, <2>2, ErrIsResult DEF Refuse, Errors
<1> QED BY <1>1, SpecInvariant, PTL DEF Spec, RefusalIsFinal

(* With a policy other than Off no unfragmented text that is not UTF-8 reaches the
   caller, whatever was rejected before it: a text that passes check_frame has been
   checked, and merge_frame hands it out as it is. *)
THEOREM WholeTextsAreUtf8 == Spec => WholeTextValid
<1>1. Invariant /\ [Next]_vars =>
        [/\ config.validate_utf8 # "Off"
         /\ next.code = "Text"
         /\ next.fin
         /\ res'.kind = "ok" /\ count' > count
         => Utf8Valid(res'.body)]_vars
  <2> SUFFICES ASSUME Invariant, Next, config.validate_utf8 # "Off", next.code = "Text",
                      next.fin, res'.kind = "ok", count' > count
               PROVE  Utf8Valid(res'.body)
    BY DEF vars
  <2>1. next.code \notin Control /\ next.code # "Continue"
    BY DEF Control
  <2>2. CASE Refuse \/ Reject
    <3>1. res'.kind = "err"
      BY <2>2, ErrorsAreErrors, ErrIsResult DEF Refuse, Reject, Invariant, TypeOK
    <3> QED BY <3>1
  <2>3. CASE Pass \/ MergeWhole
    <3>1. CheckError(next) = "none" /\ res'.body = next.body
      BY <2>3 DEF Pass, MergeWhole, Deliver
    <3>2. Utf8Valid(next.body)
      BY <2>1, <3>1 DEF CheckError, Utf8Checked
    <3> QED BY <3>1, <3>2
  <2> QED BY <2>1, <2>2, <2>3 DEF Next, MergeControl, MergeStart, MergeContinue
<1> QED BY <1>1, SpecInvariant, PTL DEF Spec, WholeTextValid

-----------------------------------------------------------------------------
(* The refinement. *)

\* The reader's verdict on text is MessageStream's.
LEMMA Utf8Same ==
    ASSUME Invariant
    PROVE  /\ next.code = "Text" => (Messages!TextOK(next) <=> ~(Utf8Checked(next) /\ ~Utf8Valid(next.body)))
           /\ next.code # "Text" => Messages!TextOK(next)
<1>1. config.validate_utf8 \in Policies
  BY ConfigsAssumption DEF Invariant, TypeOK
<1>2. Utf8Valid(next.body) <=> Messages!WellFormed(next.body)
  BY DEF Utf8Valid, Messages!WellFormed
<1> QED BY <1>1, <1>2 DEF Messages!TextOK, Utf8Checked, Policies

\* What the three kinds of assembly look like from the code's variables.
LEMMA AssemblyFacts ==
    ASSUME Invariant
    PROVE  /\ ~fragmented <=> Assembly = Messages!NoMsg
           /\ fragmented /\ poisoned => Assembly = Messages!Lost
           /\ fragmented /\ ~poisoned =>
                /\ Assembly = Messages!Open(fragmented_type, fragmented_data)
                /\ Assembly.open = "yes"
                /\ config.merge_frame => /\ Assembly.type = fragmented_type
                                        /\ Assembly.data = fragmented_data
           /\ Messages!NoMsg # Messages!Lost
<1>1. config.merge_frame \in BOOLEAN
  BY ConfigsAssumption DEF Invariant, TypeOK
<1> QED BY <1>1 DEF Assembly, Messages!NoMsg, Messages!Lost, Messages!Open

LEMMA NextRefines ==
    ASSUME Invariant, Invariant', [Next]_vars
    PROVE  [Messages!Next]_(Messages!vars)
<1> USE DEF Messages!DataCodes, Messages!ControlCodes, Data, Control
<1>1. /\ next \in Frames /\ next.code \in Codes /\ next.fin \in BOOLEAN
      /\ next.ctl \in ControlBodies
      /\ fragmented \in BOOLEAN /\ poisoned \in BOOLEAN
      /\ config.merge_frame \in BOOLEAN
  BY FrameFields, ConfigsAssumption DEF Invariant, TypeOK
<1>2. Consume => /\ Messages!Step
                 /\ fragmented' = FragmentedAfter(next)
                 /\ poisoned' = (FragmentedAfter(next) /\ (poisoned \/ BadStart(next)))
                 /\ config' = config
  BY DEF Consume, Advance, Messages!Step
<1>3. /\ Assembly = Messages!NoMsg <=> ~fragmented
      /\ Assembly' = Messages!NoMsg <=> ~fragmented'
  <2>1. (Invariant => (Assembly = Messages!NoMsg <=> ~fragmented))'
    BY AssemblyFacts, PTL
  <2> QED BY <2>1, AssemblyFacts DEF Messages!NoMsg
<1>4. CASE Refuse
  <2>1. res'.kind = "err"
    BY <1>1, <1>4, ErrorsAreErrors, ErrIsResult DEF Refuse
  <2> QED BY <1>4, <2>1
          DEF Refuse, Messages!Next, Messages!Refuse, Messages!Fails, Assembly
<1>5. CASE Reject
  <2>1. res'.kind = "err"
    BY <1>1, <1>5, ErrorsAreErrors, ErrIsResult DEF Reject
  <2>2. CASE BadStart(next)
    <3>1. ~fragmented /\ next.code = "Text" /\ ~next.fin /\ ~Messages!TextOK(next)
      BY <2>2, <1>1, Utf8Same DEF BadStart, CheckError, ControlError
    <3>2. fragmented' /\ poisoned'
      BY <3>1, <2>2, <1>2, <1>5 DEF Reject, FragmentedAfter
    <3>3. Assembly' = Messages!Lost
      BY <3>2 DEF Assembly, Messages!Lost
    <3> QED BY <3>1, <3>3, <2>1, <1>2, <1>3, <1>5
            DEF Reject, Messages!Next, Messages!LoseStart, Messages!Fails
  <2>3. CASE ~BadStart(next)
    <3>1. \/ next.code = "Continue" /\ ~fragmented
          \/ next.code \in Data /\ fragmented
          \/ next.code \in Data /\ next.fin /\ ~Messages!TextOK(next)
          \/ next.code \in Control /\ ~Messages!LegalControl(next)
          \/ next.code = "Reserved"
      BY <2>3, <1>1, <1>5, Utf8Same
         DEF Reject, BadStart, CheckError, ControlError, Messages!LegalControl, Codes, ControlBodies
    <3>2. Assembly' = Assembly
      <4>1. fragmented' = fragmented
        BY <3>1, <2>3, <1>1, <1>2, <1>5, Utf8Same
           DEF Reject, FragmentedAfter, BadStart, CheckError, ControlError, Codes
      <4>2. poisoned' = poisoned
        BY <4>1, <2>3, <1>1, <1>2, <1>5 DEF Reject, Invariant
      <4> QED BY <4>1, <4>2, <1>2, <1>5 DEF Reject, Assembly
    <3> QED BY <3>1, <3>2, <2>1, <1>2, <1>3, <1>5
            DEF Reject, Messages!Next, Messages!Reject, Messages!Fails
  <2> QED BY <2>2, <2>3
<1>6. ASSUME CheckError(next) = "none"
      PROVE  /\ next.code # "Reserved"
             /\ next.code \in Control => Messages!LegalControl(next) /\ next.fin
             /\ next.code \in Data => ~fragmented /\ Messages!TextOK(next)
             /\ next.code = "Continue" => fragmented
             /\ ~BadStart(next)
  BY <1>6, <1>1, Utf8Same
     DEF CheckError, ControlError, BadStart, Messages!LegalControl, ControlBodies
<1>7. ASSUME CheckError(next) = "none", Consume, fragmented_type' = fragmented_type,
             fragmented_data' = fragmented_data, next.code \notin Data \/ next.fin,
             next.code # "Continue"
      PROVE  Assembly' = Assembly
  <2>1. fragmented' = fragmented
    BY <1>1, <1>2, <1>6, <1>7 DEF FragmentedAfter
  <2>2. poisoned' = poisoned
    BY <2>1, <1>1, <1>2, <1>6, <1>7 DEF Invariant
  <2> QED BY <2>1, <2>2, <1>2, <1>7 DEF Assembly
\* A continuation that is accepted, as the two modes hand it out.
<1>8. ASSUME CheckError(next) = "none", Consume, next.code = "Continue",
             fragmented_type' = fragmented_type,
             config.merge_frame => fragmented_data' = fragmented_data \o next.body,
             ~config.merge_frame => res' = Deliver("Continue", next.fin, next.body),
             config.merge_frame =>
                res' = IF next.fin THEN Deliver(fragmented_type, TRUE, fragmented_data')
                       ELSE None
      PROVE  Messages!Next
  <2>1. fragmented /\ fragmented' = ~next.fin /\ poisoned' = (~next.fin /\ poisoned)
    <3>1. fragmented /\ ~BadStart(next)
      BY <1>6, <1>8
    <3>2. FragmentedAfter(next) = ~next.fin
      BY <3>1, <1>1, <1>8 DEF FragmentedAfter
    <3> QED BY <3>1, <3>2, <1>1, <1>2, <1>8
  <2>2. CASE poisoned
    <3>1. Assembly = Messages!Lost
      BY <2>1, <2>2, AssemblyFacts
    <3>2. Assembly' = IF next.fin THEN Messages!NoMsg ELSE Messages!Lost
      BY <2>1, <2>2, <1>1 DEF Assembly, Messages!NoMsg, Messages!Lost
    <3>3. res'.kind \in {"none", "ok"}
      BY <1>1, <1>8, NoneIsResult DEF Deliver
    <3> QED BY <3>1, <3>2, <3>3, <1>2, <1>8 DEF Messages!Next, Messages!ContinueLost
  <2>3. CASE ~poisoned /\ next.fin
    <3>1. Assembly.open = "yes" /\ Assembly' = Messages!NoMsg
      BY <2>1, <2>3, <1>3, AssemblyFacts
    <3>2. IF config.merge_frame
          THEN Messages!HandOut(Assembly.type, TRUE, Assembly.data \o next.body)
          ELSE Messages!HandOut("Continue", TRUE, next.body)
      BY <2>1, <2>3, <1>8, AssemblyFacts DEF Messages!HandOut, Deliver
    <3> QED BY <2>3, <3>1, <3>2, <1>2, <1>8 DEF Messages!Next, Messages!Finish
  <2>4. CASE ~poisoned /\ ~next.fin
    <3>1. /\ Assembly.open = "yes"
          /\ Assembly' = Messages!Open(Assembly.type, Assembly.data \o next.body)
      BY <2>1, <2>4, <1>1, <1>2, <1>8, AssemblyFacts DEF Assembly, Messages!Open
    <3>2. IF config.merge_frame THEN Messages!Quiet
          ELSE Messages!HandOut("Continue", FALSE, next.body)
      BY <2>4, <1>1, <1>8, NoneIsResult DEF Messages!HandOut, Messages!Quiet, Deliver
    <3> QED BY <2>4, <3>1, <3>2, <1>2, <1>8 DEF Messages!Next, Messages!Extend
  <2> QED BY <2>2, <2>3, <2>4
<1>9. CASE Pass
  <2>1. CASE next.code \in Control
    <3>1. Assembly' = Assembly
      BY <2>1, <1>7, <1>9 DEF Pass
    <3> QED BY <2>1, <3>1, <1>2, <1>6, <1>9
            DEF Pass, Messages!Next, Messages!ControlFrame, Messages!HandOut, Deliver
  <2>2. CASE next.code \in Data /\ next.fin
    <3>1. Assembly' = Assembly
      BY <2>2, <1>7, <1>9 DEF Pass
    <3> QED BY <2>2, <3>1, <1>2, <1>3, <1>6, <1>9
            DEF Pass, Messages!Next, Messages!Whole, Messages!HandOut, Deliver
  <2>3. CASE next.code \in Data /\ ~next.fin
    <3>1. ~fragmented /\ fragmented' /\ ~poisoned'
      BY <2>3, <1>1, <1>2, <1>6, <1>9 DEF Pass, FragmentedAfter, Invariant
    <3>2. Assembly' = Messages!Open(next.code, next.body)
      BY <3>1, <1>1, <1>2, <1>9 DEF Pass, Assembly, Messages!Open
    <3> QED BY <2>3, <3>1, <3>2, <1>1, <1>2, <1>3, <1>6, <1>9
            DEF Pass, Messages!Next, Messages!Start, Messages!HandOut, Deliver
  <2>4. CASE next.code = "Continue"
    BY <2>4, <1>8, <1>9 DEF Pass
  <2> QED BY <2>1, <2>2, <2>3, <2>4, <1>1, <1>6, <1>9 DEF Pass, Codes
<1>10. CASE MergeControl
  <2>1. Assembly' = Assembly
    BY <1>7, <1>10 DEF MergeControl
  <2> QED BY <2>1, <1>2, <1>6, <1>10
          DEF MergeControl, Messages!Next, Messages!ControlFrame, Messages!HandOut, Deliver
<1>11. CASE MergeWhole
  <2>1. ~fragmented /\ ~fragmented'
    BY <1>2, <1>6, <1>11 DEF MergeWhole, FragmentedAfter
  <2>2. Assembly = Messages!NoMsg /\ Assembly' = Assembly
    BY <2>1, <1>3
  <2> QED BY <2>2, <1>2, <1>6, <1>11
          DEF MergeWhole, Messages!Next, Messages!Whole, Messages!HandOut, Deliver
<1>12. CASE MergeStart
  <2>1. ~fragmented /\ fragmented' /\ ~poisoned'
    BY <1>1, <1>2, <1>6, <1>12 DEF MergeStart, FragmentedAfter, Invariant
  <2>2. Assembly' = Messages!Open(next.code, next.body)
    BY <2>1, <1>2, <1>12 DEF MergeStart, Assembly, Messages!Open
  <2> QED BY <2>1, <2>2, <1>2, <1>3, <1>6, <1>12, NoneIsResult
          DEF MergeStart, Messages!Next, Messages!Start, Messages!Quiet
<1>13. CASE MergeContinue
  BY <1>8, <1>13 DEF MergeContinue
<1>14. CASE UNCHANGED vars
  BY <1>14 DEF vars, Messages!vars, Assembly
<1> QED BY <1>4, <1>5, <1>9, <1>10, <1>11, <1>12, <1>13, <1>14 DEF Next

(* The receiver implements message assembly. *)
THEOREM Refinement == Spec => ImplementsMessages
<1>1. Init => Messages!Init
  BY NoneIsResult DEF Init, Messages!Init, Assembly, Messages!NoMsg
<1>2. Invariant /\ Invariant' /\ [Next]_vars => [Messages!Next]_(Messages!vars)
  BY NextRefines
<1> QED BY <1>1, <1>2, SpecInvariant, PTL DEF Spec, ImplementsMessages, Messages!Spec

=============================================================================
