--------------------------- MODULE JsonReaderProofs ---------------------------
(***************************************************************************)
(* Proofs about JsonReader: its stacks follow its calls, and its pointers  *)
(* are alive, for every document, set of features and limit of depth.      *)
(*                                                                         *)
(* The inductive invariant adds where an error may have come before, and   *)
(* how deep the nodes and the last value lie: what replaces a value takes  *)
(* away only what is deeper than it, and neither the stack nor the last    *)
(* value ever points there.                                                *)
(***************************************************************************)
EXTENDS JsonReader, SequenceTheorems, TLAPS

(* What a value can be called by, and the calls under way. *)
Key == Strings \cup Numbers \cup {Index(i) : i \in Nat}
Path == Seq(Key)
Call == [of : {"object", "array"}, name : Strings \cup Numbers, index : Nat]

InContainer == {"name", "colon", "comma", "commented", "array", "separator", "recover"}

(* Types, as far as they matter here. *)
Typed ==
  /\ calls \in Seq(Call) /\ nodes_ \in Seq(Path)
  /\ stackDepth_g \in Int /\ errors_ \in Nat /\ ok \in BOOLEAN

(* Where a container is at work there is one, and no error came before.    *)
CallsAreSound ==
  /\ pc \in InContainer => calls # << >>
  /\ pc \in InContainer \ {"recover"} => errors_ = 0
  /\ pc = "return" /\ ok => errors_ = 0

(* Nodes are as deep as their place on the stack, and the last value is at *)
(* most one deeper than the container at work.                             *)
DepthsAgree ==
  /\ \A i \in 1..Len(nodes_) : Len(nodes_[i]) = i - 1
  /\ ~ collectComments_ => lastValue_ = NoValue
  /\ lastValue_ # NoValue => lastValue_ \in Path /\ Len(lastValue_) <= Len(calls)

Inv == Typed /\ CallsAreSound /\ DepthsAgree /\ StacksFollowCalls /\ PointersAreAlive

LEMMA FrontAndLast ==
  ASSUME NEW S, NEW s \in Seq(S), s # << >>
  PROVE  /\ Front(s) \in Seq(S) /\ Len(Front(s)) = Len(s) - 1
         /\ \A i \in 1..Len(s) - 1 : Front(s)[i] = s[i]
         /\ Last(s) \in S /\ Last(s) = s[Len(s)] /\ Len(s) \in Nat \ {0}
<1>1. Len(s) \in Nat \ {0}
  BY EmptySeq
<1>2. SubSeq(s, 1, Len(s) - 1) \in Seq(S)
  OBVIOUS
<1>3. \A i \in 1..Len(s) - 1 : SubSeq(s, 1, Len(s) - 1)[i] = s[i]
  OBVIOUS
<1>4. Len(SubSeq(s, 1, Len(s) - 1)) = Len(s) - 1
  <2>1. ASSUME NEW n \in Nat, \A i \in 1..n : s[i] \in S
        PROVE  Len(SubSeq(s, 1, n)) = n
    BY <2>1, SubSeqProperties
  <2>2. \A i \in 1..Len(s) - 1 : s[i] \in S
    BY <1>1, ElementOfSeq
  <2>3. Len(s) - 1 \in Nat
    BY <1>1
  <2> QED
    BY <2>1, <2>2, <2>3
<1>5. s[Len(s)] \in S
  BY <1>1, ElementOfSeq
<1> QED
  BY <1>1, <1>2, <1>3, <1>4, <1>5 DEF Front, Last

LEMMA Appended ==
  ASSUME NEW S, NEW s \in Seq(S), NEW e \in S
  PROVE  /\ Append(s, e) \in Seq(S) /\ Len(Append(s, e)) = Len(s) + 1
         /\ \A i \in 1..Len(s) : Append(s, e)[i] = s[i]
         /\ Append(s, e)[Len(s) + 1] = e
OBVIOUS

LEMMA ShorterIsNotBelow ==
  ASSUME NEW S, NEW p \in Seq(S), NEW q \in Seq(S), Len(q) <= Len(p)
  PROVE  ~ IsStrictPrefix(p, q)
<1> SUFFICES ASSUME IsPrefix(p, q) PROVE p = q
  BY DEF IsStrictPrefix
<1>1. Len(p) = Len(q) /\ SubSeq(p, 1, Len(p)) = SubSeq(q, 1, Len(p))
  BY DEF IsPrefix
<1>2. SubSeq(p, 1, Len(p)) = p /\ SubSeq(q, 1, Len(q)) = q
  OBVIOUS
<1> QED
  BY <1>1, <1>2

LEMMA InitEstablishes == Init => Inv
<1> SUFFICES ASSUME Init PROVE Inv
  OBVIOUS
<1>1. Root \in Path /\ Len(Root) = 0 /\ nodes_ \in Seq(Path) /\ Len(nodes_) = 1 /\ nodes_[1] = Root
  BY DEF Init, Root, Path
<1>2. calls \in Seq(Call) /\ Len(calls) = 0
  BY DEF Init
<1>3. DOMAIN tree = {Root}
  BY DEF Init
<1>4. Typed /\ CallsAreSound
  BY <1>1, <1>2 DEF Init, Typed, CallsAreSound, InContainer
<1>5. DepthsAgree
  BY <1>1, <1>2 DEF Init, DepthsAgree, NoValue
<1>6. StacksFollowCalls
  <2>1. pc = "readValue" /\ stackDepth_g = 0 /\ errors_ = 0
    BY DEF Init
  <2> QED
    BY <1>1, <1>2, <2>1 DEF StacksFollowCalls
<1>7. PointersAreAlive
  BY <1>1, <1>3 DEF Init, PointersAreAlive, NoValue
<1> QED
  BY <1>4, <1>5, <1>6, <1>7 DEF Inv

-------------------------------------------------------------------------------
(* The node at work. *)
LEMMA CurrentValue ==
  ASSUME Inv, pc # "thrown", pc \in InContainer \cup {"token", "return"}
  PROVE  /\ nodes_ # << >> /\ Len(nodes_) \in Nat \ {0} /\ Len(calls) \in Nat
         /\ currentValue \in Path /\ currentValue = nodes_[Len(nodes_)]
         /\ Len(currentValue) = Len(nodes_) - 1
         /\ currentValue \in DOMAIN tree
<1>1. Len(calls) \in Nat /\ (pc \in InContainer => Len(calls) \in Nat \ {0})
  BY EmptySeq, LenProperties DEF Inv, Typed, CallsAreSound
<1>2. Len(nodes_) \in Nat \ {0}
  BY <1>1 DEF Inv, StacksFollowCalls, InContainer
<1>3. nodes_ # << >> /\ nodes_ \in Seq(Path)
  BY <1>2, EmptySeq DEF Inv, Typed
<1>4. currentValue \in Path /\ currentValue = nodes_[Len(nodes_)]
  BY <1>3, FrontAndLast DEF currentValue
<1> QED
  BY <1>1, <1>2, <1>3, <1>4 DEF Inv, DepthsAgree, PointersAreAlive

(* A step inside a container that moves no stack and no value. *)
LEMMA QuietPreserves ==
  ASSUME Inv, pc \in InContainer, pc' \in InContainer,
         UNCHANGED <<nodes_, stackDepth_g, ok, tree, lastValue_, setting>>,
         calls' \in Seq(Call), Len(calls') = Len(calls),
         errors_' \in Nat, errors_' >= errors_, pc' # "recover" => errors_' = 0
  PROVE  Inv'
<1>1. Len(calls) \in Nat \ {0} /\ calls' # << >>
  BY EmptySeq DEF Inv, Typed, CallsAreSound
<1>2. Typed' /\ CallsAreSound'
  BY <1>1 DEF Inv, Typed, CallsAreSound, InContainer
<1>3. DepthsAgree' /\ PointersAreAlive'
  BY DEF Inv, DepthsAgree, PointersAreAlive, collectComments_
<1>4. StacksFollowCalls'
  BY <1>1 DEF Inv, Typed, StacksFollowCalls, InContainer
<1> QED
  BY <1>2, <1>3, <1>4 DEF Inv

(* readObject() or readArray() returns, and the value it was called for.   *)
LEMMA LeaveContainerPreserves ==
  ASSUME Inv, pc \in InContainer, NEW successful \in BOOLEAN, LeaveContainer(successful),
         successful => errors_ = 0, UNCHANGED <<nodes_, errors_, tree, setting>>
  PROVE  Inv'
<1>1. /\ calls \in Seq(Call) /\ calls # << >> /\ Len(calls) \in Nat \ {0}
      /\ calls' \in Seq(Call) /\ Len(calls') = Len(calls) - 1
  BY FrontAndLast, EmptySeq DEF Inv, Typed, CallsAreSound, LeaveContainer
<1>2. /\ pc' = "return" /\ ok' = successful /\ stackDepth_g' = stackDepth_g - 1
      /\ lastValue_' = (IF collectComments_ THEN currentValue ELSE lastValue_)
  BY DEF LeaveContainer, LeaveValue
<1>3. /\ currentValue \in Path /\ currentValue \in DOMAIN tree
      /\ Len(currentValue) = Len(nodes_) - 1 /\ Len(nodes_) = Len(calls)
  BY <1>1, CurrentValue DEF Inv, InContainer, StacksFollowCalls
<1>4. Typed' /\ CallsAreSound'
  BY <1>1, <1>2 DEF Inv, Typed, CallsAreSound, InContainer
<1>5. DepthsAgree' /\ PointersAreAlive'
  BY <1>1, <1>2, <1>3 DEF Inv, DepthsAgree, PointersAreAlive, collectComments_
<1>6. StacksFollowCalls'
  <2>1. Len(nodes_') = Len(calls') + 1
    BY <1>1, <1>3
  <2>2. stackDepth_g' - Len(calls') = stackDepth_g - Len(calls)
    BY <1>1, <1>2 DEF Inv, Typed
  <2>3. stackDepth_g - Len(calls) = 0 \/ (stackDepth_g - Len(calls) = 1 /\ errors_ > 0)
    BY <1>1 DEF Inv, Typed, StacksFollowCalls, InContainer
  <2> QED
    BY <1>1, <1>2, <2>1, <2>2, <2>3 DEF StacksFollowCalls, Inv, Typed
<1> QED
  BY <1>4, <1>5, <1>6 DEF Inv

(* On to a member or an element. *)
LEMMA DescendPreserves ==
  ASSUME Inv, pc \in InContainer \ {"recover"}, NEW key \in Key, Descend(key),
         calls' \in Seq(Call), Len(calls') = Len(calls),
         UNCHANGED <<stackDepth_g, ok, errors_, lastValue_, setting>>
  PROVE  Inv'
<1>1. /\ currentValue \in Path /\ Len(currentValue) = Len(nodes_) - 1
      /\ Len(nodes_) = Len(calls) /\ Len(calls) \in Nat \ {0} /\ errors_ = 0
      /\ nodes_ \in Seq(Path)
  BY CurrentValue, EmptySeq DEF Inv, Typed, CallsAreSound, InContainer, StacksFollowCalls
<1> DEFINE child == Append(currentValue, key)
<1>2. child \in Path /\ Len(child) = Len(nodes_)
  BY <1>1, AppendProperties DEF Path
<1>3. DOMAIN tree' = DOMAIN tree \cup {child}
  BY DEF Descend, Resolved
<1>4. pc' = "readValue" /\ nodes_' = Append(nodes_, child)
  BY DEF Descend
<1> HIDE DEF child
<1>5. /\ nodes_' \in Seq(Path) /\ Len(nodes_') = Len(nodes_) + 1
      /\ \A i \in 1..Len(nodes_) : nodes_'[i] = nodes_[i]
      /\ nodes_'[Len(nodes_) + 1] = child
  BY <1>1, <1>2, <1>4, AppendProperties
<1>6. Typed' /\ CallsAreSound'
  BY <1>4, <1>5 DEF Inv, Typed, CallsAreSound, InContainer
<1>7. DepthsAgree' /\ PointersAreAlive'
  <2>1. ASSUME NEW i \in 1..Len(nodes_')
        PROVE  Len(nodes_'[i]) = i - 1 /\ nodes_'[i] \in DOMAIN tree'
    <3>1. CASE i \in 1..Len(nodes_)
      BY <1>3, <1>5, <3>1 DEF Inv, DepthsAgree, PointersAreAlive
    <3>2. CASE i = Len(nodes_) + 1
      BY <1>1, <1>2, <1>3, <1>5, <3>2
    <3> QED
      BY <1>1, <1>5, <3>1, <3>2
  <2>2. DepthsAgree'
    BY <2>1 DEF Inv, DepthsAgree, collectComments_
  <2>3. PointersAreAlive'
    BY <1>3, <2>1 DEF Inv, PointersAreAlive
  <2> QED
    BY <2>2, <2>3
<1>8. StacksFollowCalls'
  <2>1. stackDepth_g - Len(calls) = 0
    BY <1>1 DEF Inv, Typed, StacksFollowCalls, InContainer
  <2> QED
    BY <1>1, <1>4, <1>5, <2>1 DEF StacksFollowCalls
<1> QED
  BY <1>6, <1>7, <1>8 DEF Inv

(* What a value is given does not touch the nodes above it. *)
LEMMA SwapKeeps ==
  ASSUME Inv, pc = "token", NEW kind, swapPayload(kind),
         NEW p \in DOMAIN tree, p \in Path, Len(p) < Len(nodes_)
  PROVE  p \in DOMAIN tree'
<1>1. currentValue \in Path /\ Len(p) <= Len(currentValue)
  BY CurrentValue, LenProperties DEF Path, InContainer
<1>2. ~ IsStrictPrefix(currentValue, p)
  BY <1>1, ShorterIsNotBelow DEF Path
<1> QED
  BY <1>2 DEF swapPayload

(* The end of a value that is no container, with or without an error. *)
LEMMA LeaveValuePreserves ==
  ASSUME Inv, pc = "token", NEW successful \in BOOLEAN, LeaveValue(successful),
         UNCHANGED <<calls, nodes_, setting>>,
         errors_' \in Nat, successful => errors_' = 0,
         \A p \in DOMAIN tree : p \in Path /\ Len(p) < Len(nodes_) => p \in DOMAIN tree'
  PROVE  Inv'
<1>1. /\ currentValue \in Path /\ currentValue \in DOMAIN tree
      /\ Len(currentValue) = Len(nodes_) - 1 /\ Len(nodes_) = Len(calls) + 1
      /\ Len(calls) \in Nat
  BY CurrentValue DEF Inv, InContainer, StacksFollowCalls
<1>2. /\ pc' = "return" /\ ok' = successful /\ stackDepth_g' = stackDepth_g - 1
      /\ lastValue_' = (IF collectComments_ THEN currentValue ELSE lastValue_)
  BY DEF LeaveValue
<1>3. Typed' /\ CallsAreSound'
  BY <1>1, <1>2 DEF Inv, Typed, CallsAreSound, InContainer
<1>4. DepthsAgree'
  BY <1>1, <1>2 DEF Inv, DepthsAgree, collectComments_
<1>5. PointersAreAlive'
  <2>1. ASSUME NEW i \in 1..Len(nodes_) PROVE nodes_[i] \in DOMAIN tree'
    <3>1. nodes_[i] \in Path /\ nodes_[i] \in DOMAIN tree /\ Len(nodes_[i]) < Len(nodes_)
      BY <1>1, ElementOfSeq DEF Inv, Typed, DepthsAgree, PointersAreAlive
    <3> QED
      BY <3>1
  <2>2. lastValue_' # NoValue => lastValue_' \in DOMAIN tree'
    BY <1>1, <1>2 DEF Inv, DepthsAgree, PointersAreAlive
  <2> QED
    BY <2>1, <2>2 DEF PointersAreAlive
<1>6. StacksFollowCalls'
  <2>1. stackDepth_g' - Len(calls') = 0
    BY <1>1, <1>2 DEF Inv, Typed, StacksFollowCalls
  <2> QED
    BY <1>1, <1>2, <2>1 DEF StacksFollowCalls
<1> QED
  BY <1>3, <1>4, <1>5, <1>6 DEF Inv

-------------------------------------------------------------------------------
(* What a change of the call under way leaves as it is. *)
LEMMA WithCallKeeps ==
  ASSUME calls \in Seq(Call), calls # << >>, NEW c \in Call, WithCall(c)
  PROVE  calls' \in Seq(Call) /\ Len(calls') = Len(calls)
<1>1. Front(calls) \in Seq(Call) /\ Len(Front(calls)) = Len(calls) - 1 /\ Len(calls) \in Nat
  BY FrontAndLast
<1>2. /\ Append(Front(calls), c) \in Seq(Call)
      /\ Len(Append(Front(calls), c)) = Len(Front(calls)) + 1
  BY <1>1, AppendProperties
<1> QED
  BY <1>1, <1>2 DEF WithCall

LEMMA CallIsKnown ==
  ASSUME calls \in Seq(Call), calls # << >>
  PROVE  call \in Call
BY FrontAndLast DEF call

LEMMA SkipCommentPreserves ==
  ASSUME Inv, NEW at \in {"token", "name", "separator", "finish"}, SkipComment(at)
  PROVE  Inv'
<1>1. /\ pc = at /\ UNCHANGED <<pc, calls, nodes_, stackDepth_g, ok, errors_, tree, setting>>
      /\ lastValue_' = lastValue_
  BY DEF SkipComment, call_vars, readComment, comment_vars
<1> QED
  BY <1>1 DEF Inv, Typed, CallsAreSound, DepthsAgree, StacksFollowCalls, PointersAreAlive,
     collectComments_

LEMMA NextPreserves == Inv /\ [Next]_vars => Inv'
<1> SUFFICES ASSUME Inv, [Next]_vars PROVE Inv'
  OBVIOUS
<1> USE DEF call_vars, read_vars, comment_vars
<1>0. calls \in Seq(Call) /\ nodes_ \in Seq(Path) /\ Len(calls) \in Nat /\ errors_ \in Nat
  BY LenProperties DEF Inv, Typed
<1>1. CASE EnterValue
  <2>1. /\ pc = "readValue" /\ pc' = "token" /\ stackDepth_g' = stackDepth_g + 1
        /\ UNCHANGED <<calls, nodes_, ok, errors_, tree, lastValue_, setting>>
    BY <1>1 DEF EnterValue
  <2>2. Typed' /\ CallsAreSound' /\ DepthsAgree' /\ PointersAreAlive'
    BY <2>1 DEF Inv, Typed, CallsAreSound, DepthsAgree, PointersAreAlive, InContainer,
       collectComments_
  <2>3. StacksFollowCalls'
    BY <1>0, <2>1 DEF Inv, Typed, StacksFollowCalls
  <2> QED
    BY <2>2, <2>3 DEF Inv
<1>2. CASE Exceeded
  BY <1>0, <1>2 DEF Exceeded, Inv, Typed, CallsAreSound, DepthsAgree, StacksFollowCalls,
     PointersAreAlive, InContainer, collectComments_
<1>3. CASE SkipCommentBeforeValue \/ SkipCommentBeforeName \/ SkipCommentAfterElement
           \/ SkipCommentAfterDocument
  BY <1>3, SkipCommentPreserves DEF SkipCommentBeforeValue, SkipCommentBeforeName,
     SkipCommentAfterElement, SkipCommentAfterDocument
<1>4. CASE ReadScalar
  <2>1. /\ pc = "token" /\ swapPayload(Last(doc')) /\ LeaveValue(TRUE)
        /\ UNCHANGED <<calls, nodes_, setting, errors_>>
    BY <1>4 DEF ReadScalar, ValueToken
  <2>2. errors_ = 0
    BY <2>1 DEF Inv, StacksFollowCalls
  <2> QED
    BY <1>0, <2>1, <2>2, SwapKeeps, LeaveValuePreserves
<1>5. CASE ReadFlawed
  <2>1. /\ pc = "token" /\ LeaveValue(FALSE) /\ errors_' = errors_ + 1
        /\ UNCHANGED <<calls, nodes_, setting, tree>>
    BY <1>5 DEF ReadFlawed, ValueToken
  <2>2. errors_' \in Nat /\ \A p \in DOMAIN tree : p \in DOMAIN tree'
    BY <1>0, <2>1
  <2> QED
    BY <2>1, <2>2, LeaveValuePreserves
<1>6. CASE ReadDropped
  <2>1. /\ pc = "token" /\ swapPayload("null") /\ LeaveValue(TRUE)
        /\ UNCHANGED <<calls, nodes_, setting, errors_>>
    BY <1>6 DEF ReadDropped
  <2>2. errors_ = 0
    BY <2>1 DEF Inv, StacksFollowCalls
  <2> QED
    BY <1>0, <2>1, <2>2, SwapKeeps, LeaveValuePreserves
<1>7. CASE ReadNoValue
  <2>1. /\ pc = "token" /\ pc' = "return" /\ ok' = FALSE /\ errors_' = errors_ + 1
        /\ UNCHANGED <<calls, nodes_, stackDepth_g, tree, lastValue_, setting>>
    BY <1>7 DEF ReadNoValue, ValueToken
  <2>2. Typed' /\ CallsAreSound'
    <3>1. ok' \in BOOLEAN /\ ~ ok'
      BY <2>1, Zenon
    <3>2. Typed'
      BY <1>0, <2>1, <3>1 DEF Inv, Typed
    <3> QED
      BY <2>1, <3>1, <3>2 DEF CallsAreSound, InContainer
  <2>4. DepthsAgree' /\ PointersAreAlive'
    BY <2>1 DEF Inv, DepthsAgree, PointersAreAlive, collectComments_
  <2>3. StacksFollowCalls'
    BY <1>0, <2>1 DEF Inv, Typed, StacksFollowCalls
  <2> QED
    BY <2>2, <2>3, <2>4 DEF Inv
<1>8. ASSUME NEW t, NEW kind \in {"object", "array"}, NEW next \in {"name", "array"},
             ReadContainer(t, kind, next)
      PROVE  Inv'
  <2> DEFINE c == [of |-> kind, name |-> "empty", index |-> 0]
  <2>1. /\ pc = "token" /\ pc' = next /\ swapPayload(kind) /\ calls' = Append(calls, c)
        /\ UNCHANGED <<nodes_, stackDepth_g, ok, errors_, lastValue_, setting>>
    BY <1>8 DEF ReadContainer, ValueToken
  <2>2. c \in Call
    BY DEF Call, Strings
  <2> HIDE DEF c
  <2>3. /\ calls' \in Seq(Call) /\ Len(calls') = Len(calls) + 1 /\ calls' # << >>
    BY <1>0, <2>1, <2>2, AppendProperties
  <2>4. Typed' /\ CallsAreSound'
    BY <2>1, <2>3 DEF Inv, Typed, CallsAreSound, StacksFollowCalls, InContainer
  <2>5. DepthsAgree'
    BY <1>0, <2>1, <2>3, LenProperties DEF Inv, DepthsAgree, collectComments_, Path
  <2>6. PointersAreAlive'
    <3>1. Len(nodes_) = Len(calls) + 1
      BY <2>1 DEF Inv, StacksFollowCalls
    <3>2. ASSUME NEW i \in 1..Len(nodes_) PROVE nodes_[i] \in DOMAIN tree'
      <4>1. nodes_[i] \in Path /\ nodes_[i] \in DOMAIN tree /\ Len(nodes_[i]) < Len(nodes_)
        BY <1>0, <3>1, ElementOfSeq DEF Inv, DepthsAgree, PointersAreAlive
      <4> QED
        BY <2>1, <4>1, SwapKeeps
    <3>3. ASSUME lastValue_ # NoValue PROVE lastValue_ \in DOMAIN tree'
      <4>1. lastValue_ \in Path /\ lastValue_ \in DOMAIN tree /\ Len(lastValue_) < Len(nodes_)
        BY <1>0, <3>1, <3>3, LenProperties DEF Inv, DepthsAgree, PointersAreAlive, Path
      <4> QED
        BY <2>1, <4>1, SwapKeeps
    <3> QED
      BY <2>1, <3>2, <3>3 DEF PointersAreAlive
  <2>7. StacksFollowCalls'
    BY <1>0, <2>1, <2>3 DEF Inv, Typed, StacksFollowCalls
  <2> QED
    BY <2>4, <2>5, <2>6, <2>7 DEF Inv
<1>9. CASE Return
  <2>1. /\ pc = "return" /\ Len(nodes_) = Len(calls) + 1
        /\ UNCHANGED <<calls, stackDepth_g, ok, errors_, tree, lastValue_, setting>>
    BY <1>9 DEF Return, Inv, StacksFollowCalls
  <2>2. CASE calls = << >>
    BY <1>0, <1>9, <2>1, <2>2 DEF Return, Inv, Typed, CallsAreSound, DepthsAgree,
       StacksFollowCalls, PointersAreAlive, InContainer, collectComments_
  <2>3. CASE calls # << >>
    <3>1. nodes_ # << >> /\ nodes_' = Front(nodes_)
      BY <1>0, <1>9, <2>1, <2>3, EmptySeq DEF Return
    <3>2. /\ nodes_' \in Seq(Path) /\ Len(nodes_') = Len(nodes_) - 1
          /\ \A i \in 1..Len(nodes_) - 1 : nodes_'[i] = nodes_[i]
      BY <1>0, <3>1, FrontAndLast
    <3>3. call.of \in {"object", "array"}
      BY <1>0, <2>3, CallIsKnown DEF Call
    <3>4. pc' \in {"recover", "comma", "separator"} /\ (pc' # "recover" => ok)
      BY <1>9, <2>3, <3>3 DEF Return, Inv, Typed
    <3>5. Typed' /\ CallsAreSound'
      BY <2>1, <2>3, <3>2, <3>4 DEF Inv, Typed, CallsAreSound, InContainer
    <3>6. DepthsAgree' /\ PointersAreAlive'
      BY <1>0, <2>1, <3>2 DEF Inv, DepthsAgree, PointersAreAlive, collectComments_
    <3>7. StacksFollowCalls'
      BY <1>0, <2>1, <3>2, <3>4 DEF Inv, Typed, StacksFollowCalls
    <3> QED
      BY <3>5, <3>6, <3>7 DEF Inv
  <2> QED
    BY <2>2, <2>3
<1>10. CASE Skip
  <2>1. pc = "recover" /\ UNCHANGED <<nodes_, errors_, tree, setting>>
    BY <1>10 DEF Skip
  <2>2. CASE UNCHANGED <<pc, calls, stackDepth_g, ok>> /\ lastValue_' = lastValue_
    BY <1>0, <2>1, <2>2, QuietPreserves DEF InContainer
  <2>3. CASE LeaveContainer(FALSE)
    BY <2>1, <2>3, LeaveContainerPreserves DEF InContainer
  <2> QED
    BY <1>10, <2>2, <2>3 DEF Skip, readComment
<1>11. CASE ObjectNameEnds \/ ObjectEnds \/ ArrayEmpty \/ ArrayEnds
  <2>1. /\ pc \in InContainer \ {"recover"} /\ LeaveContainer(TRUE)
        /\ UNCHANGED <<nodes_, errors_, tree, setting>>
    BY <1>11 DEF ObjectNameEnds, ObjectEnds, ArrayEmpty, ArrayEnds, InContainer
  <2>2. errors_ = 0
    BY <2>1 DEF Inv, CallsAreSound
  <2> QED
    BY <2>1, <2>2, LeaveContainerPreserves
<1>12. CASE ObjectName
  <2>1. PICK t \in Strings \cup Numbers : WithCall([call EXCEPT !.name = t])
    BY <1>12 DEF ObjectName, IsName
  <2>2. pc = "name" /\ pc' = "colon"
        /\ UNCHANGED <<nodes_, stackDepth_g, ok, errors_, tree, lastValue_, setting>>
    BY <1>12 DEF ObjectName
  <2>3. calls # << >> /\ errors_ = 0
    BY <2>2 DEF Inv, CallsAreSound, InContainer
  <2>4. [call EXCEPT !.name = t] \in Call
    <3>1. call \in Call
      BY <1>0, <2>3, CallIsKnown
    <3> QED
      BY <3>1 DEF Call
  <2>5. calls' \in Seq(Call) /\ Len(calls') = Len(calls)
    BY <1>0, <2>1, <2>3, <2>4, WithCallKeeps
  <2> QED
    BY <1>0, <2>2, <2>3, <2>5, QuietPreserves DEF InContainer
<1>13. CASE ObjectNameMissing \/ ObjectColonMissing \/ ObjectCommaMissing \/ ArraySeparatorMissing
  <2>1. /\ pc \in InContainer /\ pc' = "recover" /\ errors_' = errors_ + 1
        /\ UNCHANGED <<calls, nodes_, stackDepth_g, ok, tree, lastValue_, setting>>
    BY <1>13 DEF ObjectNameMissing, ObjectColonMissing, ObjectCommaMissing,
       ArraySeparatorMissing, addErrorAndRecover, readComment, InContainer
  <2> QED
    BY <1>0, <2>1, QuietPreserves DEF InContainer
<1>14. CASE ObjectComma \/ ObjectCommentAfterMember \/ ObjectAnyComma
  <2>1. /\ pc \in {"comma", "commented"} /\ pc' \in {"name", "commented"}
        /\ UNCHANGED <<calls, nodes_, stackDepth_g, ok, errors_, tree, lastValue_, setting>>
    BY <1>14 DEF ObjectComma, ObjectCommentAfterMember, ObjectAnyComma, readComment
  <2>2. errors_ = 0
    BY <2>1 DEF Inv, CallsAreSound, InContainer
  <2> QED
    BY <1>0, <2>1, <2>2, QuietPreserves DEF InContainer
<1>15. CASE ObjectColon
  <2>1. /\ pc = "colon" /\ Descend(call.name)
        /\ UNCHANGED <<calls, stackDepth_g, ok, errors_, lastValue_, setting>>
    BY <1>15 DEF ObjectColon
  <2>2. calls # << >>
    BY <2>1 DEF Inv, CallsAreSound, InContainer
  <2>3. call.name \in Key
    BY <1>0, <2>2, CallIsKnown DEF Call, Key
  <2> QED
    BY <1>0, <2>1, <2>3, DescendPreserves DEF InContainer
<1>16. CASE ArrayFirst
  <2>1. /\ pc = "array" /\ Descend(Index(0))
        /\ UNCHANGED <<calls, stackDepth_g, ok, errors_, lastValue_, setting>>
    BY <1>16 DEF ArrayFirst
  <2>2. Index(0) \in Key
    BY DEF Key
  <2> QED
    BY <1>0, <2>1, <2>2, DescendPreserves DEF InContainer
<1>17. CASE ArrayNext
  <2>1. /\ pc = "separator" /\ WithCall([call EXCEPT !.index = @ + 1])
        /\ Descend(Index(call.index + 1))
        /\ UNCHANGED <<stackDepth_g, ok, errors_, lastValue_, setting>>
    BY <1>17 DEF ArrayNext
  <2>2. calls # << >>
    BY <2>1 DEF Inv, CallsAreSound, InContainer
  <2>3. call \in Call /\ call.index + 1 \in Nat /\ [call EXCEPT !.index = @ + 1] \in Call
    <3>1. call \in Call
      BY <1>0, <2>2, CallIsKnown
    <3> QED
      BY <3>1 DEF Call
  <2>4. calls' \in Seq(Call) /\ Len(calls') = Len(calls)
    BY <1>0, <2>1, <2>2, <2>3, WithCallKeeps
  <2>5. Index(call.index + 1) \in Key
    BY <2>3 DEF Key
  <2> QED
    BY <2>1, <2>4, <2>5, DescendPreserves DEF InContainer
<1>18. CASE Finish
  <2>1. /\ pc = "finish" /\ pc' = "done"
        /\ (ok' = FALSE /\ errors_' = errors_ + 1) \/ UNCHANGED <<ok, errors_>>
        /\ UNCHANGED <<calls, nodes_, stackDepth_g, tree, lastValue_, setting>>
    BY <1>18 DEF Finish
  <2>2. ok' \in BOOLEAN
    BY <2>1, Zenon DEF Inv, Typed
  <2>3. errors_' \in Nat /\ errors_' >= errors_
    BY <1>0, <2>1
  <2>4. Typed' /\ CallsAreSound'
    BY <2>1, <2>2, <2>3 DEF Inv, Typed, CallsAreSound, InContainer
  <2>5. DepthsAgree' /\ PointersAreAlive'
    BY <2>1 DEF Inv, DepthsAgree, PointersAreAlive, collectComments_
  <2>6. StacksFollowCalls'
    BY <1>0, <2>1, <2>3 DEF Inv, Typed, StacksFollowCalls
  <2> QED
    BY <2>4, <2>5, <2>6 DEF Inv
<1>19. CASE UNCHANGED vars
  BY <1>19 DEF vars, Inv, Typed, CallsAreSound, DepthsAgree, StacksFollowCalls,
     PointersAreAlive, collectComments_
<1> QED
  BY <1>1, <1>2, <1>3, <1>4, <1>5, <1>6, <1>7, <1>8, <1>9, <1>10, <1>11, <1>12, <1>13, <1>14,
     <1>15, <1>16, <1>17, <1>18, <1>19 DEF Next

LEMMA InvAlways == Spec => []Inv
BY InitEstablishes, NextPreserves, PTL DEF Spec

(* Whatever the document and however deep it nests, readValue() and those it *)
(* calls push and pop nodes_ and count stackDepth_g in pairs, on the paths   *)
(* out of an error too.                                                      *)
THEOREM StacksAlwaysFollow == Spec => []StacksFollowCalls
<1>1. Inv => StacksFollowCalls
  BY DEF Inv
<1> QED
  BY <1>1, InvAlways, PTL

(* No pointer of the reader, on its stack or to the last value, is left to a *)
(* value that is gone.                                                       *)
THEOREM PointersAlwaysAlive == Spec => []PointersAreAlive
<1>1. Inv => PointersAreAlive
  BY DEF Inv
<1> QED
  BY <1>1, InvAlways, PTL

-------------------------------------------------------------------------------
(* What is read, as far as the comments depend on it: a comment is known by  *)
(* its place in the document.                                                *)
CommentsTyped ==
  /\ setting \in Settings
  /\ doc \in Seq(Tokens \cup {"end"}) /\ unread \in Tokens \cup {"end", "none"}
  /\ commentsBefore_ \in Seq(Nat)

LEMMA ReadTokenTyped ==
  ASSUME CommentsTyped, NEW t, readToken(t)
  PROVE  doc' \in Seq(Tokens \cup {"end"}) /\ unread' = "none" /\ Len(doc') \in Nat
<1>1. setting.tokens \subseteq Tokens
  BY ReaderAssumption DEF CommentsTyped, Setting
<1>2. t \in Tokens \cup {"end"}
  BY <1>1 DEF CommentsTyped, readToken, Upcoming
<1>3. doc' \in Seq(Tokens \cup {"end"})
  <2> HIDE DEF Tokens
  <2> QED
    BY <1>2, AppendProperties DEF CommentsTyped, readToken
<1> QED
  BY <1>3, LenProperties DEF readToken

LEMMA SetCommentIs ==
  ASSUME NEW p, NEW placement, NEW s
  PROVE  /\ <<p, placement>> \in DOMAIN setComment(p, placement, s)
         /\ setComment(p, placement, s)[<<p, placement>>] = s
         /\ \A k \in DOMAIN attached : k \in DOMAIN setComment(p, placement, s)
BY DEF setComment

(* What CommentsAreKept asks of a step. *)
StepKeeps ==
  \A c \in 1..Len(doc) : Kept(c) /\ ~ Kept(c)' =>
    \E k \in DOMAIN attached :
      /\ c \in Range(attached[k])
      /\ \/ k[1] \notin DOMAIN tree'
         \/ k \in DOMAIN attached' /\ attached'[k] # attached[k]

(* It is enough that no place is lost but with its value, and that what has  *)
(* not been hung up is not forgotten.                                        *)
LEMMA PlacesSuffice ==
  ASSUME \A k \in DOMAIN attached : k \in DOMAIN attached' \/ k[1] \notin DOMAIN tree',
         \A c \in Range(commentsBefore_) : Kept(c)'
  PROVE  StepKeeps
BY DEF StepKeeps, Kept

LEMMA NothingHung ==
  ASSUME UNCHANGED <<commentsBefore_, attached>>
  PROVE  StepKeeps
BY PlacesSuffice DEF Kept

LEMMA CommentRead ==
  ASSUME CommentsTyped, Len(doc') \in Nat, NEW c, readComment(c)
  PROVE  commentsBefore_' \in Seq(Nat) /\ StepKeeps
<1>1. CASE UNCHANGED <<commentsBefore_, attached>>
  BY <1>1, NothingHung DEF CommentsTyped
<1>2. CASE /\ attached' = setComment(lastValue_, "commentAfterOnSameLine", <<Len(doc')>>)
           /\ UNCHANGED commentsBefore_
  <2>1. \A k \in DOMAIN attached : k \in DOMAIN attached'
    BY <1>2, SetCommentIs
  <2>2. \A b \in Range(commentsBefore_) : Kept(b)'
    BY <1>2 DEF Kept
  <2> QED
    BY <1>2, <2>1, <2>2, PlacesSuffice DEF CommentsTyped
<1>3. CASE commentsBefore_' = Append(commentsBefore_, Len(doc')) /\ UNCHANGED attached
  <2>1. commentsBefore_ \in Seq(Nat) /\ commentsBefore_' \in Seq(Nat)
    BY <1>3, AppendProperties DEF CommentsTyped
  <2>2. \A i \in DOMAIN commentsBefore_ :
          i \in DOMAIN commentsBefore_' /\ commentsBefore_'[i] = commentsBefore_[i]
    BY <1>3, <2>1, AppendProperties
  <2>3. \A b \in Range(commentsBefore_) : Kept(b)'
    BY <2>2 DEF Kept, Range
  <2> QED
    BY <1>3, <2>1, <2>3, PlacesSuffice
<1> QED
  BY <1>1, <1>2, <1>3 DEF readComment, comment_vars

(* What waited for a value is at the value when commentsBefore_ is emptied.  *)
LEMMA HungIs ==
  /\ \A k \in DOMAIN attached : k \in DOMAIN Hung
  /\ \A c \in Range(commentsBefore_) :
       \E k \in DOMAIN Hung : k[1] = currentValue /\ c \in Range(Hung[k])
<1>1. CASE commentsBefore_ = << >>
  BY <1>1 DEF Hung, Range
<1>2. CASE commentsBefore_ # << >>
  <2> DEFINE k == <<currentValue, "commentBefore">>
  <2>1. Hung = setComment(currentValue, "commentBefore", commentsBefore_)
    BY <1>2 DEF Hung
  <2>2. k \in DOMAIN Hung /\ Hung[k] = commentsBefore_ /\ k[1] = currentValue
    BY <2>1, SetCommentIs
  <2> QED
    BY <2>1, <2>2, SetCommentIs
<1> QED
  BY <1>1, <1>2

LEMMA HungKeeps ==
  ASSUME attached' = Hung
  PROVE  StepKeeps
BY HungIs, PlacesSuffice DEF Kept

(* A value that is replaced keeps its own comments.                          *)
LEMMA SwapKeepsComments ==
  ASSUME NEW kind, swapPayload(kind)
  PROVE  StepKeeps
<1>1. ~ IsStrictPrefix(currentValue, currentValue)
  BY DEF IsStrictPrefix
<1>2. /\ DOMAIN attached' = {k \in DOMAIN Hung : ~ IsStrictPrefix(currentValue, k[1])}
      /\ \A k \in DOMAIN attached' : attached'[k] = Hung[k]
      /\ \A q \in DOMAIN tree' : ~ IsStrictPrefix(currentValue, q)
  BY DEF swapPayload
<1>3. \A k \in DOMAIN attached : k \in DOMAIN attached' \/ k[1] \notin DOMAIN tree'
  BY <1>2, HungIs
<1>4. ASSUME NEW c \in Range(commentsBefore_) PROVE Kept(c)'
  <2>1. PICK k \in DOMAIN Hung : k[1] = currentValue /\ c \in Range(Hung[k])
    BY HungIs
  <2>2. k \in DOMAIN attached' /\ attached'[k] = Hung[k]
    BY <1>1, <1>2, <2>1
  <2> QED
    BY <2>1, <2>2 DEF Kept
<1> QED
  BY <1>3, <1>4, PlacesSuffice

LEMMA CommentsStayTyped ==
  CommentsTyped /\ [Next]_vars => CommentsTyped' /\ (StepKeeps \/ UNCHANGED vars)
<1> SUFFICES ASSUME CommentsTyped, [Next]_vars
             PROVE  CommentsTyped' /\ (StepKeeps \/ UNCHANGED vars)
  OBVIOUS
<1> USE DEF call_vars, read_vars
<1>0. << >> \in Seq(Nat)
  OBVIOUS
<1>1. CASE EnterValue \/ Exceeded \/ Return
  <2>1. UNCHANGED <<doc, unread, comment_vars, setting>>
    BY <1>1 DEF EnterValue, Exceeded, Return
  <2> QED
    BY <2>1, NothingHung DEF CommentsTyped, comment_vars
<1>2. ASSUME NEW at, SkipComment(at)
      PROVE  CommentsTyped' /\ StepKeeps
  <2>1. PICK c : readToken(c) /\ readComment(c)
    BY <1>2 DEF SkipComment
  <2> QED
    BY <1>2, <2>1, ReadTokenTyped, CommentRead DEF CommentsTyped, SkipComment
<1>3. ASSUME NEW S, ValueToken(S), UNCHANGED setting
      PROVE  CommentsTyped'
  BY <1>0, <1>3, ReadTokenTyped DEF ValueToken, CommentsTyped
<1>4. CASE ReadScalar
  BY <1>3, <1>4, SwapKeepsComments DEF ReadScalar
<1>5. CASE ReadFlawed \/ ReadNoValue
  BY <1>3, <1>5, HungKeeps DEF ReadFlawed, ReadNoValue
<1>6. CASE ReadDropped
  BY <1>0, <1>6, SwapKeepsComments DEF ReadDropped, CommentsTyped, Tokens, Structure
<1>7. ASSUME NEW t, NEW kind, NEW next, ReadContainer(t, kind, next)
      PROVE  CommentsTyped' /\ StepKeeps
  BY <1>3, <1>7, SwapKeepsComments DEF ReadContainer
<1>8. ASSUME NEW t, readToken(t), UNCHANGED <<commentsBefore_, attached, setting>>
      PROVE  CommentsTyped' /\ StepKeeps
  BY <1>8, ReadTokenTyped, NothingHung DEF CommentsTyped
<1>9. ASSUME NEW t, readToken(t), readComment(t), UNCHANGED setting
      PROVE  CommentsTyped' /\ StepKeeps
  BY <1>9, ReadTokenTyped, CommentRead DEF CommentsTyped
<1>10. CASE Skip
  BY <1>8, <1>9, <1>10 DEF Skip
<1>11. CASE ObjectColonMissing \/ ObjectCommentAfterMember
  BY <1>8, <1>9, <1>11 DEF ObjectColonMissing, ObjectCommentAfterMember, comment_vars
<1>12. CASE \/ ObjectNameEnds \/ ObjectName \/ ObjectNameMissing \/ ObjectColon \/ ObjectEnds
            \/ ObjectComma \/ ObjectAnyComma \/ ObjectCommaMissing
  <2>1. UNCHANGED <<commentsBefore_, attached, setting>> /\ \E t : readToken(t)
    BY <1>12 DEF ObjectNameEnds, ObjectName, ObjectNameMissing, ObjectColon, ObjectEnds,
       ObjectComma, ObjectAnyComma, ObjectCommaMissing, comment_vars
  <2> QED
    BY <1>8, <2>1
<1>13. CASE ArrayEmpty \/ ArrayNext \/ ArrayEnds \/ ArraySeparatorMissing
  <2>1. UNCHANGED <<commentsBefore_, attached, setting>> /\ \E t : readToken(t)
    BY <1>13 DEF ArrayEmpty, ArrayNext, ArrayEnds, ArraySeparatorMissing, comment_vars
  <2> QED
    BY <1>8, <2>1
<1>14. CASE ArrayFirst
  <2>1. setting.tokens \subseteq Tokens
    BY ReaderAssumption DEF CommentsTyped, Setting
  <2>2. unread' \in Tokens \cup {"end", "none"}
    BY <1>14, <2>1 DEF ArrayFirst, Upcoming, CommentsTyped
  <2> QED
    BY <1>14, <2>2, NothingHung DEF ArrayFirst, CommentsTyped, comment_vars
<1>15. CASE Finish
  <2>1. UNCHANGED <<commentsBefore_, setting>> /\ \E t : readToken(t)
    BY <1>15 DEF Finish
  <2>2. \A k \in DOMAIN attached : k \in DOMAIN attached'
    BY <1>15, SetCommentIs DEF Finish
  <2>3. \A c \in Range(commentsBefore_) : Kept(c)'
    BY <2>1 DEF Kept
  <2> QED
    BY <2>1, <2>2, <2>3, ReadTokenTyped, PlacesSuffice DEF CommentsTyped
<1>16. CASE UNCHANGED vars
  BY <1>16 DEF vars, CommentsTyped, comment_vars
<1> QED
  BY <1>1, <1>2, <1>4, <1>5, <1>6, <1>7, <1>10, <1>11, <1>12, <1>13, <1>14, <1>15, <1>16
  DEF Next, SkipCommentBeforeValue, SkipCommentBeforeName, SkipCommentAfterElement,
      SkipCommentAfterDocument

(* Each comment of the document stays where it was hung up, or waits for its *)
(* value, until a later comment takes its place or a member of the same name *)
(* replaces its value: no path through the reader, not even one with an      *)
(* error, forgets one.                                                       *)
THEOREM CommentsAlwaysKept == Spec => CommentsAreKept
<1>1. Init => CommentsTyped
  BY DEF Init, CommentsTyped
<1>2. CommentsTyped /\ [Next]_vars => CommentsTyped'
  BY CommentsStayTyped
<1>3. CommentsTyped /\ [Next]_vars => [StepKeeps]_vars
  BY CommentsStayTyped
<1>4. [StepKeeps]_vars => [\A c \in 1..Len(doc) : Kept(c) /\ ~ Kept(c)' =>
         \E k \in DOMAIN attached :
           /\ c \in Range(attached[k])
           /\ \/ k[1] \notin DOMAIN tree'
              \/ k \in DOMAIN attached' /\ attached'[k] # attached[k]]_vars
  BY DEF StepKeeps
<1> QED
  BY <1>1, <1>2, <1>3, <1>4, PTL DEF Spec, CommentsAreKept
===============================================================================
