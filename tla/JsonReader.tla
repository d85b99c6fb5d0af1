----------------------------- MODULE JsonReader -----------------------------
(***************************************************************************)
(* Json::Reader: the recursive descent over the tokens of a document, with *)
(* its stack of nodes, its error recovery, its depth limit and the places  *)
(* at which it hangs up comments.                                          *)
(*                                                                         *)
(* The document is not fixed from the start: each token is chosen when the *)
(* reader comes to it, and doc records them.  A value is a node of tree,   *)
(* named by the path of member names and indices that leads to it.         *)
(***************************************************************************)
EXTENDS Integers, Sequences, SequencesExt

CONSTANTS
  StackLimit,          \* stackLimit_g
  Settings             \* the readers to look at

Structure == {"{", "}", "[", "]", ",", ":"}
Strings == {"a", "b", "empty"}              \* "empty" is the string ""
Numbers == {"1", "2"}
Literals == {"null"}
(* "split" is a block comment with a line break in it. *)
Comments == {"block", "split", "line"}
(* What decodes to nothing: a bad escape, an "1e"; and no token at all. *)
Flawed == {"badstring", "badnumber", "error"}
Tokens == Structure \cup Strings \cup Numbers \cup Literals \cup Comments \cup Flawed \cup {"nul"}

(* A tokenEndOfStream is the end of the document, or a zero in its middle. *)
EndOfStream == {"end", "nul"}

FeatureNames == {"allowComments", "strictRoot", "allowDroppedNullPlaceholders", "allowNumericKeys"}
Features == [FeatureNames -> BOOLEAN]
all == [f \in FeatureNames |-> f = "allowComments"]
strictMode == [all EXCEPT !["allowComments"] = FALSE, !["strictRoot"] = TRUE]

(* A reader, and the documents it is given. *)
Setting == [features : Features,
            collectComments : BOOLEAN,
            tokens : SUBSET Tokens,      \* the tokens documents are made of
            maxTokens : Nat]             \* how many of them (bounds the model)

VARIABLES
  setting,
  doc,                 \* the tokens read so far; "end" is the end of the document
  unread,              \* a token looked at or put back, or "none"
  pc,                  \* where the innermost call is
  calls,               \* the readObject() and readArray() under way
  nodes_,              \* paths; the last one is currentValue()
  stackDepth_g,
  ok,                  \* what the last call returned
  errors_,             \* how many
  tree,                \* the kind of the value at each path
  commentsBefore_, lastValue_,
  sameLine,            \* no line break since lastValueEnd_
  attached,            \* the comments of a value: <<path, placement>> -> comments
  beyond               \* the byte behind the document was taken for a "]"

read_vars == <<doc, unread>>
comment_vars == <<commentsBefore_, lastValue_, sameLine, attached>>
call_vars == <<calls, nodes_>>
vars == <<read_vars, pc, call_vars, stackDepth_g, ok, errors_, tree, comment_vars, beyond, setting>>

features_ == setting.features
collectComments_ == setting.collectComments

ASSUME ReaderAssumption ==
  /\ StackLimit \in Nat \ {0}
  /\ Settings \subseteq Setting
  (* parse() sees to it. *)
  /\ \A s \in Settings : s.collectComments => s.features["allowComments"]

Root == << >>

(* The key of an element: not the name of any member. *)
Index(i) == "#" \o ToString(i)

(* A member or element that is not there yet is created as a null. *)
Resolved(p) ==
  [q \in DOMAIN tree \cup {p} |-> IF q \in DOMAIN tree THEN tree[q] ELSE "null"]
NoValue == <<"none">>

Init ==
  /\ setting \in Settings
  /\ doc = << >> /\ unread = "none"
  /\ pc = "readValue" /\ calls = << >> /\ nodes_ = <<Root>> /\ stackDepth_g = 0
  /\ ok = TRUE /\ errors_ = 0
  /\ tree = [p \in {Root} |-> "null"]
  /\ commentsBefore_ = << >> /\ lastValue_ = NoValue /\ sameLine = FALSE
  /\ attached = << >>
  /\ beyond = FALSE

-------------------------------------------------------------------------------
(* readToken() *)

Ended == doc # << >> /\ Last(doc) = "end"

Upcoming ==
  IF unread # "none" THEN {unread}
  ELSE IF Ended \/ Len(doc) >= setting.maxTokens THEN {"end"}
  ELSE setting.tokens \cup {"end"}

readToken(t) ==
  /\ t \in Upcoming
  /\ doc' = IF Ended THEN doc ELSE Append(doc, t)
  /\ unread' = "none"

currentValue == Last(nodes_)

-------------------------------------------------------------------------------
(* Comments. *)

setComment(p, placement, s) ==
  [k \in DOMAIN attached \cup {<<p, placement>>} |->
     IF k = <<p, placement>> THEN s ELSE attached[k]]

(* Whether readComment() places a comment after the value before it. *)
OnSameLine(c, broken) ==
  lastValue_ # NoValue /\ sameLine /\ ~ broken /\ c # "split"

(* readComment() and addComment(); the text before the comment may hold a  *)
(* line break.                                                             *)
readComment(c) ==
  IF ~ collectComments_ THEN UNCHANGED comment_vars
  ELSE \E broken \in BOOLEAN :
    /\ IF OnSameLine(c, broken)
       THEN /\ attached' = setComment(lastValue_, "commentAfterOnSameLine", <<Len(doc')>>)
            /\ UNCHANGED commentsBefore_
       ELSE /\ commentsBefore_' = Append(commentsBefore_, Len(doc'))
            /\ UNCHANGED attached
    /\ sameLine' = (sameLine /\ ~ broken /\ c = "block")
    /\ UNCHANGED lastValue_

(* A comment that the function at hand skips. *)
SkipComment(at) ==
  /\ pc = at
  /\ \E c \in Comments \cap Upcoming : readToken(c) /\ readComment(c)
  /\ UNCHANGED <<pc, call_vars, stackDepth_g, ok, errors_, tree, beyond, setting>>

-------------------------------------------------------------------------------
(* readValue() *)

EnterValue ==
  /\ pc = "readValue" /\ stackDepth_g < StackLimit
  /\ stackDepth_g' = stackDepth_g + 1
  /\ pc' = "token"
  /\ UNCHANGED <<read_vars, call_vars, ok, errors_, tree, comment_vars, beyond, setting>>

(* throwRuntimeError() leaves parse(). *)
Exceeded ==
  /\ pc = "readValue" /\ stackDepth_g >= StackLimit
  /\ pc' = "thrown"
  /\ UNCHANGED <<read_vars, call_vars, stackDepth_g, ok, errors_, tree, comment_vars, beyond, setting>>

SkipCommentBeforeValue == features_["allowComments"] /\ SkipComment("token")

(* Mutant: the comments before a value are not hung up. *)
NotHung == attached

(* The comments before a value are hung up at it. *)
Hung ==
  IF commentsBefore_ = << >> THEN attached
  ELSE setComment(currentValue, "commentBefore", commentsBefore_)

ValueToken(S) ==
  /\ pc = "token"
  /\ \E t \in S : readToken(t)
  /\ commentsBefore_' = << >>

(* currentValue().swapPayload(): what was below the node goes, with its    *)
(* comments; the comments of the node stay.                                *)
swapPayload(kind) ==
  LET Stays(p) == ~ IsStrictPrefix(currentValue, p) IN
  /\ tree' = [p \in {q \in DOMAIN tree : Stays(q)} |-> IF p = currentValue THEN kind ELSE tree[p]]
  /\ attached' = [k \in {c \in DOMAIN Hung : Stays(c[1])} |-> Hung[k]]

(* Mutant: the end of a container is not noted. *)
LeaveAtScalarsOnly(successful) ==
  /\ IF collectComments_ /\ pc = "token"
     THEN lastValue_' = currentValue /\ sameLine' = TRUE
     ELSE UNCHANGED <<lastValue_, sameLine>>
  /\ stackDepth_g' = stackDepth_g - 1 /\ ok' = successful /\ pc' = "return"

(* Mutant: a failed value does not count down. *)
LeaveUncounted(successful) ==
  /\ UNCHANGED <<lastValue_, sameLine>>
  /\ stackDepth_g' = stackDepth_g - (IF successful THEN 1 ELSE 0)
  /\ ok' = successful /\ pc' = "return"

(* The end of readValue(). *)
LeaveValue(successful) ==
  /\ IF collectComments_ THEN lastValue_' = currentValue /\ sameLine' = TRUE
     ELSE UNCHANGED <<lastValue_, sameLine>>
  /\ stackDepth_g' = stackDepth_g - 1
  /\ ok' = successful
  /\ pc' = "return"

ReadScalar ==
  /\ ValueToken(Strings \cup Numbers \cup Literals)
  /\ swapPayload(Last(doc'))
  /\ LeaveValue(TRUE)
  /\ UNCHANGED <<call_vars, errors_, beyond, setting>>

(* decodeString() or decodeNumber() fails. *)
ReadFlawed ==
  /\ ValueToken({"badstring", "badnumber"})
  /\ attached' = Hung
  /\ errors_' = errors_ + 1
  /\ LeaveValue(FALSE)
  /\ UNCHANGED <<call_vars, tree, beyond, setting>>

(* A dropped placeholder: the token is put back, the value is null. *)
ReadDropped ==
  /\ features_["allowDroppedNullPlaceholders"]
  /\ pc = "token"
  /\ unread' \in {",", "]", "}"} \cap Upcoming
  /\ UNCHANGED doc
  /\ commentsBefore_' = << >>
  /\ swapPayload("null")
  /\ LeaveValue(TRUE)
  /\ UNCHANGED <<call_vars, errors_, beyond, setting>>

(* Any other token: an error, without the end of the function. *)
ReadNoValue ==
  /\ ValueToken({"error", ":"} \cup EndOfStream
                  \cup (IF features_["allowDroppedNullPlaceholders"] THEN {} ELSE {",", "]", "}"})
                  \cup (IF features_["allowComments"] THEN {} ELSE Comments))
  /\ attached' = Hung
  /\ errors_' = errors_ + 1
  /\ ok' = FALSE /\ pc' = "return"
  /\ UNCHANGED <<call_vars, stackDepth_g, tree, lastValue_, sameLine, beyond, setting>>

ReadContainer(t, kind, next) ==
  /\ ValueToken({t})
  /\ swapPayload(kind)
  /\ calls' = Append(calls, [of |-> kind, name |-> "empty", index |-> 0])
  /\ pc' = next
  /\ UNCHANGED <<nodes_, stackDepth_g, ok, errors_, lastValue_, sameLine, beyond, setting>>

-------------------------------------------------------------------------------
(* What readObject() and readArray() share. *)

call == Last(calls)
WithCall(c) == calls' = Append(Front(calls), c)

(* The container is finished, and with it the readValue() that began it. *)
LeaveContainer(successful) ==
  /\ calls' = Front(calls)
  /\ LeaveValue(successful)

addErrorAndRecover == errors_' = errors_ + 1 /\ pc' = "recover"

(* Into the readValue() of a member or an element. *)
Descend(key) ==
  /\ nodes_' = Append(nodes_, Append(currentValue, key))
  /\ tree' = Resolved(Append(currentValue, key))
  /\ pc' = "readValue"

(* readValue() has returned to its caller, which pops the node. *)
Return ==
  /\ pc = "return"
  /\ IF calls = << >>
     THEN pc' = "finish" /\ UNCHANGED nodes_
     ELSE /\ nodes_' = Front(nodes_)
          /\ pc' = CASE ~ ok -> "recover"
                     [] ok /\ call.of = "object" -> "comma"
                     [] ok /\ call.of = "array" -> "separator"
  /\ UNCHANGED <<read_vars, calls, stackDepth_g, ok, errors_, tree, comment_vars, beyond, setting>>

Recovered(t) == t \in EndOfStream \cup {IF call.of = "object" THEN "}" ELSE "]"}

(* recoverFromError(): on to the token that would end the container. *)
Skip ==
  /\ pc = "recover"
  /\ \E t \in Upcoming :
       /\ readToken(t)
       /\ IF t \in Comments THEN readComment(t) /\ UNCHANGED <<pc, calls, stackDepth_g, ok>>
          ELSE /\ UNCHANGED <<commentsBefore_, attached>>
               /\ IF Recovered(t)
                  THEN LeaveContainer(FALSE)
                  ELSE UNCHANGED <<pc, calls, stackDepth_g, ok, lastValue_, sameLine>>
  /\ UNCHANGED <<nodes_, errors_, tree, beyond, setting>>

-------------------------------------------------------------------------------
(* readObject() *)

SkipCommentBeforeName == SkipComment("name")

(* Mutant: a name read before counts like none. *)
EndsObjectAlways(t) == t = "}"

(* A "}" in the place of a name: right after "{", or after a member "". *)
EndsObject(t) == t = "}" /\ call.name = "empty"

ObjectNameEnds ==
  /\ pc = "name"
  /\ \E t \in Upcoming : EndsObject(t) /\ readToken(t)
  /\ LeaveContainer(TRUE)
  /\ UNCHANGED <<nodes_, errors_, tree, commentsBefore_, attached, beyond, setting>>

IsName(t) == t \in Strings \/ (t \in Numbers /\ features_["allowNumericKeys"])

ObjectName ==
  /\ pc = "name"
  /\ \E t \in Upcoming :
       /\ IsName(t) /\ readToken(t)
       /\ WithCall([call EXCEPT !.name = t])
  /\ pc' = "colon"
  /\ UNCHANGED <<nodes_, stackDepth_g, ok, errors_, tree, comment_vars, beyond, setting>>

ObjectNameMissing ==
  /\ pc = "name"
  /\ \E t \in Upcoming \ Comments : ~ EndsObject(t) /\ ~ IsName(t) /\ readToken(t)
  /\ addErrorAndRecover
  /\ UNCHANGED <<call_vars, stackDepth_g, ok, tree, comment_vars, beyond, setting>>

ObjectColon ==
  /\ pc = "colon"
  /\ readToken(":")
  /\ Descend(call.name)
  /\ UNCHANGED <<calls, stackDepth_g, ok, errors_, comment_vars, beyond, setting>>

ObjectColonMissing ==
  /\ pc = "colon"
  /\ \E t \in Upcoming \ {":"} :
       readToken(t) /\ IF t \in Comments THEN readComment(t) ELSE UNCHANGED comment_vars
  /\ addErrorAndRecover
  /\ UNCHANGED <<call_vars, stackDepth_g, ok, tree, beyond, setting>>

ObjectEnds ==
  /\ pc \in {"comma", "commented"}
  /\ readToken("}")
  /\ LeaveContainer(TRUE)
  /\ UNCHANGED <<nodes_, errors_, tree, commentsBefore_, attached, beyond, setting>>

ObjectComma ==
  /\ pc = "comma"
  /\ readToken(",")
  /\ pc' = "name"
  /\ UNCHANGED <<call_vars, stackDepth_g, ok, errors_, tree, comment_vars, beyond, setting>>

ObjectCommentAfterMember ==
  /\ pc \in {"comma", "commented"}
  /\ \E c \in Comments \cap Upcoming : readToken(c) /\ readComment(c)
  /\ pc' = "commented"
  /\ UNCHANGED <<call_vars, stackDepth_g, ok, errors_, tree, beyond, setting>>

(* Behind a comment anything but "}" is taken for the comma. *)
ObjectAnyComma ==
  /\ pc = "commented"
  /\ \E t \in Upcoming \ (Comments \cup {"}"}) : readToken(t)
  /\ pc' = "name"
  /\ UNCHANGED <<call_vars, stackDepth_g, ok, errors_, tree, comment_vars, beyond, setting>>

ObjectCommaMissing ==
  /\ pc = "comma"
  /\ \E t \in Upcoming \ (Comments \cup {"}", ","}) : readToken(t)
  /\ addErrorAndRecover
  /\ UNCHANGED <<call_vars, stackDepth_g, ok, tree, comment_vars, beyond, setting>>

-------------------------------------------------------------------------------
(* readArray() looks at the next byte without asking whether there is one. *)

ArrayEmpty ==
  /\ pc = "array"
  /\ \/ readToken("]") /\ UNCHANGED beyond
     \/ readToken("end") /\ beyond' = TRUE
  /\ LeaveContainer(TRUE)
  /\ UNCHANGED <<nodes_, errors_, tree, commentsBefore_, attached, setting>>

ArrayFirst ==
  /\ pc = "array"
  /\ \E t \in Upcoming \ {"]"} : unread' = t
  /\ Descend(Index(0))
  /\ UNCHANGED <<doc, calls, stackDepth_g, ok, errors_, comment_vars, beyond, setting>>

SkipCommentAfterElement == SkipComment("separator")

ArrayNext ==
  /\ pc = "separator"
  /\ readToken(",")
  /\ WithCall([call EXCEPT !.index = @ + 1])
  /\ Descend(Index(call.index + 1))
  /\ UNCHANGED <<stackDepth_g, ok, errors_, comment_vars, beyond, setting>>

ArrayEnds ==
  /\ pc = "separator"
  /\ readToken("]")
  /\ LeaveContainer(TRUE)
  /\ UNCHANGED <<nodes_, errors_, tree, commentsBefore_, attached, beyond, setting>>

ArraySeparatorMissing ==
  /\ pc = "separator"
  /\ \E t \in Upcoming \ (Comments \cup {",", "]"}) : readToken(t)
  /\ addErrorAndRecover
  /\ UNCHANGED <<call_vars, stackDepth_g, ok, tree, comment_vars, beyond, setting>>

-------------------------------------------------------------------------------
(* The end of parse(). *)

SkipCommentAfterDocument == features_["allowComments"] /\ SkipComment("finish")

Finish ==
  /\ pc = "finish"
  /\ \E t \in Upcoming \ (IF features_["allowComments"] THEN Comments ELSE {}) : readToken(t)
  /\ attached' = IF commentsBefore_ # << >>
                 THEN setComment(Root, "commentAfter", commentsBefore_) ELSE attached
  /\ IF features_["strictRoot"] /\ tree[Root] \notin {"object", "array"}
     THEN ok' = FALSE /\ errors_' = errors_ + 1
     ELSE UNCHANGED <<ok, errors_>>
  /\ pc' = "done"
  /\ UNCHANGED <<call_vars, stackDepth_g, tree, commentsBefore_, lastValue_, sameLine, beyond, setting>>

Next ==
  \/ EnterValue
  \/ Exceeded
  \/ SkipCommentBeforeValue
  \/ ReadScalar
  \/ ReadFlawed
  \/ ReadDropped
  \/ ReadNoValue
  \/ ReadContainer("{", "object", "name")
  \/ ReadContainer("[", "array", "array")
  \/ Return
  \/ Skip
  \/ SkipCommentBeforeName
  \/ ObjectNameEnds
  \/ ObjectName
  \/ ObjectNameMissing
  \/ ObjectColon
  \/ ObjectColonMissing
  \/ ObjectEnds
  \/ ObjectComma
  \/ ObjectCommentAfterMember
  \/ ObjectAnyComma
  \/ ObjectCommaMissing
  \/ ArrayEmpty
  \/ ArrayFirst
  \/ SkipCommentAfterElement
  \/ ArrayNext
  \/ ArrayEnds
  \/ ArraySeparatorMissing
  \/ SkipCommentAfterDocument
  \/ Finish

Spec == Init /\ [][Next]_vars

-------------------------------------------------------------------------------
(* nodes_ and lastValue_ hold pointers to values inside root: none of them *)
(* outlives its value, though a second member of the same name replaces    *)
(* the first and all below it.                                             *)
PointersAreAlive ==
  /\ \A i \in 1..Len(nodes_) : nodes_[i] \in DOMAIN tree
  /\ lastValue_ # NoValue => lastValue_ \in DOMAIN tree

(* The stacks agree with the calls under way: readValue() and its callers  *)
(* push and pop in pairs on every path, and stackDepth_g counts the nested *)
(* values, with one too many once a value was missing: then no other value *)
(* is begun.                                                               *)
StacksFollowCalls ==
  LET started == IF pc = "token" THEN 1 ELSE 0
      between == IF pc \in {"readValue", "token", "return", "finish", "done", "thrown"} THEN 1 ELSE 0
      extra == stackDepth_g - Len(calls) - started
  IN /\ Len(nodes_) = Len(calls) + between
     /\ pc # "thrown" => extra = 0 \/ (extra = 1 /\ errors_ > 0)
     /\ pc \in {"readValue", "token"} => errors_ = 0

(* Where a comment is kept. *)
Kept(c) ==
  \/ c \in Range(commentsBefore_)
  \/ \E k \in DOMAIN attached : c \in Range(attached[k])

(* No comment is lost but to a later one in the same place, or with a      *)
(* value that a second member of the same name replaces.                   *)
CommentsAreKept ==
  [][\A c \in 1..Len(doc) : Kept(c) /\ ~ Kept(c)' =>
       \E k \in DOMAIN attached :
         /\ c \in Range(attached[k])
         /\ \/ k[1] \notin DOMAIN tree'
            \/ k \in DOMAIN attached' /\ attached'[k] # attached[k]]_vars

===============================================================================
