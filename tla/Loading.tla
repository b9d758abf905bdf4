------------------------------ MODULE Loading ------------------------------
(***************************************************************************)
(* One call of IMG_Load, IMG_SavePNG and their relatives: a run of the     *)
(* blocks in Code, which are those of SDL_image's functions, over a source *)
(* that may end anywhere, or a destination that may take no more, and an   *)
(* allocator that may refuse.  The server's icon loader makes such a call  *)
(* for every icon, and goes on when it gets a surface.                     *)
(***************************************************************************)
EXTENDS Steps, FiniteSets

CONSTANTS
  Code,    \* the blocks: a function from labels to sequences of steps
  Roots    \* the labels of the functions that are called

Labels == DOMAIN Code

\* What the steps of module Steps are.
CodeStep == [do: STRING, what: STRING, into: STRING, to: SUBSET Labels]

\* Nothing runs off the end of a block, and every jump has somewhere to go.
Leaves == {"goto", "either", "return", "fail"}

ASSUME CodeAssumption ==
  /\ Roots \subseteq Labels
  /\ \A l \in Labels :
       LET block == Code[l] IN
       /\ block \in Seq(CodeStep) /\ block # <<>>
       /\ \A k \in DOMAIN block :
            /\ block[k].do = "call" => block[k].what \in Labels
            /\ (block[k].do \in Leaves) <=> (k = Len(block))

VARIABLES
  pc,         \* the stack: the block each function is in, and its step there
  traits,     \* what has been decided
  format,     \* whose loader or writer runs, or "none" while the format is looked for
  at,         \* where the source or the destination is: "start" or "moved"
  ended,      \* the source has come to its end, or the destination is full
  live,       \* the pointers to something owned
  freed,      \* the pointers to something that is not owned any more
  result,     \* "running", and then "picture", "null" or "fault"; "idle" when
              \* nobody has called
  \* History, for the properties only:
  missed,     \* bytes that were asked for were not there, or not all of those
              \* given were put
  leaked,     \* what was owned when its only pointer was overwritten
  refused,    \* an allocation was refused
  unsaid      \* the block of the last condition that was not met, when nothing
              \* has been said about it since

sourceVars == <<at, ended, missed>>
heapVars == <<live, freed, leaked, refused>>
wayVars == <<traits, format>>
loadingVars == <<pc, wayVars, sourceVars, heapVars, result, unsaid>>

\* No format; no condition that nothing was said about.
None == "none"

Frame(l) == [at |-> l, k |-> 1]

Fresh ==
  /\ traits = {} /\ format = None
  /\ at = "start" /\ ended = FALSE /\ missed = FALSE
  /\ live = {} /\ freed = {} /\ leaked = {} /\ refused = FALSE
  /\ unsaid = None

NotLoading == Fresh /\ pc = <<>> /\ result = "idle"

LoadingInit == Fresh /\ result = "running" /\ \E r \in Roots : pc = <<Frame(r)>>

\* The next call is made, by a caller to whom nothing of the last one matters any
\* more; or none is.
Afresh ==
  /\ traits' = {} /\ format' = None
  /\ at' = "start" /\ ended' = FALSE /\ missed' = FALSE
  /\ live' = {} /\ freed' = {} /\ leaked' = {} /\ refused' = FALSE
  /\ unsaid' = None

NextCall(r) == Afresh /\ pc' = <<Frame(r)>> /\ result' = "running"
NoCall == Afresh /\ pc' = <<>> /\ result' = "idle"
-----------------------------------------------------------------------------
(* Where control is, and where it goes *)

Top == pc[Len(pc)]
Here == Code[Top.at][Top.k]
Doing(kinds) == result = "running" /\ Here.do \in kinds

After(stack) == [stack EXCEPT ![Len(stack)].k = @ + 1]
Turned(stack, l) == [stack EXCEPT ![Len(stack)] = Frame(l)]

Onward == pc' = After(pc)
Jump == \E l \in Here.to : pc' = Turned(pc, l)

\* A condition is not met: the other way, and which condition it was; SDL's own
\* functions say themselves why they fail.
Miss == Jump /\ unsaid' = IF Here.do \in {"ask", "make"} THEN None ELSE Top.at
-----------------------------------------------------------------------------
(* The source *)

ReadWhole ==
  /\ Doing({"read", "take", "poll"}) /\ ~ended
  /\ at' = "moved"
  /\ Onward
  /\ UNCHANGED <<wayVars, ended, missed, heapVars, result, unsaid>>

\* A source that has ended stays at its end until it is repositioned.
ReadShort ==
  /\ Doing({"read", "poll"})
  /\ at' = "moved" /\ ended' = TRUE
  /\ missed' = (missed \/ Here.do = "read")
  /\ Miss
  /\ UNCHANGED <<wayVars, heapVars, result>>

TakeShort ==
  /\ Doing({"take"})
  /\ at' = "moved" /\ ended' = TRUE /\ missed' = TRUE
  /\ Onward
  /\ UNCHANGED <<wayVars, heapVars, result, unsaid>>

Reposition ==
  /\ Doing({"seek", "skip", "rewind"})
  /\ at' = IF Here.do = "rewind" THEN "start" ELSE "moved"
  /\ ended' = (Here.do = "skip" /\ ended)
  /\ Onward
  /\ UNCHANGED <<wayVars, missed, heapVars, result, unsaid>>
-----------------------------------------------------------------------------
(* Decisions *)

Met ==
  /\ Doing({"check", "ask"})
  /\ Onward
  /\ UNCHANGED <<wayVars, sourceVars, heapVars, result, unsaid>>

NotMet ==
  /\ Doing({"check", "ask"})
  /\ Miss
  /\ UNCHANGED <<wayVars, sourceVars, heapVars, result>>

Choose ==
  /\ Doing({"either", "goto"})
  /\ Jump
  /\ UNCHANGED <<wayVars, sourceVars, heapVars, result, unsaid>>

Settle ==
  /\ \/ Doing({"decide", "set"}) /\ traits' = traits \cup {Here.what}
     \/ Doing({"decide", "clear"}) /\ traits' = traits \ {Here.what}
  /\ Onward
  /\ UNCHANGED <<format, sourceVars, heapVars, result, unsaid>>

Recall ==
  /\ Doing({"unless"})
  /\ IF Here.what \in traits THEN Onward ELSE Jump
  /\ UNCHANGED <<wayVars, sourceVars, heapVars, result, unsaid>>

\* What was missing or wrong for other formats does not matter any more.
Begin ==
  /\ Doing({"as"})
  /\ format' = Here.what
  /\ missed' = FALSE /\ unsaid' = None
  /\ Onward
  /\ UNCHANGED <<traits, at, ended, heapVars, result>>
-----------------------------------------------------------------------------
(* What is owned *)

\* A pointer gets a new value: what it owned before is lost.
Overwritten(p) == leaked' = leaked \cup ({p} \cap live)

Granted ==
  /\ Doing({"own", "make", "trust"})
  /\ live' = live \cup {Here.what} /\ freed' = freed \ {Here.what}
  /\ Overwritten(Here.what)
  /\ Onward
  /\ UNCHANGED <<wayVars, sourceVars, refused, result, unsaid>>

Refused ==
  /\ Doing({"own", "make"})
  /\ live' = live \ {Here.what} /\ freed' = freed \ {Here.what}
  /\ Overwritten(Here.what)
  /\ refused' = TRUE
  /\ Miss
  /\ UNCHANGED <<wayVars, sourceVars, result>>

Grown ==
  /\ Doing({"grow", "resize", "stretch"})
  /\ live' = live \cup {Here.what} /\ freed' = freed \ {Here.what}
  /\ Onward
  /\ UNCHANGED <<wayVars, sourceVars, leaked, refused, result, unsaid>>

NotGrown ==
  /\ Doing({"grow"})
  /\ refused' = TRUE
  /\ Miss
  /\ UNCHANGED <<wayVars, sourceVars, live, freed, leaked, result>>

NotResized ==
  /\ Doing({"resize"})
  /\ live' = live \ {Here.what} /\ freed' = freed \ {Here.what}
  /\ Overwritten(Here.what)
  /\ refused' = TRUE
  /\ Miss
  /\ UNCHANGED <<wayVars, sourceVars, result>>

Moved ==
  /\ Doing({"move"})
  /\ live' = (live \ {Here.what, Here.into})
               \cup (IF Here.what \in live THEN {Here.into} ELSE {})
  /\ freed' = freed \ {Here.what, Here.into}
  /\ Overwritten(Here.into)
  /\ Onward
  /\ UNCHANGED <<wayVars, sourceVars, refused, result, unsaid>>

\* A part is owned by the whole it belongs to, if there is one.
Given ==
  /\ Doing({"give"})
  /\ live' = IF Here.into \in live THEN live \ {Here.what} ELSE live
  /\ Onward
  /\ UNCHANGED <<wayVars, sourceVars, freed, leaked, refused, result, unsaid>>

Forgotten ==
  /\ Doing({"forget"})
  /\ live' = live \ {Here.what} /\ freed' = freed \ {Here.what}
  /\ Overwritten(Here.what)
  /\ Onward
  /\ UNCHANGED <<wayVars, sourceVars, refused, result, unsaid>>

\* free(NULL) does nothing.
Freed ==
  /\ Doing({"free", "drop"}) /\ Here.what \notin freed
  /\ live' = live \ {Here.what}
  /\ freed' = IF Here.do = "free" THEN freed \cup ({Here.what} \cap live) ELSE freed
  /\ Onward
  /\ UNCHANGED <<wayVars, sourceVars, leaked, refused, result, unsaid>>

\* A null pointer is used, or something is freed twice: anything may happen.
Fault ==
  /\ \/ Doing({"trust", "stretch"})
     \/ Doing({"use"}) /\ Here.what \notin live
     \/ Doing({"free", "drop"}) /\ Here.what \in freed
  /\ result' = "fault" /\ pc' = <<>>
  /\ refused' = (refused \/ Here.do \in {"trust", "stretch"})
  /\ UNCHANGED <<wayVars, sourceVars, live, freed, leaked, unsaid>>

Owned ==
  /\ Doing({"ifnull", "expect", "use"})
  /\ Here.what \in live
  /\ Onward
  /\ UNCHANGED <<wayVars, sourceVars, heapVars, result, unsaid>>

Null ==
  /\ Doing({"ifnull", "expect"})
  /\ Here.what \notin live
  /\ Jump
  /\ unsaid' = IF Here.do = "expect" THEN Top.at ELSE unsaid
  /\ UNCHANGED <<wayVars, sourceVars, heapVars, result>>
-----------------------------------------------------------------------------
(* Control *)

\* What is said is said of the condition that failed last.
Explain ==
  /\ Doing({"say"})
  /\ unsaid' = None
  /\ Onward
  /\ UNCHANGED <<wayVars, sourceVars, heapVars, result>>

Enter ==
  /\ Doing({"call"})
  /\ pc' = Append(pc, Frame(Here.what))
  /\ UNCHANGED <<wayVars, sourceVars, heapVars, result, unsaid>>

Callers == SubSeq(pc, 1, Len(pc) - 1)
Caller == Code[Callers[Len(Callers)].at][Callers[Len(Callers)].k]

\* A function that was called returns: on after the call, or where its caller
\* goes when it fails.  Of a failure its caller ignores nothing has to be said.
Succeed ==
  /\ Doing({"return"}) /\ Callers # <<>>
  /\ pc' = After(Callers)
  /\ UNCHANGED <<wayVars, sourceVars, heapVars, result, unsaid>>

GiveUp ==
  /\ Doing({"fail"}) /\ Callers # <<>>
  /\ IF Caller.to = {}
     THEN pc' = After(Callers) /\ unsaid' = None
     ELSE /\ \E l \in Caller.to : pc' = Turned(Callers, l)
          /\ UNCHANGED unsaid
  /\ UNCHANGED <<wayVars, sourceVars, heapVars, result>>

Finish ==
  /\ Doing({"return", "fail"}) /\ Callers = <<>>
  /\ result' = IF Here.do = "return" THEN "picture" ELSE "null"
  /\ pc' = <<>>
  /\ UNCHANGED <<wayVars, sourceVars, heapVars, unsaid>>

\* The steps by what they are about: every action asks for its own step, and this
\* only saves TLC from trying them all.
OfSource == {"read", "take", "poll", "seek", "skip", "rewind"}
OfWay == {"check", "ask", "either", "goto", "decide", "set", "clear", "unless", "as"}
OfRoom == {"own", "make", "trust", "grow", "resize", "stretch"}
OfUse == {"free", "drop", "trust", "stretch", "use", "ifnull", "expect"}
OfRest == {"move", "give", "forget", "say", "call", "return", "fail"}

LoadingNext ==
  \/ Doing(OfSource) /\ (ReadWhole \/ ReadShort \/ TakeShort \/ Reposition)
  \/ Doing(OfWay) /\ (Met \/ NotMet \/ Choose \/ Settle \/ Recall \/ Begin)
  \/ Doing(OfRoom) /\ (Granted \/ Refused \/ Grown \/ NotGrown \/ NotResized)
  \/ Doing(OfUse) /\ (Freed \/ Fault \/ Owned \/ Null)
  \/ Doing(OfRest) /\ (\/ Moved \/ Given \/ Forgotten
                       \/ Explain \/ Enter \/ Succeed \/ GiveUp \/ Finish)

LoadingSpec == LoadingInit /\ [][LoadingNext]_loadingVars
=============================================================================
