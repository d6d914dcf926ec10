--------------------------- MODULE AgentToolsProofs ---------------------------
(***************************************************************************)
(* Theorems about AgentTools, for any number of calls, any children and     *)
(* processes and any capacities.  The argument has three parts.  What a     *)
(* child has sent is what the tool has heard and what is still in the       *)
(* channel, and "done" comes last.  What a process has written is what was  *)
(* read and what is still in the pipe, and nothing is written once reading  *)
(* begins.  What was shown and what is still to be forwarded make one log,  *)
(* to which only the call that is going on adds.                            *)
(***************************************************************************)
EXTENDS AgentTools, FiniteSetTheorems, SequenceTheorems, TLAPS

At(s, e) == {i \in 1..Len(s) : s[i] = e}

Pending(e) == Cardinality(At(inbox, e))

Receiving == tool \in {"receiving", "sending"}

\* Nothing that the child says or begins is lost on its way.
InboxCounts ==
    Receiving =>
        /\ heard + Pending("text") = said
        /\ count + Pending("use") = used

\* The child's last word is its last event.
LastIsLast ==
    \A i \in DOMAIN inbox :
        inbox[i] \in {"done", "error"} => i = Len(inbox) /\ child = "over"

\* A result follows the use of its tool.
UseIsFirst ==
    Receiving =>
        /\ \A i \in DOMAIN inbox :
              inbox[i] = "result" => count > 0 \/ \E j \in 1..(i - 1) : inbox[j] = "use"
        /\ child = "using" => count > 0 \/ \E j \in DOMAIN inbox : inbox[j] = "use"

ProgressIsLatest ==
    progress # Sub!NoProgress => tool = "sending" /\ count > 0 /\ progress.id = count

SuccessIsWhole == tool = "returned" /\ outcome = "success" => heard = said

SubInv ==
    Sub!SubagentTypeOK /\ InboxCounts /\ LastIsLast /\ UseIsFirst /\ ProgressIsLatest /\ SuccessIsWhole

\* Outputs are read after the process has exited, one after the other to its end.
CodeInv ==
    /\ Code!CodeTypeOK
    /\ \A o \in Code!Outputs : got[o] + pipe[o] = written[o]
    /\ step \in {"stdout", "stderr"} => process = "exited"
    /\ step = "stderr" => pipe["stdout"] = 0
    /\ step = "returned" /\ result = "exited" =>
          process = "exited" /\ \A o \in Code!Outputs : pipe[o] = 0

Log == shown \o outbox

Event(n, what, id) == [call |-> n, what |-> what, id |-> id]

InLog(e) == \E i \in DOMAIN Log : Log[i] = e

\* While a call goes on and its events are forwarded, the log holds its beginning, not its
\* end, and the use of every tool of the child but the one to be sent.
CallIsOpen ==
    run = "forwarding" /\ loop \in {"subagent", "code"} =>
        /\ InLog(Event(call, "begin", 0))
        /\ ~InLog(Event(call, "end", 0))

UsesAreSent ==
    run = "forwarding" /\ loop = "subagent" /\ Receiving =>
        \A k \in 1..count : InLog(Event(call, "use", k)) \/ (progress.what = "use" /\ k = count)

LogInv ==
    /\ loop \in {"thinking", "subagent", "code", "dead"}
    /\ call \in 0..MaxCalls
    /\ outbox \in Seq(Events) /\ Len(outbox) <= OutCap
    /\ shown \in Seq(Events)
    /\ run \in {"forwarding", "gone"}
    /\ run = "gone" => outbox = <<>>
    /\ loop \in {"subagent", "code"} => call > 0
    /\ \A i \in DOMAIN Log : Log[i].call <= call
    /\ Bracketed(Log)
    /\ CallIsOpen
    /\ UsesAreSent

IInv == SubInv /\ CodeInv /\ LogInv
-----------------------------------------------------------------------------
(* How often an event is in a channel *)

\* The places of an event are finitely many.
LEMMA PlacesAreFinite ==
  ASSUME NEW S, NEW s \in Seq(S), NEW e
  PROVE  IsFiniteSet(At(s, e)) /\ Cardinality(At(s, e)) \in Nat
<1>1. IsFiniteSet(1..Len(s))
  BY FS_Interval
<1>. QED
  BY <1>1, FS_Subset, FS_CardinalityType DEF At

\* Appending an event adds one to its count, and to no other.
LEMMA AppendCounts ==
  ASSUME NEW S, NEW s \in Seq(S), NEW x \in S, NEW e
  PROVE  Cardinality(At(Append(s, x), e)) = Cardinality(At(s, e)) + (IF x = e THEN 1 ELSE 0)
<1>1. IsFiniteSet(At(s, e)) /\ Cardinality(At(s, e)) \in Nat
  BY PlacesAreFinite
<1>2. CASE x = e
  <2>1. At(Append(s, x), e) = At(s, e) \cup {Len(s) + 1} /\ Len(s) + 1 \notin At(s, e)
    BY <1>2 DEF At
  <2>. QED
    BY <1>1, <1>2, <2>1, FS_AddElement
<1>3. CASE x # e
  <2>1. At(Append(s, x), e) = At(s, e)
    BY <1>3 DEF At
  <2>. QED
    BY <1>1, <1>3, <2>1
<1>. QED
  BY <1>2, <1>3

\* Taking the first event away subtracts one from its count, and from no other.
LEMMA TailCounts ==
  ASSUME NEW S, NEW s \in Seq(S), s # <<>>, NEW e
  PROVE  Cardinality(At(s, e)) = Cardinality(At(Tail(s), e)) + (IF Head(s) = e THEN 1 ELSE 0)
<1>. DEFINE rest == At(s, e) \ {1}
            shift == [i \in rest |-> i - 1]
<1>1. IsFiniteSet(At(s, e)) /\ Cardinality(At(s, e)) \in Nat
  BY PlacesAreFinite
<1>2. IsFiniteSet(rest) /\ Cardinality(At(s, e)) = Cardinality(rest) + (IF Head(s) = e THEN 1 ELSE 0)
  <2>1. 1 \in At(s, e) <=> Head(s) = e
    BY DEF At
  <2>2. /\ IsFiniteSet(rest)
        /\ Cardinality(rest) = IF 1 \in At(s, e) THEN Cardinality(At(s, e)) - 1 ELSE Cardinality(At(s, e))
    BY <1>1, FS_RemoveElement, Zenon
  <2>. QED
    BY <1>1, <2>1, <2>2
<1>3. shift \in Injection(rest, At(Tail(s), e)) /\ shift \in Surjection(rest, At(Tail(s), e))
  <2>1. shift \in [rest -> At(Tail(s), e)]
    BY DEF At
  <2>2. \A a, b \in rest : shift[a] = shift[b] => a = b
    BY DEF At
  <2>3. ASSUME NEW j \in At(Tail(s), e) PROVE \E i \in rest : shift[i] = j
    <3>1. j + 1 \in rest /\ shift[j + 1] = j
      BY DEF At
    <3>. QED
      BY <3>1
  <2>. QED
    BY <2>1, <2>2, <2>3 DEF Injection, IsInjective, Surjection
<1>4. Cardinality(At(Tail(s), e)) = Cardinality(rest)
  BY <1>2, <1>3, FS_Surjection
<1>. QED
  BY <1>2, <1>4

\* An empty channel holds no event.
LEMMA EmptyCounts == \A e : Cardinality(At(<<>>, e)) = 0
  BY FS_EmptySet DEF At

-----------------------------------------------------------------------------
(* code_execute *)

LEMMA ExecutePreserves == ASSUME Code!Execute PROVE CodeInv'
<1>. USE DEF Code!Execute, Code!Zero, Code!Outputs
<1>1. Code!Zero \in [Code!Outputs -> 0..MaxOutput] /\ Code!Zero \in [Code!Outputs -> 0..PipeCap]
  BY AgentToolsAssumption
<1>2. Code!CodeTypeOK'
  <2>1. written' = Code!Zero /\ pipe' = Code!Zero /\ got' = Code!Zero
    OBVIOUS
  <2>2. /\ written' \in [Code!Outputs -> 0..MaxOutput]
        /\ pipe' \in [Code!Outputs -> 0..PipeCap]
        /\ got' \in [Code!Outputs -> 0..MaxOutput]
    BY ONLY <1>1, <2>1
  <2>. QED
    BY <2>2 DEF Code!CodeTypeOK
<1>. QED
  BY <1>2 DEF CodeInv

\* The process writes, forks or exits; reading has not begun when it writes.
LEMMA ProcessPreserves == ASSUME CodeInv, Code!ProcessStep PROVE CodeInv'
<1>. USE DEF CodeInv, Code!CodeTypeOK
<1>1. ASSUME NEW o \in Code!Outputs, Code!ProcessWrites(o) PROVE CodeInv'
  <2>1. /\ written'[o] = written[o] + 1 /\ pipe'[o] = pipe[o] + 1
        /\ \A p \in Code!Outputs \ {o} : written'[p] = written[p] /\ pipe'[p] = pipe[p]
        /\ UNCHANGED <<step, result, process, descendant, got>>
    BY <1>1 DEF Code!ProcessWrites
  <2>2. written' \in [Code!Outputs -> 0..MaxOutput] /\ pipe' \in [Code!Outputs -> 0..PipeCap]
    BY <1>1, AgentToolsAssumption DEF Code!ProcessWrites
  <2>3. \A p \in Code!Outputs : got'[p] + pipe'[p] = written'[p]
    BY <2>1, AgentToolsAssumption
  <2>4. process = "running"
    BY <1>1 DEF Code!ProcessWrites
  <2>. QED
    BY <2>1, <2>2, <2>3, <2>4
<1>2. CASE Code!ProcessForks \/ Code!DescendantExits \/ Code!ProcessExits
  BY <1>2 DEF Code!ProcessForks, Code!DescendantExits, Code!ProcessExits
<1>. QED
  BY <1>1, <1>2 DEF Code!ProcessStep

\* The tool waits for the end of the process, then reads stdout and stderr to their ends.
LEMMA ReaderPreserves == ASSUME CodeInv, Code!ReadStep \/ Code!Kill \/ Code!WaitFails PROVE CodeInv'
<1>. USE DEF CodeInv, Code!CodeTypeOK, Code!Outputs
<1>1. CASE Code!ChildExited \/ Code!Kill \/ Code!WaitFails
  BY <1>1 DEF Code!ChildExited, Code!Kill, Code!WaitFails
<1>2. ASSUME NEW o \in Code!Outputs, Code!Read(o) PROVE CodeInv'
  <2>1. PICK n \in 1..pipe[o] : /\ got' = [got EXCEPT ![o] = @ + n]
                                /\ pipe' = [pipe EXCEPT ![o] = @ - n]
    BY <1>2 DEF Code!Read
  <2>2. /\ got'[o] = got[o] + n /\ pipe'[o] = pipe[o] - n
        /\ \A p \in Code!Outputs \ {o} : got'[p] = got[p] /\ pipe'[p] = pipe[p]
        /\ UNCHANGED <<step, result, process, descendant, written>>
        /\ step = o
    BY <1>2, <2>1 DEF Code!Read
  <2>3. got'[o] \in 0..MaxOutput /\ pipe'[o] \in 0..PipeCap /\ got'[o] + pipe'[o] = written[o]
    BY <2>2, AgentToolsAssumption
  <2>4. got' \in [Code!Outputs -> 0..MaxOutput] /\ pipe' \in [Code!Outputs -> 0..PipeCap]
    BY <2>1, <2>2, <2>3
  <2>5. step = "stderr" => pipe'["stdout"] = 0
    BY <2>2
  <2>. QED
    BY <2>2, <2>3, <2>4, <2>5
<1>3. ASSUME NEW o \in Code!Outputs, Code!EndOfFile(o) PROVE CodeInv'
  BY <1>3 DEF Code!EndOfFile
<1>. QED
  BY <1>1, <1>2, <1>3 DEF Code!ReadStep
-----------------------------------------------------------------------------
(* run_subagent *)

Kinds == {"text", "use", "result", "done", "error"}

\* A call begins with nothing heard, nothing counted and an empty channel.
LEMMA SpawnPreserves == ASSUME Sub!Spawn PROVE SubInv'
<1>. USE DEF Sub!Spawn
<1>1. Sub!SubagentTypeOK'
  BY AgentToolsAssumption DEF Sub!SubagentTypeOK, Sub!NoProgress
<1>2. InboxCounts'
  BY EmptyCounts DEF InboxCounts, Pending
<1>3. LastIsLast' /\ UseIsFirst' /\ ProgressIsLatest' /\ SuccessIsWhole'
  BY DEF LastIsLast, UseIsFirst, ProgressIsLatest, SuccessIsWhole
<1>. QED
  BY <1>1, <1>2, <1>3 DEF SubInv

\* What the child sends goes to the end of the channel, and its counts follow.
LEMMA EmitsPreserves ==
  ASSUME SubInv, NEW e \in Kinds, Sub!Emits(e),
         child \in {"thinking", "using"}, child' \in {"thinking", "using", "over"},
         said' = said + (IF e = "text" THEN 1 ELSE 0), said' \leq MaxTexts,
         used' = used + (IF e = "use" THEN 1 ELSE 0), used' \leq MaxUses,
         e \in {"done", "error"} => child' = "over",
         e = "result" => child = "using",
         child' = "using" => e = "use"
  PROVE  SubInv'
<1>. USE DEF SubInv, Sub!SubagentTypeOK, Kinds
<1>1. /\ tool \in {"receiving", "sending"} /\ Len(inbox) < InCap
      /\ inbox' = Append(inbox, e)
      /\ UNCHANGED <<tool, outcome, heard, count, progress>>
  BY DEF Sub!Emits, Sub!mine
<1>2. /\ inbox' \in Seq(Kinds) /\ Len(inbox') = Len(inbox) + 1 /\ Len(inbox') \leq InCap
      /\ inbox'[Len(inbox) + 1] = e
      /\ \A i \in 1..Len(inbox) : inbox'[i] = inbox[i]
  BY <1>1, AgentToolsAssumption
<1>3. Sub!SubagentTypeOK'
  BY <1>1, <1>2, AgentToolsAssumption
<1>4. InboxCounts'
  <2>1. /\ Cardinality(At(inbox', "text")) = Pending("text") + (IF e = "text" THEN 1 ELSE 0)
        /\ Cardinality(At(inbox', "use")) = Pending("use") + (IF e = "use" THEN 1 ELSE 0)
        /\ Pending("text") \in Nat /\ Pending("use") \in Nat
    BY <1>1, AppendCounts, PlacesAreFinite DEF Pending
  <2>. QED
    BY <1>1, <2>1 DEF InboxCounts, Receiving, Pending
<1>5. LastIsLast'
  BY <1>1, <1>2 DEF LastIsLast
<1>6. UseIsFirst'
  <2>1. ASSUME NEW i \in DOMAIN inbox', inbox'[i] = "result"
        PROVE  count > 0 \/ \E j \in 1..(i - 1) : inbox'[j] = "use"
    <3>1. CASE i = Len(inbox) + 1
      BY <1>1, <1>2, <2>1, <3>1 DEF UseIsFirst, Receiving
    <3>2. CASE i \in 1..Len(inbox)
      BY <1>1, <1>2, <2>1, <3>2 DEF UseIsFirst, Receiving
    <3>. QED
      BY <1>2, <3>1, <3>2
  <2>2. child' = "using" => \E j \in DOMAIN inbox' : inbox'[j] = "use"
    BY <1>2
  <2>. QED
    BY <1>1, <2>1, <2>2 DEF UseIsFirst
<1>7. ProgressIsLatest' /\ SuccessIsWhole'
  BY <1>1 DEF ProgressIsLatest, SuccessIsWhole, Sub!NoProgress
<1>. QED
  BY <1>3, <1>4, <1>5, <1>6, <1>7

\* The child speaks, uses a tool, has its result, ends, or dies without a word.
LEMMA ChildPreserves == ASSUME SubInv, Sub!ChildStep PROVE SubInv'
<1>. USE DEF SubInv, Sub!SubagentTypeOK
<1>1. CASE Sub!ChildSpeaks
  <2>. "text" \in Kinds BY DEF Kinds
  <2>. QED
    BY <1>1, EmitsPreserves, AgentToolsAssumption DEF Sub!ChildSpeaks
<1>2. CASE Sub!ChildUsesTool
  <2>. "use" \in Kinds BY DEF Kinds
  <2>. QED
    BY <1>2, EmitsPreserves, AgentToolsAssumption DEF Sub!ChildUsesTool
<1>3. CASE Sub!ChildHasResult
  <2>. "result" \in Kinds BY DEF Kinds
  <2>. QED
    BY <1>3, EmitsPreserves, AgentToolsAssumption DEF Sub!ChildHasResult
<1>4. ASSUME NEW e \in {"done", "error"}, Sub!ChildEnds(e) PROVE SubInv'
  <2>. e \in Kinds BY DEF Kinds
  <2>. QED
    BY <1>4, EmitsPreserves, AgentToolsAssumption DEF Sub!ChildEnds
<1>5. CASE Sub!ChildDies
  <2>1. child' = "over" /\ UNCHANGED <<tool, outcome, heard, count, progress, said, used, inbox>>
    BY <1>5 DEF Sub!ChildDies, Sub!mine
  <2>. QED
    BY <2>1 DEF InboxCounts, Pending, Receiving, LastIsLast, UseIsFirst, ProgressIsLatest, SuccessIsWhole
<1>. QED
  BY <1>1, <1>2, <1>3, <1>4, <1>5 DEF Sub!ChildStep

\* What the tool takes from the channel is one less to come; the rest moves up.
LEMMA TakeLeavesTheRest ==
  ASSUME SubInv, NEW e \in Kinds, Sub!Take(e)
  PROVE  /\ tool = "receiving" /\ progress = Sub!NoProgress
         /\ inbox # <<>> /\ inbox[1] = e
         /\ UNCHANGED <<child, said, used>>
         /\ inbox' \in Seq(Kinds) /\ Len(inbox') = Len(inbox) - 1 /\ Len(inbox') \leq InCap
         /\ \A i \in DOMAIN inbox' : inbox'[i] = inbox[i + 1]
         /\ Pending("text")' \in Nat /\ Pending("use")' \in Nat
         /\ Pending("text") = Pending("text")' + (IF e = "text" THEN 1 ELSE 0)
         /\ Pending("use") = Pending("use")' + (IF e = "use" THEN 1 ELSE 0)
         /\ LastIsLast'
<1>. USE DEF SubInv, Sub!SubagentTypeOK, Kinds
<1>1. /\ tool = "receiving" /\ inbox # <<>>
      /\ Head(inbox) = e /\ inbox' = Tail(inbox)
      /\ UNCHANGED <<child, said, used>>
  BY DEF Sub!Take, Sub!childs
<1>2. progress = Sub!NoProgress
  BY <1>1 DEF ProgressIsLatest
<1>3. /\ inbox' \in Seq(Kinds) /\ Len(inbox') = Len(inbox) - 1
      /\ \A i \in DOMAIN inbox' : inbox'[i] = inbox[i + 1]
      /\ inbox[1] = e
  BY <1>1
<1>4. /\ Cardinality(At(inbox, "text")) = Cardinality(At(inbox', "text")) + (IF e = "text" THEN 1 ELSE 0)
      /\ Cardinality(At(inbox, "use")) = Cardinality(At(inbox', "use")) + (IF e = "use" THEN 1 ELSE 0)
  BY <1>1, TailCounts
<1>5. Cardinality(At(inbox', "text")) \in Nat /\ Cardinality(At(inbox', "use")) \in Nat
  BY <1>3, PlacesAreFinite
<1>6. LastIsLast'
  BY <1>1, <1>3 DEF LastIsLast
<1>. QED
  BY <1>1, <1>2, <1>3, <1>4, <1>5, <1>6, AgentToolsAssumption DEF Pending
\* The same for a text, and for the use of a tool.
LEMMA TextTaken ==
  ASSUME SubInv, Sub!Take("text")
  PROVE  /\ tool = "receiving"
         /\ Pending("text")' \in Nat /\ Pending("use")' \in Nat
         /\ Pending("text") = Pending("text")' + 1 /\ Pending("use") = Pending("use")'
<1>1. "text" \in Kinds
  BY DEF Kinds
<1>2. /\ tool = "receiving"
      /\ Pending("text")' \in Nat /\ Pending("use")' \in Nat
      /\ Pending("text") = Pending("text")' + (IF "text" = "text" THEN 1 ELSE 0)
      /\ Pending("use") = Pending("use")' + (IF "text" = "use" THEN 1 ELSE 0)
  BY <1>1, TakeLeavesTheRest
<1>. QED
  BY <1>2

LEMMA UseTaken ==
  ASSUME SubInv, Sub!Take("use")
  PROVE  /\ tool = "receiving"
         /\ Pending("text")' \in Nat /\ Pending("use")' \in Nat
         /\ Pending("text") = Pending("text")' /\ Pending("use") = Pending("use")' + 1
<1>1. "use" \in Kinds
  BY DEF Kinds
<1>2. /\ tool = "receiving"
      /\ Pending("text")' \in Nat /\ Pending("use")' \in Nat
      /\ Pending("text") = Pending("text")' + (IF "use" = "text" THEN 1 ELSE 0)
      /\ Pending("use") = Pending("use")' + (IF "use" = "use" THEN 1 ELSE 0)
  BY <1>1, TakeLeavesTheRest
<1>. QED
  BY <1>2

\* The receive loop: it hears, counts, sends its progress, and returns.
LEMMA ToolPreserves == ASSUME SubInv, Sub!ToolStep PROVE SubInv'
<1>. USE DEF SubInv, Sub!SubagentTypeOK
<1>1. {"text", "use", "result", "done", "error"} \subseteq Kinds
  BY DEF Kinds
<1>2. CASE Sub!ReceiveText
  <2>1. Sub!Take("text") /\ heard' = heard + 1 /\ UNCHANGED <<tool, outcome, count, progress>>
    BY <1>2 DEF Sub!ReceiveText
  <2>2. /\ heard + Pending("text")' + 1 = said /\ count + Pending("use")' = used
        /\ Pending("text")' \in Nat
    <3>1. /\ tool = "receiving"
          /\ Pending("text")' \in Nat /\ Pending("use")' \in Nat
          /\ Pending("text") = Pending("text")' + 1 /\ Pending("use") = Pending("use")'
      BY <2>1, TextTaken
    <3>2. heard + Pending("text") = said /\ count + Pending("use") = used /\ heard \in Nat
      BY <3>1 DEF InboxCounts, Receiving
    <3>. QED
      BY <3>1, <3>2
  <2>3. heard' \in 0..MaxTexts /\ InboxCounts'
    BY <1>1, <2>1, <2>2, TakeLeavesTheRest, AgentToolsAssumption DEF InboxCounts, Receiving
  <2>4. UseIsFirst'
    <3>1. inbox[1] = "text" /\ child' = child /\ tool = "receiving"
          /\ Len(inbox') = Len(inbox) - 1 /\ inbox' \in Seq(Kinds)
          /\ \A i \in DOMAIN inbox' : inbox'[i] = inbox[i + 1]
      BY <1>1, <2>1, TakeLeavesTheRest
    <3>2. ASSUME NEW j \in DOMAIN inbox, inbox[j] = "use"
          PROVE  j - 1 \in DOMAIN inbox' /\ inbox'[j - 1] = "use"
      BY <3>1, <3>2
    <3>3. ASSUME NEW i \in DOMAIN inbox', inbox'[i] = "result"
          PROVE  count > 0 \/ \E j \in 1..(i - 1) : inbox'[j] = "use"
      <4>1. i + 1 \in DOMAIN inbox /\ inbox[i + 1] = "result"
        BY <3>1, <3>3
      <4>2. count > 0 \/ \E j \in 1..i : inbox[j] = "use"
        BY <3>1, <4>1 DEF UseIsFirst, Receiving
      <4>. QED
        BY <3>1, <3>2, <4>1, <4>2
    <3>. QED
      BY <2>1, <3>1, <3>2, <3>3 DEF UseIsFirst, Receiving
  <2>. QED
    BY <1>1, <2>1, <2>3, <2>4, TakeLeavesTheRest DEF ProgressIsLatest, SuccessIsWhole, Kinds
<1>3. CASE Sub!ReceiveUse
  <2>1. /\ Sub!Take("use") /\ count' = count + 1 /\ tool' = "sending"
        /\ progress' = [what |-> "use", id |-> count + 1]
        /\ UNCHANGED <<outcome, heard>>
    BY <1>3 DEF Sub!ReceiveUse
  <2>2. /\ heard + Pending("text")' = said /\ count + Pending("use")' + 1 = used
        /\ Pending("use")' \in Nat
    <3>1. /\ tool = "receiving"
          /\ Pending("text")' \in Nat /\ Pending("use")' \in Nat
          /\ Pending("text") = Pending("text")' /\ Pending("use") = Pending("use")' + 1
      BY <2>1, UseTaken
    <3>2. heard + Pending("text") = said /\ count + Pending("use") = used
      BY <3>1 DEF InboxCounts, Receiving
    <3>. QED
      BY <3>1, <3>2
  <2>3. count' \in 1..MaxUses /\ InboxCounts'
    <3>1. UNCHANGED <<said, used>>
      <4>1. "use" \in Kinds
        BY DEF Kinds
      <4>. QED
        BY <2>1, <4>1, TakeLeavesTheRest
    <3>2. count' \in 1..MaxUses
      BY <2>1, <2>2, AgentToolsAssumption
    <3>3. InboxCounts'
      BY <2>1, <2>2, <3>1 DEF InboxCounts
    <3>. QED
      BY <3>2, <3>3
  <2>4. progress' \in Sub!Progress
    BY <2>1, <2>3 DEF Sub!Progress
  <2>5. UseIsFirst'
    BY <2>3 DEF UseIsFirst
  <2>6. /\ UNCHANGED <<child, said, used>> /\ LastIsLast'
        /\ inbox' \in Seq(Kinds) /\ Len(inbox') \leq InCap
    <3>1. "use" \in Kinds
      BY DEF Kinds
    <3>. QED
      BY <2>1, <3>1, TakeLeavesTheRest
  <2>7. ProgressIsLatest' /\ SuccessIsWhole'
    BY <2>1, <2>3 DEF ProgressIsLatest, SuccessIsWhole
  <2>. QED
    BY <2>1, <2>3, <2>4, <2>5, <2>6, <2>7 DEF Kinds
<1>4. CASE Sub!ReceiveResult
  <2>1. /\ Sub!Take("result") /\ tool' = "sending"
        /\ progress' = [what |-> "result", id |-> count]
        /\ UNCHANGED <<outcome, heard, count>>
    BY <1>4 DEF Sub!ReceiveResult
  <2>2. heard + Pending("text")' = said /\ count + Pending("use")' = used
    BY <1>1, <2>1, TakeLeavesTheRest DEF InboxCounts, Receiving
  <2>3. InboxCounts'
    BY <1>1, <2>1, <2>2, TakeLeavesTheRest DEF InboxCounts
  <2>4. count > 0
    <3>1. tool = "receiving" /\ 1 \in DOMAIN inbox /\ inbox[1] = "result"
      BY <1>1, <2>1, TakeLeavesTheRest
    <3>. QED
      BY <3>1 DEF UseIsFirst, Receiving
  <2>5. progress' \in Sub!Progress
    BY <2>1, <2>4 DEF Sub!Progress
  <2>6. UseIsFirst'
    BY <2>1, <2>4 DEF UseIsFirst
  <2>. QED
    BY <1>1, <2>1, <2>3, <2>4, <2>5, <2>6, TakeLeavesTheRest DEF ProgressIsLatest, SuccessIsWhole, Kinds
<1>5. CASE Sub!ReceiveDone
  <2>1. /\ Sub!Take("done") /\ tool' = "returned" /\ outcome' = "success"
        /\ UNCHANGED <<heard, count, progress>>
    BY <1>5 DEF Sub!ReceiveDone, Sub!Returns
  <2>2. inbox' = <<>>
    <3>1. /\ inbox # <<>> /\ inbox[1] = "done" /\ inbox' \in Seq(Kinds)
          /\ Len(inbox') = Len(inbox) - 1
      BY <1>1, <2>1, TakeLeavesTheRest
    <3>2. Len(inbox) = 1
      BY <3>1 DEF LastIsLast
    <3>. QED
      BY <3>1, <3>2
  <2>3. Pending("text")' = 0
    BY <2>2, EmptyCounts DEF Pending
  <2>4. heard = said
    BY <1>1, <2>1, <2>3, TakeLeavesTheRest DEF InboxCounts, Receiving
  <2>. QED
    BY <1>1, <2>1, <2>4, TakeLeavesTheRest
    DEF InboxCounts, Receiving, UseIsFirst, ProgressIsLatest, SuccessIsWhole, Kinds
<1>6. CASE Sub!ReceiveError \/ Sub!CutPanics
  <2>1. PICK e \in Kinds : Sub!Take(e)
    BY <1>1, <1>6 DEF Sub!ReceiveError, Sub!CutPanics
  <2>2. /\ \/ tool' = "returned" /\ outcome' = "error"
           \/ tool' = "panicked" /\ outcome' = outcome
        /\ UNCHANGED <<heard, count, progress>>
    BY <1>6 DEF Sub!ReceiveError, Sub!CutPanics, Sub!Returns
  <2>. QED
    BY <2>1, <2>2, TakeLeavesTheRest
    DEF InboxCounts, Receiving, UseIsFirst, ProgressIsLatest, SuccessIsWhole, Kinds
<1>7. CASE Sub!ReceiveNone
  <2>1. /\ tool = "receiving" /\ inbox = <<>> /\ tool' = "returned" /\ outcome' = "success"
        /\ UNCHANGED <<heard, count, progress, child, said, used, inbox>>
    BY <1>7 DEF Sub!ReceiveNone, Sub!Returns, Sub!childs
  <2>2. heard = said
    BY <2>1, EmptyCounts DEF InboxCounts, Receiving, Pending
  <2>. QED
    BY <2>1, <2>2 DEF InboxCounts, Receiving, LastIsLast, UseIsFirst, ProgressIsLatest, SuccessIsWhole
<1>8. CASE Sub!SendProgress
  <2>1. /\ progress' = Sub!NoProgress /\ tool = "sending" /\ tool' = "receiving"
        /\ UNCHANGED <<outcome, heard, count, child, said, used, inbox>>
    BY <1>8 DEF Sub!SendProgress, Sub!childs, ProgressIsLatest
  <2>. QED
    BY <2>1 DEF InboxCounts, Pending, Receiving, LastIsLast, UseIsFirst, ProgressIsLatest, SuccessIsWhole
<1>. QED
  BY <1>2, <1>3, <1>4, <1>5, <1>6, <1>7, <1>8 DEF Sub!ToolStep

\* The time limit runs out.
LEMMA TimeOutPreserves == ASSUME SubInv, Sub!TimeOut PROVE SubInv'
<1>. USE DEF SubInv, Sub!SubagentTypeOK
<1>1. /\ tool = "receiving" /\ tool' = "returned" /\ outcome' = "timedOut"
      /\ UNCHANGED <<heard, count, progress, child, said, used, inbox>>
  BY DEF Sub!TimeOut, Sub!Returns, Sub!childs
<1>. QED
  BY <1>1 DEF InboxCounts, Receiving, LastIsLast, UseIsFirst, ProgressIsLatest, SuccessIsWhole
-----------------------------------------------------------------------------
(* The log of what was shown and is still to be forwarded *)

\* What the log consists of.
LEMMA LogIsBoth ==
  ASSUME LogInv
  PROVE  /\ Log \in Seq(Events) /\ Len(Log) = Len(shown) + Len(outbox)
         /\ \A i \in DOMAIN shown : Log[i] = shown[i]
  BY ConcatProperties DEF LogInv, Log

\* What is shown is a beginning of the log, and a beginning of a bracketed log is bracketed.
LEMMA ShownIsBracketed == ASSUME LogInv PROVE Bracketed(shown)
<1>1. /\ Len(shown) \in Nat /\ Len(shown) \leq Len(Log) /\ DOMAIN shown = 1..Len(shown)
      /\ DOMAIN Log = 1..Len(Log) /\ Len(Log) \in Nat
      /\ \A i \in DOMAIN shown : Log[i] = shown[i]
  BY LogIsBoth DEF LogInv
<1>2. ASSUME NEW i \in DOMAIN shown PROVE {shown[k] : k \in 1..(i - 1)} = {Log[k] : k \in 1..(i - 1)}
  BY <1>1
<1>3. ASSUME NEW i \in DOMAIN shown, shown[i].what # "begin"
      PROVE  /\ Event(shown[i].call, "begin", 0) \in {shown[k] : k \in 1..(i - 1)}
             /\ Event(shown[i].call, "end", 0) \notin {shown[k] : k \in 1..(i - 1)}
             /\ shown[i].what = "result" =>
                   Event(shown[i].call, "use", shown[i].id) \in {shown[k] : k \in 1..(i - 1)}
  <2>1. i \in DOMAIN Log /\ Log[i] = shown[i]
    BY <1>1
  <2>. QED
    BY <1>2, <1>3, <2>1 DEF LogInv, Bracketed, Event
<1>. QED
  BY <1>3 DEF Bracketed, Event

\* An event that may come next keeps the log bracketed.
LEMMA LogGrows ==
  ASSUME LogInv, NEW e \in Events, outbox' = Append(outbox, e), shown' = shown,
         e.what # "begin" => InLog(Event(e.call, "begin", 0)) /\ ~InLog(Event(e.call, "end", 0)),
         e.what = "result" => InLog(Event(e.call, "use", e.id)),
         e.call \leq call', \A i \in DOMAIN Log : Log[i].call \leq call'
  PROVE  /\ outbox' \in Seq(Events)
         /\ \A i \in DOMAIN Log' : Log'[i].call \leq call'
         /\ \A x : InLog(x)' <=> InLog(x) \/ x = e
         /\ Bracketed(Log)'
<1>1. /\ outbox' \in Seq(Events) /\ Log \in Seq(Events) /\ Log' \in Seq(Events)
      /\ Log' = Append(Log, e)
  <2>1. Append(outbox, e) = outbox \o <<e>> /\ Append(outbox, e) \in Seq(Events)
    BY AppendIsConcat, AppendProperties DEF LogInv
  <2>2. (shown \o outbox) \o <<e>> = shown \o (outbox \o <<e>>)
    BY ConcatAssociative DEF LogInv
  <2>3. Log \in Seq(Events) /\ Append(Log, e) = Log \o <<e>> /\ Append(Log, e) \in Seq(Events)
    BY LogIsBoth, AppendIsConcat, AppendProperties
  <2>. QED
    BY <2>1, <2>2, <2>3 DEF Log
<1>2. /\ Len(Log) \in Nat /\ DOMAIN Log = 1..Len(Log) /\ DOMAIN Log' = 1..(Len(Log) + 1)
      /\ \A i \in 1..Len(Log) : Log'[i] = Log[i]
      /\ Log'[Len(Log) + 1] = e
  BY <1>1
<1>3. \A x : InLog(x)' <=> InLog(x) \/ x = e
  BY <1>2 DEF InLog
<1>4. ASSUME NEW i \in 1..Len(Log) PROVE {Log'[k] : k \in 1..(i - 1)} = {Log[k] : k \in 1..(i - 1)}
  BY <1>2
<1>5. \A x : x \in {Log'[k] : k \in 1..Len(Log)} <=> InLog(x)
  BY <1>2 DEF InLog
<1>6. Bracketed(Log')
  <2>. DEFINE before(i) == {Log'[k] : k \in 1..(i - 1)}
  <2>1. ASSUME NEW i \in DOMAIN Log', Log'[i].what # "begin"
        PROVE  /\ Event(Log'[i].call, "begin", 0) \in before(i)
               /\ Event(Log'[i].call, "end", 0) \notin before(i)
               /\ Log'[i].what = "result" => Event(Log'[i].call, "use", Log'[i].id) \in before(i)
    <3>1. CASE i \in 1..Len(Log)
      <4>1. Log'[i] = Log[i] /\ before(i) = {Log[k] : k \in 1..(i - 1)}
        BY <1>2, <1>4, <3>1
      <4>. QED
        BY <1>2, <2>1, <3>1, <4>1 DEF LogInv, Bracketed, Event
    <3>2. CASE i = Len(Log) + 1
      <4>1. Log'[i] = e /\ \A x : x \in before(i) <=> InLog(x)
        BY <1>2, <1>5, <3>2
      <4>. QED
        BY <2>1, <4>1
    <3>. QED
      BY <1>2, <3>1, <3>2
  <2>. QED
    BY <2>1 DEF Bracketed, Event
<1>. QED
  BY <1>1, <1>2, <1>3, <1>6
\* Steps that neither begin nor end a call and add nothing to the log.
LEMMA LogStays ==
  ASSUME LogInv, Log' = Log, outbox' \in Seq(Events), shown' \in Seq(Events),
         Len(outbox') \leq OutCap,
         UNCHANGED <<call, run>>, run = "gone" => outbox' = <<>>,
         loop' = loop \/ loop' = "dead",
         UsesAreSent'
  PROVE  LogInv'
<1>1. \A x : InLog(x)' <=> InLog(x)
  BY DEF InLog
<1>2. CallIsOpen'
  BY <1>1 DEF LogInv, CallIsOpen
<1>3. Bracketed(Log)'
  BY DEF LogInv, Bracketed
<1>. QED
  BY <1>2, <1>3 DEF LogInv

\* A call begins: its number is new to the log, and its child has used no tool.
LEMMA BeginPreserves ==
  ASSUME LogInv, BeginCall(call + 1), loop' = "code" \/ (loop' = "subagent" /\ count' = 0)
  PROVE  LogInv'
<1>1. /\ call' = call + 1 /\ call < MaxCalls /\ call \in Nat
      /\ UNCHANGED <<run, shown>>
      /\ call' \in 1..MaxCalls
  BY AgentToolsAssumption DEF BeginCall, LogInv
<1>2. UsesAreSent'
  BY DEF UsesAreSent
<1>3. CASE run = "gone"
  <2>1. outbox' = outbox /\ Log' = Log
    BY <1>1, <1>3 DEF BeginCall, Announces, Log
  <2>2. \A i \in DOMAIN Log' : Log'[i].call \leq call'
    <3>1. ASSUME NEW i \in DOMAIN Log PROVE Log[i].call \leq call + 1
      <4>1. Log[i] \in Events /\ Log[i].call \leq call
        BY LogIsBoth DEF LogInv
      <4>2. Log[i].call \in Nat
        BY <4>1, AgentToolsAssumption DEF Events
      <4>. QED
        BY <1>1, <4>1, <4>2
    <3>. QED
      BY <1>1, <2>1, <3>1
  <2>3. Bracketed(Log)' /\ CallIsOpen'
    BY <1>1, <1>3, <2>1 DEF LogInv, Bracketed, CallIsOpen
  <2>. QED
    BY <1>1, <1>2, <2>1, <2>2, <2>3 DEF LogInv
<1>4. CASE run = "forwarding"
  <2>. DEFINE e == Event(call + 1, "begin", 0)
  <2>1. outbox' = Append(outbox, e) /\ Len(outbox) < OutCap
    BY <1>4 DEF BeginCall, Announces, Event
  <2>2. e \in Events /\ e.what = "begin" /\ e.call = call + 1
    BY <1>1, AgentToolsAssumption DEF Event, Events
  <2>3. Log \in Seq(Events) /\ \A i \in DOMAIN Log : Log[i].call \in Nat /\ Log[i].call \leq call
    <3>1. Log \in Seq(Events)
      BY LogIsBoth
    <3>2. \A i \in DOMAIN Log : Log[i] \in Events
      BY <3>1
    <3>. QED
      BY <3>1, <3>2, AgentToolsAssumption DEF Events, LogInv
  <2>4. e.call \leq call' /\ \A i \in DOMAIN Log : Log[i].call \leq call'
    BY <1>1, <2>2, <2>3
  <2>5. /\ outbox' \in Seq(Events)
        /\ \A i \in DOMAIN Log' : Log'[i].call \leq call'
        /\ \A x : InLog(x)' <=> InLog(x) \/ x = e
        /\ Bracketed(Log)'
    BY <1>1, <2>1, <2>2, <2>4, LogGrows
  <2>6. ~InLog(Event(call + 1, "end", 0))
    BY <1>1, <2>3 DEF InLog, Event
  <2>7. CallIsOpen'
    BY <1>1, <2>5, <2>6 DEF CallIsOpen, Event
  <2>8. Len(outbox') \leq OutCap
    BY <2>1, AgentToolsAssumption DEF LogInv
  <2>. QED
    BY <1>1, <1>2, <1>4, <2>5, <2>7, <2>8 DEF LogInv
<1>. QED
  BY <1>3, <1>4 DEF LogInv

\* A call ends: its end comes after its beginning and is its only one.
LEMMA EndPreserves == ASSUME LogInv, EndCall PROVE LogInv'
<1>1. /\ loop \in {"subagent", "code"} /\ loop' = "thinking"
      /\ UNCHANGED <<call, run, shown>>
      /\ call \in 1..MaxCalls
  BY AgentToolsAssumption DEF EndCall, LogInv
<1>2. CallIsOpen' /\ UsesAreSent'
  BY <1>1 DEF CallIsOpen, UsesAreSent
<1>3. CASE run = "gone"
  <2>1. outbox' = outbox /\ Log' = Log
    BY <1>1, <1>3 DEF EndCall, Announces, Log
  <2>2. Bracketed(Log)'
    BY <2>1 DEF LogInv, Bracketed
  <2>. QED
    BY <1>1, <1>2, <2>1, <2>2 DEF LogInv
<1>4. CASE run = "forwarding"
  <2>. DEFINE e == Event(call, "end", 0)
  <2>1. outbox' = Append(outbox, e) /\ Len(outbox) < OutCap
    BY <1>4 DEF EndCall, Announces, Event
  <2>2. e \in Events /\ e.what = "end" /\ e.call = call
    BY <1>1, AgentToolsAssumption DEF Event, Events
  <2>3. InLog(Event(call, "begin", 0)) /\ ~InLog(Event(call, "end", 0))
    BY <1>1, <1>4 DEF LogInv, CallIsOpen
  <2>4. /\ outbox' \in Seq(Events)
        /\ \A i \in DOMAIN Log' : Log'[i].call \leq call'
        /\ Bracketed(Log)'
    <3>1. e.call \leq call' /\ \A i \in DOMAIN Log : Log[i].call \leq call'
      BY <1>1, <2>2, AgentToolsAssumption DEF LogInv
    <3>. QED
      BY <1>1, <2>1, <2>2, <2>3, <3>1, LogGrows
  <2>5. Len(outbox') \leq OutCap
    BY <2>1, AgentToolsAssumption DEF LogInv
  <2>. QED
    BY <1>1, <1>2, <1>4, <2>4, <2>5 DEF LogInv
<1>. QED
  BY <1>3, <1>4 DEF LogInv
\* run_agent takes an event out of the channel and broadcasts it.
LEMMA ForwardPreserves == ASSUME LogInv, Forward PROVE LogInv'
<1>1. /\ outbox # <<>> /\ outbox' = Tail(outbox) /\ shown' = Append(shown, Head(outbox))
      /\ UNCHANGED <<loop, call, run, tool, count, progress>>
      /\ run = "forwarding"
  BY DEF Forward, subVars
<1>2. /\ Head(outbox) \in Events /\ Tail(outbox) \in Seq(Events)
      /\ Len(Tail(outbox)) = Len(outbox) - 1 /\ shown' \in Seq(Events)
      /\ <<Head(outbox)>> \o Tail(outbox) = outbox
  BY <1>1 DEF LogInv
<1>3. Log' = Log
  <2>1. shown' = shown \o <<Head(outbox)>> /\ <<Head(outbox)>> \in Seq(Events)
    BY <1>1, <1>2, AppendIsConcat DEF LogInv
  <2>2. (shown \o <<Head(outbox)>>) \o Tail(outbox) = shown \o (<<Head(outbox)>> \o Tail(outbox))
    BY <1>2, <2>1, ConcatAssociative DEF LogInv
  <2>. QED
    BY <1>1, <1>2, <2>1, <2>2 DEF Log
<1>4. UsesAreSent'
  BY <1>1, <1>3 DEF LogInv, UsesAreSent, Receiving, InLog
<1>5. Len(outbox') \leq OutCap
  BY <1>1, <1>2, AgentToolsAssumption DEF LogInv
<1>. QED
  BY <1>1, <1>2, <1>3, <1>4, <1>5, LogStays

\* A stop drops what has not been forwarded, and the log ends with what was shown.
LEMMA StopPreserves == ASSUME LogInv, StopRun PROVE LogInv'
<1>1. run' = "gone" /\ outbox' = <<>> /\ UNCHANGED <<loop, call, shown>>
  BY DEF StopRun
<1>2. Log' = shown
  BY <1>1, ConcatEmptySeq DEF Log, LogInv
<1>3. Bracketed(Log)'
  BY <1>1, <1>2, ShownIsBracketed DEF Bracketed
<1>4. \A i \in DOMAIN Log' : Log'[i].call \leq call'
  <2>1. ASSUME NEW i \in DOMAIN shown PROVE i \in DOMAIN Log /\ Log[i] = shown[i]
    BY LogIsBoth DEF LogInv
  <2>. QED
    BY <1>1, <1>2, <2>1 DEF LogInv
<1>5. CallIsOpen' /\ UsesAreSent'
  BY <1>1 DEF CallIsOpen, UsesAreSent
<1>. QED
  BY <1>1, <1>3, <1>4, <1>5, AgentToolsAssumption DEF LogInv

\* The tool sends its progress, which belongs to the call that is going on.
LEMMA SendPreserves ==
  ASSUME LogInv, SubInv, loop = "subagent", Sub!SendProgress, UNCHANGED <<loop, shown>>
  PROVE  LogInv'
<1>1. /\ progress \in Sub!Progress /\ progress' = Sub!NoProgress
      /\ tool = "sending" /\ count > 0 /\ progress.id = count
      /\ UNCHANGED <<count, call, run>>
      /\ call \in 1..MaxCalls
  BY AgentToolsAssumption DEF Sub!SendProgress, SubInv, ProgressIsLatest, Sub!SubagentTypeOK, LogInv
<1>2. CASE run = "gone"
  <2>1. outbox' = outbox /\ Log' = Log
    BY <1>2 DEF Sub!SendProgress, Log
  <2>2. UsesAreSent'
    BY <1>1, <1>2 DEF UsesAreSent
  <2>. QED
    BY <1>1, <2>1, <2>2, LogStays DEF LogInv
<1>3. CASE run = "forwarding"
  <2>. DEFINE e == [call |-> call, what |-> progress.what, id |-> progress.id]
  <2>1. outbox' = Append(outbox, e) /\ Len(outbox) < OutCap
    BY <1>3 DEF Sub!SendProgress
  <2>2. e \in Events /\ e.what \in {"use", "result"} /\ e.call = call /\ e.id = count
    BY <1>1 DEF Events, Sub!Progress
  <2>3. InLog(Event(call, "begin", 0)) /\ ~InLog(Event(call, "end", 0))
    BY <1>3 DEF LogInv, CallIsOpen
  <2>4. \A k \in 1..count : InLog(Event(call, "use", k)) \/ (progress.what = "use" /\ k = count)
    BY <1>1, <1>3 DEF LogInv, UsesAreSent, Receiving
  <2>5. e.what = "result" => InLog(Event(call, "use", count))
    <3>1. count \in 1..count
      BY <1>1, AgentToolsAssumption DEF SubInv, Sub!SubagentTypeOK
    <3>. QED
      BY <2>4, <3>1
  <2>6. e.call \leq call' /\ \A i \in DOMAIN Log : Log[i].call \leq call'
    BY <1>1, <2>2, AgentToolsAssumption DEF LogInv
  <2>7. /\ outbox' \in Seq(Events)
        /\ \A i \in DOMAIN Log' : Log'[i].call \leq call'
        /\ \A x : InLog(x)' <=> InLog(x) \/ x = e
        /\ Bracketed(Log)'
    BY <2>1, <2>2, <2>3, <2>5, <2>6, LogGrows
  <2>8. CallIsOpen'
    BY <1>1, <2>2, <2>3, <2>7 DEF CallIsOpen, Event
  <2>9. UsesAreSent'
    <3>1. ASSUME NEW k \in 1..count PROVE InLog(Event(call, "use", k))'
      <4>1. progress.what = "use" /\ k = count => e = Event(call, "use", k)
        BY <1>1 DEF Event
      <4>. QED
        BY <1>1, <2>4, <2>7, <4>1 DEF Event
    <3>. QED
      BY <1>1, <3>1 DEF UsesAreSent, Event
  <2>10. Len(outbox') \leq OutCap
    BY <2>1, AgentToolsAssumption DEF LogInv
  <2>. QED
    BY <1>1, <1>3, <2>7, <2>8, <2>9, <2>10 DEF LogInv
<1>. QED
  BY <1>2, <1>3 DEF LogInv

\* The other steps of a subagent add nothing; the use that was just counted is to be sent.
LEMMA QuietPreserves ==
  ASSUME LogInv, SubInv, loop = "subagent", UNCHANGED <<loop, shown>>,
         Sub!SubagentNext, ~Sub!SendProgress
  PROVE  LogInv'
<1>1. UNCHANGED <<call, outbox, run>>
  BY DEF Sub!SubagentNext, Sub!ChildStep, Sub!ToolStep, Sub!TimeOut, Sub!ChildSpeaks, Sub!ChildUsesTool,
         Sub!ChildHasResult, Sub!ChildEnds, Sub!ChildDies, Sub!Emits, Sub!ReceiveText, Sub!ReceiveUse,
         Sub!ReceiveResult, Sub!ReceiveDone, Sub!ReceiveError, Sub!CutPanics, Sub!ReceiveNone, Sub!Take,
         Sub!parents
<1>2. Log' = Log
  BY <1>1 DEF Log
<1>3. \/ /\ count' = count /\ (Receiving' => Receiving)
         /\ progress' = progress \/ progress = Sub!NoProgress
      \/ /\ count' = count + 1 /\ tool = "receiving"
         /\ progress = Sub!NoProgress /\ progress'.what = "use"
  <2>1. CASE Sub!ChildStep \/ Sub!TimeOut
    BY <2>1 DEF Sub!ChildStep, Sub!TimeOut, Sub!ChildSpeaks, Sub!ChildUsesTool, Sub!ChildHasResult,
                Sub!ChildEnds, Sub!ChildDies, Sub!Emits, Sub!mine, Receiving
  <2>2. CASE Sub!ToolStep
    <3>1. tool = "receiving" => progress = Sub!NoProgress
      BY DEF SubInv, ProgressIsLatest
    <3>. QED
      BY <2>2, <3>1 DEF Sub!ToolStep, Sub!ReceiveText, Sub!ReceiveUse, Sub!ReceiveResult, Sub!ReceiveDone,
                Sub!ReceiveError, Sub!CutPanics, Sub!ReceiveNone, Sub!Take, Sub!Returns, Receiving
  <2>. QED
    BY <2>1, <2>2 DEF Sub!SubagentNext
<1>4. UsesAreSent'
  <2>1. ASSUME run = "forwarding", Receiving', NEW k \in 1..count'
        PROVE  InLog(Event(call, "use", k)) \/ (progress'.what = "use" /\ k = count')
    <3>1. count \in Nat
      BY AgentToolsAssumption DEF SubInv, Sub!SubagentTypeOK
    <3>2. Sub!NoProgress.what # "use"
      BY DEF Sub!NoProgress
    <3>3. k \in 1..count => InLog(Event(call, "use", k)) \/ (progress.what = "use" /\ k = count)
      BY <1>3, <2>1 DEF LogInv, UsesAreSent, Receiving
    <3>. QED
      BY <1>3, <2>1, <3>1, <3>2, <3>3
  <2>2. \A x : InLog(x)' <=> InLog(x)
    BY <1>2 DEF InLog
  <2>. QED
    BY <1>1, <2>1, <2>2 DEF UsesAreSent, Event
<1>. QED
  BY <1>1, <1>2, <1>4, LogStays DEF LogInv

-----------------------------------------------------------------------------
(* The inductive invariant and what follows from it *)

LEMMA InitEstablishes == Init => IInv
<1>1. SUFFICES ASSUME Init PROVE IInv
  OBVIOUS
<1>2. SubInv
  BY <1>1, AgentToolsAssumption DEF Init, Sub!SubagentInit, SubInv, Sub!SubagentTypeOK, Sub!NoProgress,
         InboxCounts, Receiving, LastIsLast, UseIsFirst, ProgressIsLatest, SuccessIsWhole
<1>3. CodeInv
  <2>1. Code!Zero \in [Code!Outputs -> 0..MaxOutput] /\ Code!Zero \in [Code!Outputs -> 0..PipeCap]
    BY AgentToolsAssumption DEF Code!Zero
  <2>2. /\ written = Code!Zero /\ pipe = Code!Zero /\ got = Code!Zero
        /\ step = "idle" /\ result = "none" /\ process = "none" /\ descendant = FALSE
    BY <1>1 DEF Init, Code!CodeInit
  <2>3. Code!CodeTypeOK
    BY <2>1, <2>2 DEF Code!CodeTypeOK
  <2>4. \A o \in Code!Outputs : got[o] + pipe[o] = written[o]
    BY <2>2 DEF Code!Zero
  <2>. QED
    BY <2>2, <2>3, <2>4 DEF CodeInv
<1>4. LogInv
  <2>1. Log = <<>>
    BY <1>1, ConcatEmptySeq DEF Init, Log
  <2>. QED
    BY <1>1, <2>1, AgentToolsAssumption DEF Init, LogInv, Bracketed, CallIsOpen, UsesAreSent
<1>. QED
  BY <1>2, <1>3, <1>4 DEF IInv

\* Parts of the invariant speak of their own variables only.
LEMMA SubInvIsLocal == SubInv /\ UNCHANGED subVars => SubInv'
  BY DEF subVars, SubInv, Sub!SubagentTypeOK, InboxCounts, Pending, Receiving, LastIsLast, UseIsFirst,
         ProgressIsLatest, SuccessIsWhole

LEMMA CodeInvIsLocal == CodeInv /\ UNCHANGED codeVars => CodeInv'
  BY DEF codeVars, CodeInv, Code!CodeTypeOK

LEMMA NextPreserves == IInv /\ [Next]_vars => IInv'
<1>. SUFFICES ASSUME IInv, [Next]_vars PROVE IInv'
  OBVIOUS
<1>. USE DEF IInv
<1>1. CASE CallSubagent
  <2>1. Sub!Spawn /\ BeginCall(call + 1) /\ loop' = "subagent" /\ count' = 0 /\ UNCHANGED codeVars
    BY <1>1 DEF CallSubagent, Sub!Spawn
  <2>. QED
    BY <2>1, SpawnPreserves, BeginPreserves, CodeInvIsLocal
<1>2. CASE CallCode
  <2>1. Code!Execute /\ BeginCall(call + 1) /\ loop' = "code" /\ UNCHANGED subVars
    BY <1>2 DEF CallCode
  <2>. QED
    BY <2>1, ExecutePreserves, BeginPreserves, SubInvIsLocal
<1>3. CASE EndCall
  <2>1. UNCHANGED <<subVars, codeVars>>
    BY <1>3 DEF EndCall
  <2>. QED
    BY <1>3, <2>1, EndPreserves, SubInvIsLocal, CodeInvIsLocal
<1>4. CASE LoopDies
  <2>1. UNCHANGED <<call, outbox, run, shown, subVars, codeVars>> /\ loop' = "dead"
    BY <1>4 DEF LoopDies
  <2>2. Log' = Log /\ UsesAreSent'
    BY <2>1 DEF Log, UsesAreSent
  <2>. QED
    BY <2>1, <2>2, LogStays, SubInvIsLocal, CodeInvIsLocal DEF LogInv
<1>5. CASE Forward
  <2>1. UNCHANGED <<subVars, codeVars>>
    BY <1>5 DEF Forward
  <2>. QED
    BY <1>5, <2>1, ForwardPreserves, SubInvIsLocal, CodeInvIsLocal
<1>6. CASE StopRun
  <2>1. UNCHANGED <<subVars, codeVars>>
    BY <1>6 DEF StopRun
  <2>. QED
    BY <1>6, <2>1, StopPreserves, SubInvIsLocal, CodeInvIsLocal
<1>7. CASE SubagentStep(Sub!SubagentNext)
  <2>1. loop = "subagent" /\ Sub!SubagentNext /\ UNCHANGED <<loop, shown, codeVars>>
    BY <1>7 DEF SubagentStep
  <2>2. SubInv'
    BY <2>1, ChildPreserves, ToolPreserves, TimeOutPreserves DEF Sub!SubagentNext
  <2>3. LogInv'
    BY <2>1, SendPreserves, QuietPreserves
  <2>. QED
    BY <2>1, <2>2, <2>3, CodeInvIsLocal
<1>8. CASE CodeStep(Code!CodeNext)
  <2>1. loop = "code" /\ Code!CodeNext /\ UNCHANGED <<loop, call, outbox, run, shown, subVars>>
    BY <1>8 DEF CodeStep
  <2>2. CodeInv'
    BY <2>1, ProcessPreserves, ReaderPreserves DEF Code!CodeNext
  <2>3. Log' = Log /\ UsesAreSent'
    BY <2>1 DEF Log, UsesAreSent
  <2>. QED
    BY <2>1, <2>2, <2>3, LogStays, SubInvIsLocal DEF LogInv
<1>9. CASE UNCHANGED vars
  <2>1. UNCHANGED <<loop, call, outbox, run, shown, subVars, codeVars>>
    BY <1>9 DEF vars
  <2>2. Log' = Log /\ UsesAreSent'
    BY <2>1 DEF Log, LogInv, UsesAreSent, Receiving, InLog, subVars
  <2>. QED
    BY <2>1, <2>2, LogStays, SubInvIsLocal, CodeInvIsLocal DEF LogInv
<1>. QED
  BY <1>1, <1>2, <1>3, <1>4, <1>5, <1>6, <1>7, <1>8, <1>9 DEF Next

\* The invariant of the tool calls of a run, for any bounds and capacities.
THEOREM InvariantHolds == Spec => []IInv
<1>1. Init => IInv
  BY InitEstablishes
<1>2. IInv /\ [Next]_vars => IInv'
  BY NextPreserves
<1>. QED
  BY <1>1, <1>2, PTL DEF Spec

\* Type correctness: channels and pipes never hold more than their capacities.
THEOREM TypeCorrect == Spec => []ToolsTypeOK
<1>1. IInv => ToolsTypeOK
  BY DEF IInv, SubInv, CodeInv, LogInv, ToolsTypeOK
<1>. QED
  BY <1>1, InvariantHolds, PTL

\* What clients are shown of a subagent stands within its call, in order, whatever the
\* sizes of the channels and wherever the run is stopped.
THEOREM ProgressStaysInItsCall == Spec => []ProgressIsBracketed
<1>1. IInv => ProgressIsBracketed
  BY ShownIsBracketed DEF IInv, ProgressIsBracketed
<1>. QED
  BY <1>1, InvariantHolds, PTL

\* A successful answer is whole, however much the child says or the process writes.
THEOREM SuccessHasEverything == Spec => []ResultIsWhole
<1>1. IInv => ResultIsWhole
  <2>1. ASSUME IInv, step = "returned", result = "exited" PROVE got = written
    <3>1. \A o \in Code!Outputs : got[o] = written[o]
      BY <2>1, AgentToolsAssumption DEF IInv, CodeInv, Code!CodeTypeOK
    <3>. QED
      BY <2>1, <3>1 DEF IInv, CodeInv, Code!CodeTypeOK
  <2>. QED
    BY <2>1 DEF IInv, SubInv, SuccessIsWhole, ResultIsWhole
<1>. QED
  BY <1>1, InvariantHolds, PTL
=============================================================================
