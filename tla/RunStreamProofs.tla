--------------------------- MODULE RunStreamProofs ---------------------------
(***************************************************************************)
(* Theorems about RunStream, for any number of events, texts and calls, any *)
(* capacity of the channel and any clients.  The argument: the receivers    *)
(* only move forward, never past what was sent; what the accumulator holds  *)
(* is all it consumed of texts and calls while it is alive; and every event *)
(* a client was shown is not after its receiver's position, which a new     *)
(* receiver takes from the sender.                                          *)
(***************************************************************************)
EXTENDS RunStream, TLAPS

\* Receivers, also those that have closed, are not ahead of the sender.
PositionsAreSent == \A c \in Clients : pos[c] \leq sent

\* The text is made of texts; what is recorded is a prefix of the run not longer than what
\* was consumed; while the accumulator is alive it is all that was consumed.
RecordFollows ==
    /\ RecordIsPrefix
    /\ ToSet(text) \subseteq Texts
    /\ Recorded \subseteq Recordable \cap 1..accPos
    /\ accAlive => Recorded = Recordable \cap 1..accPos

\* A client is shown nothing live before its stream is, and nothing beyond its receiver's
\* position after; what it was replayed had been sent.
ViewsFollow ==
    \A c \in Clients :
        /\ \A i \in DOMAIN view[c] : view[c][i] \leq pos[c]
        /\ \A i \in DOMAIN replayed[c] : \A e \in replayed[c][i] :
               e \leq (IF stage[c] \in {"live", "closed"} THEN pos[c] ELSE sent)
        /\ stage[c] \notin {"live", "closed"} => view[c] = <<>>

\* The first client subscribed before the run began and never replays.
FirstIsLive == stage[First] \in {"live", "closed"}

IInv ==
    /\ TypeOK
    /\ PositionsAreSent
    /\ RecordFollows
    /\ ViewsFollow
    /\ NothingShownTwice
    /\ FirstIsLive
    /\ FirstClientMissesNothing

-----------------------------------------------------------------------------
(* What the accumulator holds *)

\* Text events, starts and ends are events, no two of a kind the same, and a call ends
\* after it starts.
LEMMA Kinds ==
  /\ Recordable \subseteq Events /\ Events \subseteq Nat /\ NumEvents \notin Recordable
  /\ Texts \cap (Starts \cup Ends) = {} /\ Starts \cap Ends = {}
  /\ \A call \in Calls : /\ call = <<call[1], call[2]>> /\ call[1] < call[2]
                        /\ call[1] \in Starts /\ call[2] \in Ends
  /\ \A e \in Ends : \E s \in Starts : <<s, e>> \in Calls
  /\ \A s, t, e, f : <<s, e>> \in Calls /\ <<t, f>> \in Calls /\ (s = t \/ e = f) => s = t /\ e = f
<1>1. /\ \A call \in Calls : call \in Events \X Events /\ call[1] < call[2]
      /\ Events \subseteq Nat
  BY RunStreamAssumption DEF Events
<1>2. \A call \in Calls : /\ call = <<call[1], call[2]>>
                         /\ call[1] \in Starts /\ call[2] \in Ends
  BY <1>1 DEF Starts, Ends
<1>3. Starts \subseteq Events /\ Ends \subseteq Events
  BY <1>1 DEF Starts, Ends
<1>4. \A e \in Ends : \E s \in Starts : <<s, e>> \in Calls
  <2>1. SUFFICES ASSUME NEW call \in Calls PROVE \E s \in Starts : <<s, call[2]>> \in Calls
    BY DEF Ends
  <2>. QED
    BY <1>2
<1>5. \A s, t, e, f : <<s, e>> \in Calls /\ <<t, f>> \in Calls /\ (s = t \/ e = f) => s = t /\ e = f
  <2>1. SUFFICES ASSUME NEW s, NEW t, NEW e, NEW f, <<s, e>> \in Calls, <<t, f>> \in Calls, s = t \/ e = f
                 PROVE  s = t /\ e = f
    OBVIOUS
  <2>2. <<s, e>>[1] = s /\ <<s, e>>[2] = e /\ <<t, f>>[1] = t /\ <<t, f>>[2] = f
    OBVIOUS
  <2>3. <<s, e>> = <<t, f>>
    BY <2>1, <2>2, RunStreamAssumption
  <2>. QED
    BY <2>2, <2>3
<1>. QED
  BY <1>1, <1>2, <1>3, <1>4, <1>5, RunStreamAssumption DEF Recordable

\* Recording the next event: the record stays a prefix and has the event, if it is one to
\* be recorded, and no other.
LEMMA RecordKeepsPrefix ==
  ASSUME TypeOK, RecordFollows, accAlive,
         NEW e \in Events, e = accPos + 1, Record(e)
  PROVE  /\ text' \in Seq(Events) /\ calls' \in Seq(SUBSET Events)
         /\ RecordIsPrefix' /\ ToSet(text)' \subseteq Texts
         /\ Recorded' = Recordable \cap 1..e
<1>. USE Kinds
<1>1. /\ text \in Seq(Events) /\ calls \in Seq(SUBSET Events) /\ accPos \in Nat
      /\ Recorded = Recordable \cap 1..accPos
      /\ 1..e = 1..accPos \cup {e} /\ \A f \in Recorded : f < e
  BY RunStreamAssumption DEF TypeOK, RecordFollows
<1>2. /\ \A f \in Recorded, g \in Recordable : g < f => g \in Recorded
      /\ \A i, j \in DOMAIN text : i < j => text[i] < text[j]
      /\ \A i, j \in DOMAIN calls : \A s \in Starts \cap calls[i], t \in Starts \cap calls[j] :
             i < j => s < t
      /\ \A i \in DOMAIN calls : \E s \in Starts \cap calls[i] : calls[i] \subseteq CallOf(s)
      /\ \A i \in DOMAIN text : text[i] \in Texts
  BY DEF RecordFollows, RecordIsPrefix, ToSet
<1>3. /\ \A i \in DOMAIN text : text[i] \in Recorded
      /\ \A i \in DOMAIN calls : calls[i] \subseteq Recorded
      /\ \A f \in Recorded : (\E i \in DOMAIN text : f = text[i]) \/ (\E i \in DOMAIN calls : f \in calls[i])
  BY DEF Recorded, ToSet
<1>4. SUFFICES /\ text' \in Seq(Events) /\ calls' \in Seq(SUBSET Events)
               /\ \A i, j \in DOMAIN text' : i < j => text'[i] < text'[j]
               /\ \A i \in DOMAIN text' : text'[i] \in Texts
               /\ \A i, j \in DOMAIN calls' : \A s \in Starts \cap calls'[i], t \in Starts \cap calls'[j] :
                      i < j => s < t
               /\ \A i \in DOMAIN calls' : \E s \in Starts \cap calls'[i] : calls'[i] \subseteq CallOf(s)
               /\ Recorded' = Recordable \cap 1..e
  <2>1. \A f \in Recordable \cap 1..e, g \in Recordable : g < f => g \in Recordable \cap 1..e
    BY <1>1 DEF Events
  <2>. QED
    BY <1>4, <2>1 DEF RecordIsPrefix, ToSet
<1>. DEFINE Same == [i \in DOMAIN calls |-> calls[i]]
<1>9. e \in Recordable => Recorded \cup {e} = Recordable \cap 1..e
  BY <1>1
<1>10. calls = Same
  BY <1>1
<1>5. CASE e \in Texts
  <2>1. text' = Append(text, e) /\ e \in Recordable
    BY <1>5 DEF Record, Recordable
  <2>2. calls' = calls
    <3>1. e \notin Starts /\ \A s : <<s, e>> \notin Calls
      <4>1. \A s : <<s, e>>[2] = e
        OBVIOUS
      <4>. QED
        BY <1>5, <4>1
    <3>2. calls' = [i \in DOMAIN calls |-> IF \E s \in calls[i] : <<s, e>> \in Calls
                                         THEN calls[i] \cup {e} ELSE calls[i]]
      BY <3>1 DEF Record
    <3>3. calls' = Same
      BY <3>1, <3>2
    <3>. QED
      BY <1>10, <3>3
  <2>3. /\ DOMAIN text' = DOMAIN text \cup {Len(text) + 1}
        /\ \A i \in DOMAIN text : text'[i] = text[i] /\ i < Len(text) + 1
        /\ text'[Len(text) + 1] = e
    BY <1>1, <2>1
  <2>4. Recorded' = Recorded \cup {e}
    BY <2>2, <2>3 DEF Recorded, ToSet
  <2>5. \A i, j \in DOMAIN text' : i < j => text'[i] < text'[j]
    BY <1>1, <1>2, <1>3, <2>3
  <2>6. \A i \in DOMAIN text' : text'[i] \in Texts
    BY <1>2, <1>5, <2>3
  <2>7. text' \in Seq(Events)
    BY <1>1, <2>1
  <2>. QED
    BY <1>1, <1>2, <1>9, <2>1, <2>2, <2>4, <2>5, <2>6, <2>7
<1>6. CASE e \in Starts
  <2>1. text' = text /\ calls' = Append(calls, {e}) /\ e \in Recordable
    BY <1>6 DEF Record, Recordable
  <2>2. /\ DOMAIN calls' = DOMAIN calls \cup {Len(calls) + 1}
        /\ \A i \in DOMAIN calls : calls'[i] = calls[i] /\ i < Len(calls) + 1
        /\ calls'[Len(calls) + 1] = {e}
    BY <1>1, <2>1
  <2>3. Recorded' = Recorded \cup {e}
    BY <2>1, <2>2 DEF Recorded, ToSet
  <2>4. \A i, j \in DOMAIN calls' : \A s \in Starts \cap calls'[i], t \in Starts \cap calls'[j] :
           i < j => s < t
    BY <1>1, <1>2, <1>3, <2>2
  <2>5. \A i \in DOMAIN calls' : \E s \in Starts \cap calls'[i] : calls'[i] \subseteq CallOf(s)
    BY <1>2, <1>6, <2>2 DEF CallOf
  <2>6. calls' \in Seq(SUBSET Events)
    BY <1>1, <2>1
  <2>. QED
    BY <1>1, <1>2, <1>9, <2>1, <2>3, <2>4, <2>5, <2>6
<1>7. CASE e \in Ends
  <2>1. PICK s0 \in Starts : <<s0, e>> \in Calls
    BY <1>7
  <2>2. /\ text' = text
        /\ calls' = [i \in DOMAIN calls |-> IF s0 \in calls[i] THEN calls[i] \cup {e} ELSE calls[i]]
    <3>1. \A i \in DOMAIN calls : (\E s \in calls[i] : <<s, e>> \in Calls) <=> s0 \in calls[i]
      BY <2>1
    <3>. QED
      BY <1>7, <3>1 DEF Record
  <2>3. PICK k \in DOMAIN calls : s0 \in calls[k]
    <3>1. s0 < e /\ s0 \in Recordable /\ s0 \in Nat /\ s0 \geq 1
      <4>1. <<s0, e>>[1] = s0 /\ <<s0, e>>[2] = e
        OBVIOUS
      <4>. QED
        BY <2>1, <4>1 DEF Recordable, Events
    <3>2. s0 \in Recorded
      BY <1>1, <3>1
    <3>. QED
      BY <1>2, <1>3, <2>1, <3>2
  <2>4. /\ DOMAIN calls' = DOMAIN calls /\ e \in Recordable
        /\ calls' \in Seq(SUBSET Events)
        /\ \A i \in DOMAIN calls : calls[i] \subseteq calls'[i] /\ calls'[i] \subseteq calls[i] \cup {e}
        /\ e \in calls'[k]
    <3>1. calls' \in [1..Len(calls) -> SUBSET Events]
      BY <1>1, <2>2
    <3>2. calls' \in Seq(SUBSET Events)
      BY <1>1, <3>1
    <3>3. e \in Recordable
      BY <1>7 DEF Recordable
    <3>. QED
      BY <2>2, <2>3, <3>2, <3>3
  <2>5. Recorded' = Recorded \cup {e}
    <3>1. \A f : (\E i \in DOMAIN calls' : f \in calls'[i])
                 <=> (\E i \in DOMAIN calls : f \in calls[i]) \/ f = e
      <4>1. \A i \in DOMAIN calls : \A f : f \in calls'[i] => f \in calls[i] \/ f = e
        BY <2>4
      <4>2. \A i \in DOMAIN calls : \A f \in calls[i] : f \in calls'[i]
        BY <2>4
      <4>3. DOMAIN calls' = DOMAIN calls /\ \E i \in DOMAIN calls' : e \in calls'[i]
        BY <2>3, <2>4
      <4>. QED
        BY <4>1, <4>2, <4>3
    <3>2. (UNION ToSet(calls))' = (UNION ToSet(calls)) \cup {e}
      <4>1. /\ \A f : f \in (UNION ToSet(calls))' <=> \E i \in DOMAIN calls' : f \in calls'[i]
            /\ \A f : f \in UNION ToSet(calls) <=> \E i \in DOMAIN calls : f \in calls[i]
        BY DEF ToSet
      <4>. QED
        BY <3>1, <4>1
    <3>. QED
      BY <2>2, <3>2 DEF Recorded, ToSet
  <2>6. \A i \in DOMAIN calls : Starts \cap calls'[i] = Starts \cap calls[i]
    BY <1>7, <2>4
  <2>7. \A i \in DOMAIN calls' : \E s \in Starts \cap calls'[i] : calls'[i] \subseteq CallOf(s)
    <3>1. SUFFICES ASSUME NEW i \in DOMAIN calls
                   PROVE  \E s \in Starts \cap calls'[i] : calls'[i] \subseteq CallOf(s)
      BY <2>4
    <3>2. PICK s \in Starts \cap calls[i] : calls[i] \subseteq CallOf(s)
      BY <1>2
    <3>3. CASE s0 \in calls[i]
      <4>1. s = s0
        BY <2>1, <3>2, <3>3 DEF CallOf
      <4>. QED
        BY <1>7, <2>1, <2>4, <3>2, <4>1 DEF CallOf
    <3>4. CASE s0 \notin calls[i]
      BY <2>2, <3>2, <3>4
    <3>. QED
      BY <3>3, <3>4
  <2>8. \A i, j \in DOMAIN calls' : \A s \in Starts \cap calls'[i], t \in Starts \cap calls'[j] :
           i < j => s < t
    BY <1>2, <2>4, <2>6
  <2>. QED
    BY <1>1, <1>2, <1>9, <2>2, <2>4, <2>5, <2>7, <2>8
<1>8. CASE e \notin Recordable
  <2>1. text' = text /\ calls' = calls
    <3>1. e \notin Texts /\ e \notin Starts /\ \A s : <<s, e>> \notin Calls
      <4>1. \A s : <<s, e>>[2] = e
        OBVIOUS
      <4>. QED
        BY <1>8, <4>1 DEF Recordable
    <3>2. calls' = [i \in DOMAIN calls |-> IF \E s \in calls[i] : <<s, e>> \in Calls
                                         THEN calls[i] \cup {e} ELSE calls[i]]
      BY <3>1 DEF Record
    <3>3. calls' = Same
      BY <3>1, <3>2
    <3>. QED
      BY <1>10, <3>1, <3>3 DEF Record
  <2>2. Recorded' = Recorded
    BY <2>1 DEF Recorded
  <2>. QED
    BY <1>1, <1>2, <1>8, <2>1, <2>2
<1>. QED
  BY <1>5, <1>6, <1>7, <1>8 DEF Recordable

\* The replay of a record: nothing in it twice, texts first.
LEMMA ReplayOfRecord ==
  ASSUME TypeOK, RecordFollows, NEW r, r = [i \in DOMAIN text |-> {text[i]}] \o calls
  PROVE  /\ r \in Seq(SUBSET Events) /\ ReplayIsOrderly(r)
         /\ \A i \in DOMAIN r : \A e \in r[i] : e \leq sent
<1>. USE Kinds
<1>. DEFINE n == Len(text)
            t == [i \in DOMAIN text |-> {text[i]}]
<1>1. /\ text \in Seq(Events) /\ calls \in Seq(SUBSET Events) /\ n \in Nat /\ Len(calls) \in Nat
      /\ DOMAIN text = 1..n
      /\ t \in [1..n -> SUBSET Events]
  BY DEF TypeOK
<1>2. t \in Seq(SUBSET Events) /\ Len(t) = n
  BY <1>1
<1>3. /\ r \in Seq(SUBSET Events)
      /\ DOMAIN r = 1..(n + Len(calls))
      /\ \A i \in DOMAIN r : i \leq n => i \in DOMAIN text /\ r[i] = {text[i]}
      /\ \A i \in DOMAIN r : ~(i \leq n) => i - n \in DOMAIN calls /\ r[i] = calls[i - n]
  BY <1>1, <1>2
<1>4. /\ \A i, j \in DOMAIN text : i < j => text[i] < text[j]
      /\ \A i, j \in DOMAIN calls : \A s \in Starts \cap calls[i], u \in Starts \cap calls[j] :
             i < j => s < u
      /\ \A i \in DOMAIN calls : \E s \in Starts \cap calls[i] : calls[i] \subseteq CallOf(s)
      /\ \A i \in DOMAIN text : text[i] \in Texts /\ text[i] \in Recorded
      /\ \A i \in DOMAIN calls : calls[i] \subseteq Recorded
      /\ Recorded \subseteq Recordable \cap 1..accPos
  <2>1. RecordIsPrefix /\ Recorded \subseteq Recordable \cap 1..accPos
    BY DEF RecordFollows
  <2>2. \A i \in DOMAIN text : text[i] \in Texts /\ text[i] \in Recorded
    BY DEF RecordFollows, Recorded, ToSet
  <2>3. \A i \in DOMAIN calls : calls[i] \subseteq Recorded
    BY DEF Recorded, ToSet
  <2>4. /\ \A i, j \in DOMAIN text : i < j => text[i] < text[j]
        /\ \A i, j \in DOMAIN calls : \A s \in Starts \cap calls[i], u \in Starts \cap calls[j] :
               i < j => s < u
        /\ \A i \in DOMAIN calls : \E s \in Starts \cap calls[i] : calls[i] \subseteq CallOf(s)
    BY <2>1, Zenon DEF RecordIsPrefix
  <2>. QED
    BY <2>1, <2>2, <2>3, <2>4, Zenon
<1>5. \A i \in DOMAIN calls : calls[i] \cap Texts = {}
  <2>1. \A s \in Starts : CallOf(s) \cap Texts = {}
    BY DEF CallOf
  <2>. QED
    BY <1>4, <2>1
<1>6. \A i, j \in DOMAIN calls : i < j => calls[i] \cap calls[j] = {}
  <2>1. SUFFICES ASSUME NEW i \in DOMAIN calls, NEW j \in DOMAIN calls, i < j,
                        NEW e \in calls[i], e \in calls[j]
                 PROVE  FALSE
    OBVIOUS
  <2>2. PICK s \in Starts \cap calls[i] : e \in CallOf(s)
    BY <1>4
  <2>3. PICK u \in Starts \cap calls[j] : e \in CallOf(u)
    BY <1>4, <2>1
  <2>4. s < u /\ s \in Nat
    BY <1>4, <2>1 DEF Recordable
  <2>5. s = u
    BY <2>2, <2>3 DEF CallOf
  <2>. QED
    BY <2>4, <2>5
<1>7. \A i, j \in DOMAIN r : i < j => r[i] \cap r[j] = {}
  <2>1. SUFFICES ASSUME NEW i \in DOMAIN r, NEW j \in DOMAIN r, i < j
                 PROVE  r[i] \cap r[j] = {}
    OBVIOUS
  <2>2. i \in Int /\ j \in Int
    BY <1>1, <1>3
  <2>3. CASE j \leq n
    <3>1. i \leq n
      BY <1>1, <2>1, <2>2, <2>3
    <3>2. text[i] < text[j] /\ text[i] \in Nat
      BY <1>1, <1>3, <1>4, <2>1, <2>3, <3>1 DEF Events
    <3>. QED
      BY <1>3, <2>3, <3>1, <3>2
  <2>4. CASE i \leq n /\ ~(j \leq n)
    BY <1>3, <1>4, <1>5, <2>4
  <2>5. CASE ~(i \leq n)
    <3>1. ~(j \leq n) /\ i - n < j - n
      BY <1>1, <2>1, <2>2, <2>5
    <3>. QED
      BY <1>3, <1>6, <2>5, <3>1
  <2>. QED
    BY <2>3, <2>4, <2>5
<1>8. ASSUME NEW i \in DOMAIN r, NEW j \in DOMAIN r, NEW e \in r[i], NEW f \in r[j]
      PROVE  /\ i < j /\ ({e, f} \subseteq Texts \/ {e, f} \subseteq Starts) => e < f
             /\ e \in Texts /\ f \notin Texts => i < j
  <2>1. i \in Int /\ j \in Int
    BY <1>1, <1>3
  <2>2. /\ i \leq n <=> e \in Texts
        /\ j \leq n <=> f \in Texts
    BY <1>3, <1>4, <1>5, <1>8
  <2>3. ASSUME i < j, {e, f} \subseteq Texts PROVE e < f
    BY <1>3, <1>4, <1>8, <2>2, <2>3
  <2>4. ASSUME i < j, {e, f} \subseteq Starts PROVE e < f
    <3>1. ~(i \leq n) /\ ~(j \leq n)
      BY <2>2, <2>4
    <3>2. i - n < j - n
      BY <1>1, <2>1, <2>4
    <3>. QED
      BY <1>3, <1>4, <1>8, <2>4, <3>1, <3>2
  <2>5. ASSUME e \in Texts, f \notin Texts PROVE i < j
    BY <1>1, <2>1, <2>2, <2>5
  <2>. QED
    BY <2>3, <2>4, <2>5
<1>9. \A i \in DOMAIN r : \A e \in r[i] : e \leq sent
  <2>1. \A i \in DOMAIN r : r[i] \subseteq 1..accPos
    BY <1>3, <1>4
  <2>2. accPos \in Int /\ sent \in Int /\ accPos \leq sent
    BY RunStreamAssumption DEF TypeOK
  <2>3. \A e \in 1..accPos : e \leq sent
    BY <2>2
  <2>. QED
    BY <2>1, <2>3, Zenon
<1>. QED
  BY <1>3, <1>7, <1>8, <1>9 DEF ReplayIsOrderly

-----------------------------------------------------------------------------
(* Steps that preserve the inductive invariant *)

\* At the start nothing is sent and nothing shown.
LEMMA InitEstablishes == Init => IInv
<1>1. SUFFICES ASSUME Init PROVE IInv
  OBVIOUS
<1>. USE DEF Init, Registered
<1>2. First \in Clients /\ pos[First] = 0 /\ view[First] = <<>> /\ stage[First] = "live"
  BY <1>1 DEF Clients
<1>3. TypeOK
  BY <1>1, RunStreamAssumption DEF TypeOK, Stages
<1>4. PositionsAreSent /\ ViewsFollow /\ NothingShownTwice
  BY <1>1 DEF PositionsAreSent, ViewsFollow, NothingShownTwice, ReplayIsOrderly
<1>5. RecordFollows
  <2>1. text = <<>> /\ calls = <<>> /\ accPos = 0
    BY <1>1
  <2>2. Recorded = {} /\ ToSet(text) = {}
    BY <2>1 DEF Recorded, ToSet
  <2>. QED
    BY <2>1, <2>2 DEF RecordFollows, RecordIsPrefix
<1>6. FirstClientMissesNothing
  BY <1>2 DEF FirstClientMissesNothing, ToSet
<1>. QED
  BY <1>2, <1>3, <1>4, <1>5, <1>6 DEF IInv, FirstIsLive

\* The steps of the run: it may send more, and it ends and is unlisted.
LEMMA RunPreserves ==
  ASSUME IInv, RunStep
  PROVE  IInv'
<1>. USE DEF IInv, RunStep
<1>1. UNCHANGED <<text, calls, accPos, accAlive, stage, pos, replayed, view, lagged>>
  BY DEF LoopStarts, LoopEnds, SendEvent, RunnerIsAborted, RunnerEnds, RunnerPanics, Unlist,
         accumulator, listeners
<1>2. sent' \in 0..NumEvents /\ sent \leq sent'
  BY RunStreamAssumption
     DEF LoopStarts, LoopEnds, SendEvent, RunnerIsAborted, RunnerEnds, RunnerPanics, Unlist, TypeOK
<1>3. TypeOK'
  <2>1. /\ runner' \in {"running", "aborted", "over", "panicked"}
        /\ loop' \in {"none", "running", "ended"}
        /\ listed' \in BOOLEAN /\ asking' \in BOOLEAN /\ replayable' \in BOOLEAN
    BY DEF TypeOK, LoopStarts, LoopEnds, SendEvent, RunnerIsAborted, RunnerEnds, RunnerPanics, Unlist
  <2>2. accPos \in 0..sent'
    BY <1>2, RunStreamAssumption DEF TypeOK
  <2>. QED
    BY <1>1, <1>2, <2>1, <2>2 DEF TypeOK
<1>4. PositionsAreSent'
  BY <1>1, <1>2, RunStreamAssumption DEF PositionsAreSent, TypeOK
<1>5. RecordFollows'
  BY <1>1 DEF RecordFollows, RecordIsPrefix, Recorded
<1>6. ViewsFollow'
  <2>1. SUFFICES ASSUME NEW c \in Clients, NEW i \in DOMAIN replayed[c], NEW e \in replayed[c][i]
                 PROVE  e \leq (IF stage[c] \in {"live", "closed"} THEN pos[c] ELSE sent')
    BY <1>1 DEF ViewsFollow
  <2>2. e \in Nat /\ sent \in Nat /\ sent' \in Nat
    <3>1. replayed[c] \in Seq(SUBSET Events)
      BY DEF TypeOK
    <3>2. replayed[c][i] \subseteq Events
      BY <3>1
    <3>. QED
      BY <1>2, <3>2, RunStreamAssumption DEF Events, TypeOK
  <2>3. e \leq (IF stage[c] \in {"live", "closed"} THEN pos[c] ELSE sent)
    BY DEF ViewsFollow
  <2>. QED
    BY <1>2, <2>2, <2>3
<1>7. NothingShownTwice' /\ FirstIsLive' /\ FirstClientMissesNothing'
  BY <1>1 DEF NothingShownTwice, FirstIsLive, FirstClientMissesNothing
<1>. QED
  BY <1>3, <1>4, <1>5, <1>6, <1>7

\* The accumulator consumes one event and records it, or stops.
LEMMA AccumulatorPreserves ==
  ASSUME IInv, AccumulatorStep
  PROVE  IInv'
<1>. USE DEF IInv
<1>1. UNCHANGED <<run, stage, pos, replayed, view, lagged>>
  BY DEF AccumulatorStep, AccumulatorReceives, AccumulatorEnds, listeners
<1>2. /\ text' \in Seq(Events)
      /\ calls' \in Seq(SUBSET Events)
      /\ accPos' \in 0..sent
      /\ accAlive' \in BOOLEAN
      /\ RecordFollows'
  <2>1. CASE UNCHANGED <<text, calls, accPos>> /\ accAlive' = FALSE
    BY <2>1 DEF RecordFollows, RecordIsPrefix, Recorded, TypeOK
  <2>2. CASE /\ accAlive /\ accPos < sent
             /\ accPos' = accPos + 1
             /\ accAlive' = (accPos' # NumEvents)
             /\ Record(accPos')
    <3>1. accPos' \in Events /\ accPos' \in 0..sent
      BY <2>2, RunStreamAssumption DEF TypeOK, Events
    <3>2. /\ text' \in Seq(Events) /\ calls' \in Seq(SUBSET Events)
          /\ RecordIsPrefix' /\ ToSet(text)' \subseteq Texts
          /\ Recorded' = Recordable \cap 1..accPos'
      <4>. DEFINE next == accPos'
      <4>1. next \in Events /\ next = accPos + 1 /\ Record(next)
        BY <2>2, <3>1
      <4>. HIDE DEF next
      <4>2. /\ text' \in Seq(Events) /\ calls' \in Seq(SUBSET Events)
            /\ RecordIsPrefix' /\ ToSet(text)' \subseteq Texts
            /\ Recorded' = Recordable \cap 1..next
        BY <2>2, <4>1, RecordKeepsPrefix
      <4>. QED
        BY <4>2 DEF next
    <3>. QED
      BY <2>2, <3>1, <3>2 DEF RecordFollows
  <2>. QED
    BY <2>1, <2>2 DEF AccumulatorStep, AccumulatorReceives, AccumulatorEnds
<1>3. TypeOK'
  BY <1>1, <1>2 DEF TypeOK, run
<1>4. PositionsAreSent' /\ ViewsFollow' /\ NothingShownTwice' /\ FirstIsLive'
      /\ FirstClientMissesNothing'
  BY <1>1 DEF PositionsAreSent, ViewsFollow, NothingShownTwice, FirstIsLive,
              FirstClientMissesNothing, run
<1>. QED
  BY <1>2, <1>3, <1>4

\* Looking a run up, and closing a response, show nothing.
LEMMA OpenOrClosePreserves ==
  ASSUME IInv, NEW c \in Clients, (c \in Returning /\ Open(c)) \/ Close(c)
  PROVE  IInv'
<1>. USE DEF IInv
<1>1. UNCHANGED <<run, accumulator, pos, replayed, view, lagged>>
  BY DEF Open, Close
<1>2. \/ c # First /\ stage[c] = "none" /\ stage' = [stage EXCEPT ![c] = "opened"]
      \/ stage[c] = "live" /\ stage' = [stage EXCEPT ![c] = "closed"]
  BY RunStreamAssumption DEF Open, Close
<1>3. TypeOK'
  BY <1>1, <1>2 DEF TypeOK, Stages, run, accumulator
<1>4. PositionsAreSent' /\ RecordFollows' /\ NothingShownTwice' /\ FirstClientMissesNothing'
  BY <1>1 DEF PositionsAreSent, RecordFollows, RecordIsPrefix, Recorded, NothingShownTwice,
              FirstClientMissesNothing, run, accumulator
<1>5. ViewsFollow' /\ FirstIsLive'
  <2>1. \A d \in Clients : stage'[d] \in {"live", "closed"} <=> stage[d] \in {"live", "closed"}
    BY <1>2 DEF TypeOK
  <2>. QED
    BY <1>1, <2>1 DEF ViewsFollow, FirstIsLive, Clients, run
<1>. QED
  BY <1>3, <1>4, <1>5

\* The replay shows what was recorded, hence sent.
LEMMA ReplayPreserves ==
  ASSUME IInv, NEW c \in Clients, Replay(c)
  PROVE  IInv'
<1>. USE DEF IInv
<1>. DEFINE r == [i \in DOMAIN text |-> {text[i]}] \o calls
<1>1. /\ UNCHANGED <<run, accumulator, pos, view, lagged>>
      /\ stage[c] = "opened"
      /\ stage' = [stage EXCEPT ![c] = "replayed"]
      /\ replayed' = [replayed EXCEPT ![c] = IF replayable THEN r ELSE <<>>]
  BY DEF Replay
<1>2. c # First
  BY <1>1 DEF FirstIsLive
<1>3. /\ replayed'[c] \in Seq(SUBSET Events) /\ ReplayIsOrderly(replayed'[c])
      /\ \A i \in DOMAIN replayed'[c] : \A e \in replayed'[c][i] : e \leq sent
  <2>1. replayed'[c] = IF replayable THEN r ELSE <<>>
    BY <1>1 DEF TypeOK
  <2>2. CASE replayable
    <3>1. /\ r \in Seq(SUBSET Events) /\ ReplayIsOrderly(r)
          /\ \A i \in DOMAIN r : \A e \in r[i] : e \leq sent
      BY ReplayOfRecord
    <3>. QED
      BY <2>1, <2>2, <3>1
  <2>3. CASE ~replayable
    BY <2>1, <2>3 DEF ReplayIsOrderly
  <2>. QED
    BY <2>2, <2>3
<1>. HIDE DEF r
<1>4. TypeOK'
  BY <1>1, <1>3 DEF TypeOK, Stages, run, accumulator
<1>5. \A d \in Clients : d # c => replayed'[d] = replayed[d] /\ stage'[d] = stage[d]
  BY <1>1 DEF TypeOK
<1>6. stage'[c] = "replayed" /\ view'[c] = <<>> /\ view[c] = <<>>
  BY <1>1 DEF TypeOK, ViewsFollow
<1>7. ViewsFollow'
  BY <1>1, <1>3, <1>5, <1>6 DEF ViewsFollow, run
<1>8. NothingShownTwice'
  BY <1>1, <1>3, <1>5, <1>6 DEF NothingShownTwice
<1>9. PositionsAreSent' /\ RecordFollows' /\ FirstIsLive' /\ FirstClientMissesNothing'
  BY <1>1, <1>2, <1>5
     DEF PositionsAreSent, RecordFollows, RecordIsPrefix, Recorded, FirstIsLive,
         FirstClientMissesNothing, Clients, run, accumulator
<1>. QED
  BY <1>4, <1>7, <1>8, <1>9

\* A new receiver stands after everything sent, hence after everything replayed.
LEMMA SubscribePreserves ==
  ASSUME IInv, NEW c \in Clients, Subscribe(c)
  PROVE  IInv'
<1>. USE DEF IInv
<1>1. /\ UNCHANGED <<run, accumulator, replayed, view, lagged>>
      /\ stage[c] = "replayed"
      /\ stage' = [stage EXCEPT ![c] = "live"]
      /\ pos' = [pos EXCEPT ![c] = sent]
  BY DEF Subscribe
<1>2. c # First
  BY <1>1 DEF FirstIsLive
<1>3. TypeOK'
  BY <1>1 DEF TypeOK, Stages, run, accumulator
<1>4. /\ stage'[c] = "live" /\ pos'[c] = sent /\ view[c] = <<>> /\ sent \in Nat
      /\ \A d \in Clients : d # c => pos'[d] = pos[d] /\ stage'[d] = stage[d]
  <2>1. sent \in Nat
    BY RunStreamAssumption DEF TypeOK
  <2>2. view[c] = <<>>
    BY <1>1 DEF ViewsFollow
  <2>. QED
    BY <1>1, <2>1, <2>2 DEF TypeOK
<1>5. PositionsAreSent' /\ ViewsFollow'
  BY <1>1, <1>4 DEF PositionsAreSent, ViewsFollow, run
<1>6. RecordFollows' /\ NothingShownTwice' /\ FirstIsLive' /\ FirstClientMissesNothing'
  BY <1>1, <1>2, <1>4
     DEF RecordFollows, RecordIsPrefix, Recorded, NothingShownTwice, FirstIsLive,
         FirstClientMissesNothing, Clients, run, accumulator
<1>. QED
  BY <1>3, <1>5, <1>6

\* The receiver skips what the channel has dropped, and shows nothing.
LEMMA SkipPreserves ==
  ASSUME IInv, NEW c \in Clients, Deliver(c), Overrun(pos[c])
  PROVE  IInv'
<1>. USE DEF IInv
<1>1. /\ UNCHANGED <<run, accumulator, replayed, view, stage>>
      /\ stage[c] = "live"
      /\ pos' = [pos EXCEPT ![c] = sent - Capacity]
      /\ lagged' = lagged \cup {c}
  BY DEF Deliver
<1>2. /\ sent - Capacity \in 0..NumEvents
      /\ pos[c] \leq sent - Capacity
      /\ sent - Capacity \leq sent
      /\ pos[c] \in Nat
  BY RunStreamAssumption DEF Overrun, TypeOK
<1>3. TypeOK'
  BY <1>1, <1>2 DEF TypeOK, run, accumulator
<1>4. PositionsAreSent'
  BY <1>1, <1>2 DEF PositionsAreSent, TypeOK, run
<1>5. /\ pos'[c] = sent - Capacity
      /\ \A d \in Clients : d # c => pos'[d] = pos[d]
  BY <1>1 DEF TypeOK
<1>6. ViewsFollow'
  <2>1. /\ \A i \in DOMAIN view[c] : view[c][i] \in Nat /\ view[c][i] \leq pos[c]
        /\ \A i \in DOMAIN replayed[c] : \A e \in replayed[c][i] : e \in Nat /\ e \leq pos[c]
    <3>1. view[c] \in Seq(Events) /\ replayed[c] \in Seq(SUBSET Events)
      BY DEF TypeOK
    <3>2. \A i \in DOMAIN replayed[c] : replayed[c][i] \subseteq Events
      BY <3>1
    <3>. QED
      BY <1>1, <3>1, <3>2, RunStreamAssumption DEF ViewsFollow, Events
  <2>2. /\ \A i \in DOMAIN view[c] : view[c][i] \leq sent - Capacity
        /\ \A i \in DOMAIN replayed[c] : \A e \in replayed[c][i] : e \leq sent - Capacity
    BY <1>2, <2>1
  <2>. QED
    BY <1>1, <1>5, <2>2 DEF ViewsFollow, run
<1>7. RecordFollows' /\ NothingShownTwice' /\ FirstIsLive' /\ FirstClientMissesNothing'
  BY <1>1, <1>5
     DEF RecordFollows, RecordIsPrefix, Recorded, NothingShownTwice, FirstIsLive,
         FirstClientMissesNothing, Clients, run, accumulator
<1>. QED
  BY <1>3, <1>4, <1>6, <1>7

\* The next event is later than all that was shown.
LEMMA ShowPreserves ==
  ASSUME IInv, NEW c \in Clients, Deliver(c), ~Overrun(pos[c])
  PROVE  IInv'
<1>. USE DEF IInv
<1>. DEFINE e == pos[c] + 1
<1>1. /\ UNCHANGED <<run, accumulator, replayed, lagged, stage>>
      /\ stage[c] = "live" /\ pos[c] < sent
      /\ pos' = [pos EXCEPT ![c] = e]
      /\ view' = [view EXCEPT ![c] = Append(@, pos'[c])]
  BY DEF Deliver
<1>2. e \in Events /\ e \leq sent /\ pos[c] < e /\ pos[c] \in Nat
  BY <1>1, RunStreamAssumption DEF TypeOK, Events
<1>3. /\ pos'[c] = e
      /\ view'[c] = Append(view[c], e)
      /\ view[c] \in Seq(Events)
  BY <1>1 DEF TypeOK
<1>4. \A d \in Clients : d # c => view'[d] = view[d] /\ pos'[d] = pos[d]
  BY <1>1 DEF TypeOK
<1>5. TypeOK'
  <2>1. view'[c] \in Seq(Events) /\ e \in 0..NumEvents
    BY <1>2, <1>3, RunStreamAssumption DEF Events
  <2>. QED
    BY <1>1, <2>1 DEF TypeOK, run, accumulator
<1>6. PositionsAreSent'
  BY <1>1, <1>2, <1>3, <1>4 DEF PositionsAreSent, run
<1>7. /\ DOMAIN view'[c] = DOMAIN view[c] \cup {Len(view[c]) + 1}
      /\ \A i \in DOMAIN view[c] : view'[c][i] = view[c][i] /\ view[c][i] < e
                                   /\ i < Len(view[c]) + 1 /\ view[c][i] \in Events
      /\ view'[c][Len(view[c]) + 1] = e
  <2>1. /\ \A i \in DOMAIN view[c] : view[c][i] \in Events /\ view[c][i] \leq pos[c]
        /\ Events \subseteq Int
    <3>1. \A i \in DOMAIN view[c] : view[c][i] \in Events
      BY <1>3
    <3>2. Events \subseteq Int
      BY RunStreamAssumption DEF Events
    <3>. QED
      BY <3>1, <3>2 DEF ViewsFollow
  <2>2. \A i \in DOMAIN view[c] : view[c][i] < e /\ view[c][i] \in Events
    <3>1. SUFFICES ASSUME NEW i \in DOMAIN view[c] PROVE view[c][i] < e
      BY <2>1
    <3>2. view[c][i] \in Int /\ view[c][i] \leq pos[c]
      BY <2>1
    <3>. QED
      BY <1>2, <3>2
  <2>. QED
    BY <1>3, <2>2
<1>8. \A i \in DOMAIN replayed[c] : \A f \in replayed[c][i] : f \in Nat /\ f < e
  <2>1. replayed[c] \in Seq(SUBSET Events)
    BY DEF TypeOK
  <2>2. \A i \in DOMAIN replayed[c] : replayed[c][i] \subseteq Events
    BY <2>1
  <2>3. \A i \in DOMAIN replayed[c] : \A f \in replayed[c][i] : f \leq pos[c]
    BY <1>1 DEF ViewsFollow
  <2>. QED
    BY <1>2, <2>2, <2>3, RunStreamAssumption DEF Events
<1>. HIDE DEF e
<1>9. ViewsFollow'
  <2>1. \A i \in DOMAIN view'[c] : view'[c][i] \leq e
    BY <1>2, <1>7, RunStreamAssumption DEF Events
  <2>2. \A i \in DOMAIN replayed[c] : \A f \in replayed[c][i] : f \leq e
    BY <1>2, <1>8, RunStreamAssumption DEF Events
  <2>. QED
    BY <1>1, <1>3, <1>4, <2>1, <2>2 DEF ViewsFollow, run
<1>10. NothingShownTwice'
  <2>1. \A i, j \in DOMAIN view'[c] : i < j => view'[c][i] < view'[c][j]
    BY <1>3, <1>7 DEF NothingShownTwice
  <2>2. \A i \in DOMAIN replayed[c], j \in DOMAIN view'[c] :
           \A f \in replayed[c][i] : f < view'[c][j]
    BY <1>7, <1>8 DEF NothingShownTwice
  <2>. QED
    BY <1>1, <1>4, <2>1, <2>2 DEF NothingShownTwice
<1>11. FirstClientMissesNothing'
  <2>1. CASE c = First
    <3>1. ToSet(view'[c]) = ToSet(view[c]) \cup {e}
      BY <1>7 DEF ToSet
    <3>2. 1..e = 1..pos[c] \cup {e}
      BY <1>2 DEF e
    <3>. QED
      BY <1>1, <1>3, <2>1, <3>1, <3>2 DEF FirstClientMissesNothing
  <2>2. CASE c # First
    BY <1>1, <1>4, <2>2 DEF FirstClientMissesNothing, Clients
  <2>. QED
    BY <2>1, <2>2
<1>12. RecordFollows' /\ FirstIsLive'
  BY <1>1 DEF RecordFollows, RecordIsPrefix, Recorded, FirstIsLive, run, accumulator
<1>. QED
  BY <1>5, <1>6, <1>9, <1>10, <1>11, <1>12

-----------------------------------------------------------------------------

\* Every step preserves the invariant: one case per lemma.
LEMMA NextPreserves == IInv /\ [Next]_vars => IInv'
<1>1. SUFFICES ASSUME IInv, [Next]_vars
               PROVE  IInv'
  OBVIOUS
<1>2. CASE RunStep
  BY <1>1, <1>2, RunPreserves
<1>3. CASE AccumulatorStep
  BY <1>1, <1>3, AccumulatorPreserves
<1>4. CASE \E c \in Returning : Open(c)
  BY <1>1, <1>4, OpenOrClosePreserves DEF Clients
<1>5. CASE \E c \in Clients : ClientStep(c)
  BY <1>1, <1>5, ReplayPreserves, SubscribePreserves, SkipPreserves, ShowPreserves,
     OpenOrClosePreserves DEF ClientStep
<1>6. CASE UNCHANGED vars
  BY <1>1, <1>6
     DEF vars, run, accumulator, listeners, IInv, TypeOK, PositionsAreSent, RecordFollows,
         RecordIsPrefix, Recorded, ViewsFollow, NothingShownTwice, FirstIsLive,
         FirstClientMissesNothing
<1>. QED
  BY <1>1, <1>2, <1>3, <1>4, <1>5, <1>6 DEF Next

\* The invariant holds in every reachable state.
THEOREM InvariantHolds == Spec => []IInv
  BY InitEstablishes, NextPreserves, PTL DEF Spec

\* Type correctness of the channel, the receivers and what they are shown.
THEOREM TypeCorrect == Spec => []TypeOK
<1>1. IInv => TypeOK
  BY DEF IInv
<1>. QED
  BY <1>1, InvariantHolds, PTL

\* What create_chat's accumulator holds, and stop_agent stores as the partial answer, is a
\* prefix of what the agent said and called, whatever the capacity of the channel.
THEOREM RecordHasNoHoles == Spec => []RecordIsPrefix
<1>1. IInv => RecordIsPrefix
  BY DEF IInv, RecordFollows
<1>. QED
  BY <1>1, InvariantHolds, PTL

\* stream_events shows no event twice; what it shows live is in order and after the whole
\* replay, and the replay has texts, then calls, each kind in order.
THEOREM LiveFollowsReplay == Spec => []NothingShownTwice
<1>1. IInv => NothingShownTwice
  BY DEF IInv
<1>. QED
  BY <1>1, InvariantHolds, PTL

\* The client of POST /api/chat that never lagged was shown every event up to where its
\* receiver stands.
THEOREM FirstClientSeesAll == Spec => []FirstClientMissesNothing
<1>1. IInv => FirstClientMissesNothing
  BY DEF IInv
<1>. QED
  BY <1>1, InvariantHolds, PTL
=============================================================================
