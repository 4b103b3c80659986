--------------------------- MODULE TeamBusProofs ---------------------------
(* Proofs about the team's messages, for any messages, any number of calls   *)
(* of deliverPending that overlap, any faults and a log of any length.       *)
(*                                                                           *)
(* Budget is what keeps the Discord agent from a second run in one dedup     *)
(* window: a post that is under way has already used up the window its run   *)
(* will need.  Recorded follows "delivered" through the log and through      *)
(* every copy of it that a call may yet write back.                          *)
EXTENDS TeamBus, FiniteSetTheorems, SequenceTheorems, WellFoundedInduction, TLAPS

Posting(m) == {c \in Call : At(c, "posting") /\ Held(c) = m}

Budget == \A m \in Msg :
            runs[m] + Cardinality(Posting(m)) <= windows[m] + (IF m \in seen THEN 1 ELSE 0)

(* What the agent got, what a call is just posting, and what is excused.     *)
Reached == shown \union missed \union {Held(c) : c \in InFlight}

(* What lines say was delivered. *)
Claims(lines) == {lines[i].msg : i \in {j \in 1 .. Len(lines) : lines[j].delivered}}

Recorded == /\ seen \subseteq Reached
            /\ Claims(log) \subseteq Reached
            /\ \A c \in Call : scan[c] # nothing => Claims(scan[c].lines) \subseteq Reached
            /\ \A c \in Call : At(c, "running") \/ At(c, "slackRunning") => Held(c) \in shown

(* How much a call has left to do with its line, at most. *)
Left(phase) == CASE phase = "turn" -> 6
                 [] phase = "posting" -> 5
                 [] phase = "running" -> 4
                 [] phase = "retry" -> 3
                 [] phase = "slackPosting" -> 2
                 [] phase = "slackRunning" -> 1

(* Call c stays at its line and comes closer to the end of it. *)
Closer(c, p) == /\ scan' = [scan EXCEPT ![c].phase = p] /\ log' = log
                /\ p \in Phase \ {"turn"} /\ Left(p) < Left(scan[c].phase)
                /\ p = "posting" => BeginPost(c)
                /\ p = "running" => Posted(c)
                /\ p = "slackRunning" => SlackPosted(c)

-----------------------------------------------------------------------------
(* A set of naturals has the least element that Min chooses. *)
LEMMA LeastExists ==
  ASSUME NEW T \in SUBSET Nat, T # {}
  PROVE  Min(T) \in T /\ \A y \in T : Min(T) <= y
<1> DEFINE U == {0 .. i : i \in T}
<1>1. U \subseteq FiniteSubsetsOf(Nat)
  <2>1. \A i \in Nat : 0 .. i \subseteq Nat /\ IsFiniteSet(0 .. i)
    BY FS_Interval
  <2> QED
    BY <2>1 DEF FiniteSubsetsOf
<1>2. U # {}
    OBVIOUS
<1>3. PICK x \in U : \A y \in U : ~ (<<y, x>> \in StrictSubsetOrdering(Nat))
  <2> HIDE DEF U
  <2> QED
    BY <1>1, <1>2, FS_StrictSubsetOrderingWellFounded, WFMin
<1>4. PICK i \in T : x = 0 .. i
    BY <1>3
<1>5. \A j \in T : i <= j
  <2> SUFFICES ASSUME NEW j \in T, ~(i <= j) PROVE FALSE
    OBVIOUS
  <2>1. i \in Nat /\ j \in Nat /\ j < i
    OBVIOUS
  <2>2. 0 .. j \subseteq 0 .. i /\ i \in 0 .. i /\ i \notin 0 .. j
    BY <2>1
  <2>3. <<0 .. j, 0 .. i>> \in StrictSubsetOrdering(Nat)
    BY <2>1, <2>2 DEF StrictSubsetOrdering
  <2> QED
    BY <1>3, <1>4, <2>3
<1> QED
    BY <1>4, <1>5 DEF Min

(* A call that goes on comes to rest on a line of its copy or ends; the file *)
(* stays or becomes the copy (the loop of deliverPending and what follows).  *)
LEMMA GoOnRests ==
  ASSUME TypeOK, NEW c \in Call, scan[c] # nothing, NEW lines \in Seq(Line),
         NEW wrote \in BOOLEAN, GoOn(c, lines, wrote)
  PROVE  /\ scan' \in [Call -> Scan \union {nothing}]
         /\ \A d \in Call : d # c => scan'[d] = scan[d]
         /\ scan'[c] # nothing => /\ scan'[c].lines = lines
                                  /\ scan'[c].at \in DOMAIN lines
                                  /\ scan'[c].at > scan[c].at
                                  /\ scan'[c].phase = "turn"
         /\ log' \in {log, lines}
<1> DEFINE rest == OpenFrom(lines, scan[c].at + 1)
<1>1. scan \in [Call -> Scan \union {nothing}] /\ scan[c].at \in Nat
  <2>1. scan[c] \in Scan
    BY DEF TypeOK
  <2> QED
    BY <2>1 DEF TypeOK, Scan
<1>2. CASE rest # {}
  <2> DEFINE next == [lines |-> lines, at |-> Min(rest), phase |-> "turn", wrote |-> wrote]
  <2>1. scan' = [scan EXCEPT ![c] = next] /\ log' = log
    BY <1>2 DEF GoOn
  <2>2. rest \subseteq 1 .. Len(lines) /\ rest \subseteq Nat
    BY <1>1 DEF OpenFrom
  <2>3. Min(rest) \in rest
    BY <1>2, <2>2, LeastExists
  <2>4. Min(rest) \in Nat /\ Min(rest) \in DOMAIN lines /\ Min(rest) > scan[c].at
    BY <1>1, <2>2, <2>3 DEF OpenFrom
  <2>5. next \in Scan
    BY <2>4 DEF Scan, Phase
  <2>6. next.lines = lines /\ next.at = Min(rest) /\ next.phase = "turn"
    OBVIOUS
  <2> HIDE DEF next
  <2> QED
    BY <1>1, <2>1, <2>4, <2>5, <2>6
<1>3. CASE rest = {}
    BY <1>1, <1>3 DEF GoOn
<1> QED
    BY <1>2, <1>3

(* A copy in which one more line is delivered (Mark). *)
LEMMA MarkRests ==
  ASSUME TypeOK, NEW c \in Call, scan[c] # nothing, Mark(c)
  PROVE  \E lines \in Seq(Line) :
           /\ GoOn(c, lines, TRUE)
           /\ Len(lines) = Len(scan[c].lines)
           /\ \A i \in 1 .. Len(lines) :
                /\ lines[i].msg = scan[c].lines[i].msg
                /\ lines[i].delivered => scan[c].lines[i].delivered \/ i = scan[c].at
<1> DEFINE old == scan[c].lines
           at == scan[c].at
           new == [old EXCEPT ![at].delivered = TRUE]
<1>1. old \in Seq(Line) /\ at \in 1 .. Len(old)
  <2>1. scan[c] \in Scan
    BY DEF TypeOK
  <2>2. old \in Seq(Line)
    BY <2>1 DEF Scan
  <2> QED
    BY <2>2 DEF TypeOK
<1>2. GoOn(c, new, TRUE)
    BY DEF Mark
<1> HIDE DEF old, at
<1>3. \A i \in 1 .. Len(old) : old[i] \in Line
    BY <1>1
<1>4. \A w \in Line : /\ [w EXCEPT !.delivered = TRUE] \in Line
                      /\ [w EXCEPT !.delivered = TRUE].msg = w.msg
    BY DEF Line
<1>5. /\ Len(new) = Len(old)
      /\ \A i \in 1 .. Len(old) : new[i] = IF i = at THEN [old[i] EXCEPT !.delivered = TRUE] ELSE old[i]
  <2> DEFINE done == [old[at] EXCEPT !.delivered = TRUE]
  <2>1. new = [old EXCEPT ![at] = done] /\ done \in Line
    BY <1>1, <1>3, <1>4
  <2> HIDE DEF done, new
  <2>2. Len(new) = Len(old) /\ \A i \in 1 .. Len(old) : new[i] = IF i = at THEN done ELSE old[i]
    BY <1>1, <2>1, ExceptSeq
  <2> QED
    BY <2>2 DEF done
<1>6. \A i \in 1 .. Len(old) : new[i] \in Line
    BY <1>3, <1>4, <1>5
<1>7. new \in Seq(Line)
    BY <1>1, <1>5, <1>6
<1> HIDE DEF new
<1>8. \A i \in 1 .. Len(new) : /\ new[i].msg = old[i].msg
                               /\ new[i].delivered => old[i].delivered \/ i = at
    BY <1>3, <1>4, <1>5
<1> QED
    BY <1>2, <1>5, <1>7, <1>8 DEF old, at

-----------------------------------------------------------------------------
(* At first nothing is logged, shown or under way. *)
LEMMA InitInv == Init => TypeOK /\ Budget /\ Recorded
<1> SUFFICES ASSUME Init PROVE TypeOK /\ Budget /\ Recorded
    OBVIOUS
<1>1. TypeOK
    BY TeamAssumption DEF Init, TypeOK
<1>2. \A m \in Msg : Posting(m) = {}
    BY DEF Init, Posting, At
<1>3. Budget
  <2> SUFFICES ASSUME NEW m \in Msg PROVE runs[m] + Cardinality(Posting(m)) <= windows[m] + (IF m \in seen THEN 1 ELSE 0)
    BY DEF Budget
  <2>1. runs[m] = 0 /\ windows[m] = 0 /\ seen = {}
    BY DEF Init
  <2>2. Cardinality(Posting(m)) = 0
    BY <1>2, FS_EmptySet
  <2> QED
    BY <2>1, <2>2
<1>4. Recorded
    BY DEF Init, Recorded, Claims, At
<1> QED
    BY <1>1, <1>3, <1>4

(* The sender's side changes the log and nothing the daemon holds. *)
LEMMA SendTypes == ASSUME TypeOK, NEW m \in Msg, Send(m) PROVE TypeOK'
<1>1. OpenLine(m, "bus") \in Line /\ OpenLine(m, "tool") \in Line
    BY DEF OpenLine, Line
<1>2. /\ log' \in {log, Append(log, OpenLine(m, "bus")), Append(log, OpenLine(m, "tool"))}
      /\ UNCHANGED <<scan, botVars, history>>
    BY DEF Send, BusAccepts, Answered, GiveUp
<1>3. log' \in Seq(Line)
  <2>1. log \in Seq(Line) /\ \A w \in Line : Append(log, w) \in Seq(Line)
    BY DEF TypeOK
  <2> QED
    BY <1>1, <1>2, <2>1
<1>4. tool' \in [Msg -> {"new", "logged", "gone", "told"}]
  <2>1. CASE BusAccepts(m)
    BY <2>1 DEF BusAccepts, TypeOK
  <2>2. CASE Answered(m)
    BY <2>2 DEF Answered, TypeOK
  <2>3. CASE GiveUp(m)
    <3>1. PICK t \in {"gone", "told"} : tool' = [tool EXCEPT ![m] = t]
        BY <2>3 DEF GiveUp
    <3> QED
        BY <3>1 DEF TypeOK
  <2> QED
    BY <2>1, <2>2, <2>3 DEF Send
<1> QED
    BY <1>2, <1>3, <1>4 DEF TypeOK, botVars, history

(* What a call holds is a message of its copy. *)
LEMMA HeldIsMessage ==
  ASSUME TypeOK, NEW c \in Call, scan[c] # nothing
  PROVE  Held(c) \in Msg
<1>1. scan[c] \in Scan /\ scan[c].at \in DOMAIN scan[c].lines
    BY DEF TypeOK
<1>2. scan[c].lines \in Seq(Line)
    BY <1>1 DEF Scan
<1>3. scan[c].lines[scan[c].at] \in Line
    BY <1>1, <1>2
<1> QED
    BY <1>3 DEF Held, Line

(* Whatever the bots do, a call marks its line, leaves it open or comes      *)
(* closer to the end of it, and notes only the message it holds.             *)
Notes(c) == /\ UNCHANGED <<tool, bot, slack, up, faults, windows>>
            /\ shown \subseteq shown' /\ shown' \subseteq shown \union {Held(c)}
            /\ missed \subseteq missed' /\ missed' \subseteq missed \union {Held(c)}
            /\ runs' = runs \/ Posted(c)
            /\ seen' = seen \/ BeginPost(c)
Moves(c) == \/ Mark(c)
            \/ GoOn(c, scan[c].lines, scan[c].wrote)
            \/ \E p \in Phase : Closer(c, p)

LEMMA DeliverShape ==
  ASSUME NEW c \in Call, Deliver(c)
  PROVE  scan[c] # nothing /\ Notes(c) /\ Moves(c)
<1> USE DEF At, Notes, Moves
<1>1. \A p \in Phase : /\ Left("turn") = 6 /\ Left("posting") = 5 /\ Left("running") = 4
                       /\ Left("retry") = 3 /\ Left("slackPosting") = 2 /\ Left("slackRunning") = 1
    BY DEF Left
<1>2. CASE Hush(c) \/ Duplicate(c)
    BY <1>2 DEF Hush, Duplicate, botVars, history
<1>3. CASE BeginPost(c)
  <2>1. Closer(c, "posting")
    BY <1>1, <1>3 DEF BeginPost, Closer, Phase
  <2> QED
    BY <1>3, <2>1 DEF BeginPost, history, Phase
<1>4. CASE Posted(c)
  <2>1. Closer(c, "running")
    BY <1>1, <1>4 DEF Posted, Closer, Phase
  <2> QED
    BY <1>4, <2>1 DEF Posted, botVars, Phase
<1>5. CASE PostFails(c)
  <2>1. Closer(c, "retry")
    BY <1>1, <1>5 DEF PostFails, Closer, Phase
  <2> QED
    BY <1>5, <2>1 DEF PostFails, botVars, history, Phase
<1>6. CASE RunEnds(c)
  <2>1. Mark(c) \/ Closer(c, "retry")
    BY <1>1, <1>6 DEF RunEnds, Closer, Phase
  <2> QED
    BY <1>6, <2>1 DEF RunEnds, botVars, history, Phase
<1>7. CASE NoSlack(c)
    BY <1>7 DEF NoSlack, Fallback, SlackTurn, botVars
<1>8. CASE SlackHush(c) \/ SlackRunEnds(c)
    BY <1>8 DEF SlackHush, SlackRunEnds, SlackTurn, botVars, history
<1>9. CASE SlackPost(c)
  <2>1. scan[c].phase \in {"turn", "retry"} /\ scan[c] # nothing
    BY <1>9 DEF SlackPost, SlackTurn
  <2>2. Left("slackPosting") < Left(scan[c].phase)
    BY <1>1, <2>1 DEF Phase
  <2>3. Closer(c, "slackPosting")
    BY <1>9, <2>2 DEF SlackPost, Closer, Phase
  <2> QED
    BY <1>9, <2>1, <2>3 DEF SlackPost, botVars, history, Phase
<1>10. CASE SlackPosted(c)
  <2>1. Closer(c, "slackRunning")
    BY <1>1, <1>10 DEF SlackPosted, Closer, Phase
  <2> QED
    BY <1>10, <2>1 DEF SlackPosted, botVars, Phase
<1>11. CASE SlackFails(c)
    BY <1>11 DEF SlackFails, Fallback, botVars
<1> QED
    BY <1>2, <1>3, <1>4, <1>5, <1>6, <1>7, <1>8, <1>9, <1>10, <1>11 DEF Deliver, Discord, Slack

(* A call that comes closer to the end of its line keeps that line. *)
LEMMA CloserKeeps ==
  ASSUME TypeOK, NEW c \in Call, scan[c] # nothing, NEW p \in Phase, Closer(c, p)
  PROVE  /\ scan' \in [Call -> Scan \union {nothing}]
         /\ scan'[c] # nothing /\ scan'[c].phase = p
         /\ scan'[c].lines = scan[c].lines /\ scan'[c].at = scan[c].at
         /\ \A d \in Call : d # c => scan'[d] = scan[d]
<1> DEFINE new == [scan[c] EXCEPT !.phase = p]
<1>1. scan[c] \in Scan /\ scan \in [Call -> Scan \union {nothing}]
    BY DEF TypeOK
<1>2. new \in Scan /\ new.phase = p /\ new.lines = scan[c].lines /\ new.at = scan[c].at
    BY <1>1 DEF Scan
<1>3. scan' = [scan EXCEPT ![c] = new]
    BY DEF Closer
<1> HIDE DEF new
<1> QED
    BY <1>1, <1>2, <1>3, TeamAssumption

(* A call keeps to its types whatever its recipient does. *)
LEMMA DeliverTypes == ASSUME TypeOK, NEW c \in Call, Deliver(c) PROVE TypeOK'
<1>1. scan[c] # nothing /\ Notes(c) /\ Moves(c)
    BY DeliverShape
<1>2. scan[c] \in Scan /\ scan[c].at \in DOMAIN scan[c].lines /\ Held(c) \in Msg
    BY <1>1, HeldIsMessage DEF TypeOK
<1>3. scan[c].lines \in Seq(Line) /\ scan[c].wrote \in BOOLEAN
    BY <1>2 DEF Scan
<1> DEFINE Rests == /\ scan' \in [Call -> Scan \union {nothing}]
                    /\ \A d \in Call : scan'[d] # nothing => scan'[d].at \in DOMAIN scan'[d].lines
                    /\ log' \in Seq(Line)
<1>4. ASSUME NEW lines \in Seq(Line), NEW wrote \in BOOLEAN, GoOn(c, lines, wrote)
      PROVE  Rests
  <2>1. /\ scan' \in [Call -> Scan \union {nothing}]
        /\ \A d \in Call : d # c => scan'[d] = scan[d]
        /\ scan'[c] # nothing => scan'[c].lines = lines /\ scan'[c].at \in DOMAIN lines
        /\ log' \in {log, lines}
    BY <1>1, <1>4, GoOnRests
  <2> QED
    BY <2>1 DEF TypeOK
<1>5. Rests
  <2>1. CASE Mark(c)
    <3>1. PICK lines \in Seq(Line) : GoOn(c, lines, TRUE)
        BY <1>1, <2>1, MarkRests
    <3> QED
        BY <1>4, <3>1
  <2>2. CASE GoOn(c, scan[c].lines, scan[c].wrote)
    BY <1>3, <1>4, <2>2
  <2>3. ASSUME NEW p \in Phase, Closer(c, p) PROVE Rests
    BY <1>1, <1>2, <2>3, CloserKeeps DEF TypeOK, Closer
  <2> QED
    BY <1>1, <2>1, <2>2, <2>3 DEF Moves
<1>6. runs' \in [Msg -> Nat] /\ seen' \subseteq Msg
  <2>1. CASE Posted(c)
    BY <1>2, <2>1 DEF Posted, TypeOK, botVars
  <2>2. CASE SlackPosted(c)
    BY <1>2, <2>2 DEF SlackPosted, TypeOK, botVars
  <2>3. CASE BeginPost(c)
    BY <1>2, <2>3 DEF BeginPost, TypeOK, history
  <2> QED
    BY <1>1, <2>1, <2>2, <2>3 DEF Notes, TypeOK
<1> QED
    BY <1>1, <1>2, <1>5, <1>6 DEF TypeOK, Notes

(* A tick copies the log and goes to its first open line. *)
LEMMA TickRests ==
  ASSUME TypeOK, NEW c \in Call, Tick(c)
  PROVE  /\ scan' \in [Call -> Scan \union {nothing}]
         /\ \A d \in Call : d # c => scan'[d] = scan[d]
         /\ scan'[c].lines = log /\ scan'[c].at \in DOMAIN log /\ scan'[c].phase = "turn"
<1> DEFINE rest == OpenFrom(log, 1)
           new == [lines |-> log, at |-> Min(rest), phase |-> "turn", wrote |-> FALSE]
<1>1. scan' = [scan EXCEPT ![c] = new] /\ rest # {}
    BY DEF Tick
<1>2. rest \subseteq 1 .. Len(log) /\ rest \subseteq Nat /\ log \in Seq(Line)
    BY DEF OpenFrom, TypeOK
<1>3. Min(rest) \in Nat /\ Min(rest) \in DOMAIN log
    BY <1>1, <1>2, LeastExists
<1>4. new \in Scan /\ new.lines = log /\ new.at = Min(rest) /\ new.phase = "turn"
    BY <1>2, <1>3 DEF Scan, Phase
<1> HIDE DEF new
<1> QED
    BY <1>1, <1>3, <1>4 DEF TypeOK

(* Every step keeps the types. *)
LEMMA StepTypes == ASSUME TypeOK, [Next]_vars PROVE TypeOK'
<1>1. ASSUME NEW m \in Msg, Send(m) PROVE TypeOK'
    BY <1>1, SendTypes
<1>2. ASSUME NEW m \in Msg, Forget(m) PROVE TypeOK'
    BY <1>2, TeamAssumption DEF TypeOK, Forget
<1>3. ASSUME NEW c \in Call, Tick(c) PROVE TypeOK'
  <2>1. /\ scan' \in [Call -> Scan \union {nothing}]
        /\ \A d \in Call : d # c => scan'[d] = scan[d]
        /\ scan'[c].lines = log /\ scan'[c].at \in DOMAIN log
    BY <1>3, TickRests
  <2> QED
    BY <1>3, <2>1 DEF TypeOK, Tick, botVars, history
<1>4. ASSUME NEW c \in Call, Deliver(c) PROVE TypeOK'
    BY <1>4, DeliverTypes
<1>5. ASSUME EndAllWindows PROVE seen' \subseteq Msg /\ windows' \in [Msg -> Nat]
    BY <1>5 DEF EndAllWindows, TypeOK
<1>6. CASE BotStarts \/ BotReady \/ SlackStarts
    BY <1>6 DEF TypeOK, BotStarts, BotReady, SlackStarts, history
<1>7. CASE BotStops \/ SlackStops
    BY <1>5, <1>7, TeamAssumption DEF TypeOK, BotStops, SlackStops, history
<1>8. CASE Crash
  <2>1. missed' \subseteq Msg
    <3>1. \A c \in InFlight : Held(c) \in Msg
        BY HeldIsMessage DEF InFlight, At
    <3> QED
        BY <1>8, <3>1 DEF Crash, TypeOK
  <2>2. scan' \in [Call -> Scan \union {nothing}] /\ \A c \in Call : scan'[c] = nothing
    BY <1>8 DEF Crash
  <2>3. faults' \in 0 .. MaxFaults
    BY <1>8, TeamAssumption DEF TypeOK, Crash
  <2>4. EndAllWindows /\ up' = FALSE /\ bot' = "none" /\ slack' = "none"
        /\ UNCHANGED <<tool, log, runs, shown>>
    BY <1>8 DEF Crash
  <2> QED
    BY <1>5, <2>1, <2>2, <2>3, <2>4 DEF TypeOK
<1>9. CASE Start
    BY <1>9 DEF TypeOK, Start, history
<1>10. CASE UNCHANGED vars
    BY <1>10 DEF TypeOK, vars, botVars
<1> QED
    BY <1>1, <1>2, <1>3, <1>4, <1>6, <1>7, <1>8, <1>9, <1>10 DEF Next

-----------------------------------------------------------------------------
(* A call that does not move goes on posting what it posts. *)
LEMMA Still ==
  ASSUME NEW d \in Call, scan'[d] = scan[d]
  PROVE  /\ \A p : At(d, p)' <=> At(d, p)
         /\ Held(d)' = Held(d)
    BY DEF At, Held

(* The call that moves stops posting, unless it begins to. *)
LEMMA MoverStops ==
  ASSUME TypeOK, NEW c \in Call, Deliver(c)
  PROVE  /\ \A d \in Call : d # c => scan'[d] = scan[d]
         /\ ~BeginPost(c) => ~At(c, "posting")'
         /\ ~Posted(c) => ~At(c, "running")'
         /\ ~SlackPosted(c) => ~At(c, "slackRunning")'
<1>1. scan[c] # nothing /\ Moves(c)
    BY DeliverShape
<1>2. scan[c].lines \in Seq(Line) /\ scan[c].wrote \in BOOLEAN
    BY <1>1 DEF Scan, TypeOK
<1>3. ASSUME NEW lines \in Seq(Line), NEW wrote \in BOOLEAN, GoOn(c, lines, wrote)
      PROVE  /\ \A d \in Call : d # c => scan'[d] = scan[d]
             /\ \A p : p # "turn" => ~At(c, p)'
    BY <1>1, <1>3, GoOnRests DEF At
<1>4. CASE Mark(c)
  <2>1. PICK lines \in Seq(Line) : GoOn(c, lines, TRUE)
    BY <1>1, <1>4, MarkRests
  <2> QED
    BY <1>3, <2>1
<1>5. CASE GoOn(c, scan[c].lines, scan[c].wrote)
    BY <1>2, <1>3, <1>5
<1>6. ASSUME NEW p \in Phase, Closer(c, p)
      PROVE  /\ \A d \in Call : d # c => scan'[d] = scan[d]
             /\ ~BeginPost(c) => ~At(c, "posting")'
             /\ ~Posted(c) => ~At(c, "running")'
             /\ ~SlackPosted(c) => ~At(c, "slackRunning")'
    BY <1>1, <1>6, CloserKeeps DEF Closer, At
<1> QED
    BY <1>1, <1>4, <1>5, <1>6 DEF Moves

(* The calls that post a message can be counted. *)
LEMMA PostingFinite == \A m \in Msg : IsFiniteSet(Posting(m)) /\ Cardinality(Posting(m)) \in Nat
<1>1. IsFiniteSet(Call)
    BY TeamAssumption, FS_Interval DEF Call
<1>2. \A m \in Msg : Posting(m) \in SUBSET Call
    BY DEF Posting
<1>3. \A m \in Msg : IsFiniteSet(Posting(m))
    BY <1>1, <1>2, FS_Subset
<1> QED
    BY <1>3, FS_CardinalityType

(* The budget of a message, as numbers. *)
LEMMA BudgetFrom ==
  ASSUME NEW m \in Msg, NEW S, IsFiniteSet(S), NEW T \in SUBSET S
  PROVE  Cardinality(T) \in Nat /\ Cardinality(S) \in Nat /\ Cardinality(T) <= Cardinality(S)
    BY FS_Subset, FS_CardinalityType

(* Every step keeps the budget of every message. *)
LEMMA StepBudget == ASSUME TypeOK, Budget, [Next]_vars PROVE Budget'
<1> SUFFICES ASSUME NEW m \in Msg
             PROVE  runs'[m] + Cardinality(Posting(m)') <= windows'[m] + (IF m \in seen' THEN 1 ELSE 0)
    BY DEF Budget
<1> DEFINE P == Posting(m)
           R == Posting(m)'
           one == IF m \in seen THEN 1 ELSE 0
<1>1. /\ runs[m] \in Nat /\ windows[m] \in Nat /\ one \in {0, 1}
      /\ IsFiniteSet(P) /\ Cardinality(P) \in Nat
      /\ runs[m] + Cardinality(P) <= windows[m] + one
    BY PostingFinite DEF TypeOK, Budget
<1>2. ASSUME R \subseteq P
      PROVE  Cardinality(R) \in Nat /\ Cardinality(R) <= Cardinality(P)
    BY <1>1, <1>2, BudgetFrom
<1>3. ASSUME scan' = scan PROVE R = P
    BY <1>3 DEF Posting, At, Held
<1>4. ASSUME R \subseteq P, UNCHANGED <<runs, windows, seen>>
      PROVE  runs'[m] + Cardinality(R) <= windows'[m] + (IF m \in seen' THEN 1 ELSE 0)
  <2>1. Cardinality(R) \in Nat /\ Cardinality(R) <= Cardinality(P)
    BY <1>2, <1>4
  <2>2. runs'[m] = runs[m] /\ windows'[m] + (IF m \in seen' THEN 1 ELSE 0) = windows[m] + one
    BY <1>4
  <2> HIDE DEF P, R, one
  <2> QED
    BY <1>1, <2>1, <2>2
<1>5. ASSUME R \subseteq P, EndAllWindows, runs' = runs
      PROVE  runs'[m] + Cardinality(R) <= windows'[m] + (IF m \in seen' THEN 1 ELSE 0)
  <2>1. windows'[m] + (IF m \in seen' THEN 1 ELSE 0) = windows[m] + one
    BY <1>1, <1>5 DEF EndAllWindows
  <2>2. Cardinality(R) \in Nat /\ Cardinality(R) <= Cardinality(P)
    BY <1>2, <1>5
  <2>3. runs'[m] = runs[m]
    BY <1>5
  <2> HIDE DEF P, R, one
  <2> QED
    BY <1>1, <2>1, <2>2, <2>3
<1>6. ASSUME NEW n \in Msg, Send(n) PROVE R \subseteq P /\ UNCHANGED <<runs, windows, seen>>
    BY <1>3, <1>6 DEF Send, BusAccepts, Answered, GiveUp, botVars, history
<1>7. ASSUME NEW n \in Msg, Forget(n)
      PROVE  runs'[m] + Cardinality(R) <= windows'[m] + (IF m \in seen' THEN 1 ELSE 0)
  <2>1. R = P /\ runs' = runs
    BY <1>3, <1>7 DEF Forget
  <2>2. windows'[m] + (IF m \in seen' THEN 1 ELSE 0) = windows[m] + one
    BY <1>7 DEF Forget, TypeOK
  <2> HIDE DEF P, R, one
  <2> QED
    BY <1>1, <2>1, <2>2
<1>8. ASSUME NEW c \in Call, Tick(c) PROVE R \subseteq P /\ UNCHANGED <<runs, windows, seen>>
  <2>1. \A d \in Call : d # c => scan'[d] = scan[d]
    BY <1>8, TickRests
  <2>2. ~At(c, "posting")'
    BY <1>8, TickRests DEF At
  <2>3. R \subseteq P
    BY <2>1, <2>2, Still DEF Posting
  <2> QED
    BY <1>8, <2>3 DEF Tick, botVars, history
<1>9. ASSUME NEW c \in Call, Deliver(c), ~BeginPost(c), ~Posted(c)
      PROVE  R \subseteq P /\ UNCHANGED <<runs, windows, seen>>
  <2>1. R \subseteq P
    BY <1>9, MoverStops, Still DEF Posting
  <2> QED
    BY <1>9, <2>1, DeliverShape DEF Notes
<1>10. ASSUME NEW c \in Call, BeginPost(c)
       PROVE  runs'[m] + Cardinality(R) <= windows'[m] + (IF m \in seen' THEN 1 ELSE 0)
  <2>1. /\ scan[c] # nothing /\ scan[c] \in Scan /\ scan \in [Call -> Scan \union {nothing}]
        /\ scan' = [scan EXCEPT ![c].phase = "posting"]
        /\ Held(c) \notin seen /\ seen' = seen \union {Held(c)}
        /\ runs' = runs /\ windows' = windows
    BY <1>10 DEF BeginPost, At, TypeOK, history
  <2>2. Held(c)' = Held(c) /\ \A d \in Call : d # c => scan'[d] = scan[d]
    BY <2>1 DEF Held, Scan
  <2>3. CASE Held(c) # m
    <3>1. R \subseteq P
        BY <2>2, <2>3, Still DEF Posting
    <3>2. (IF m \in seen' THEN 1 ELSE 0) = one
        BY <2>1, <2>3
    <3> HIDE DEF P, R, one
    <3> QED
        BY <1>1, <1>2, <2>1, <3>1, <3>2
  <2>4. CASE Held(c) = m
    <3>1. R \subseteq P \union {c}
        BY <2>2, Still DEF Posting
    <3>2. one = 0 /\ m \in seen'
        BY <2>1, <2>4
    <3> HIDE DEF P, R, one
    <3>3. IsFiniteSet(P \union {c}) /\ Cardinality(P \union {c}) \in Nat
          /\ Cardinality(P \union {c}) <= Cardinality(P) + 1
      <4>1. /\ IsFiniteSet(P \union {c})
            /\ Cardinality(P \union {c}) = IF c \in P THEN Cardinality(P) ELSE Cardinality(P) + 1
        BY <1>1, FS_AddElement
      <4> QED
        BY <1>1, <4>1
    <3>4. Cardinality(R) \in Nat /\ Cardinality(R) <= Cardinality(P \union {c})
        BY <3>1, <3>3, BudgetFrom
    <3> QED
        BY <1>1, <2>1, <3>2, <3>3, <3>4
  <2> QED
    BY <2>3, <2>4
<1>11. ASSUME NEW c \in Call, Posted(c)
       PROVE  runs'[m] + Cardinality(R) <= windows'[m] + (IF m \in seen' THEN 1 ELSE 0)
  <2>1. /\ At(c, "posting")
        /\ runs' = [runs EXCEPT ![Held(c)] = @ + 1]
        /\ windows' = windows /\ seen' = seen
    BY <1>11 DEF Posted, botVars
  <2>2. ~BeginPost(c)
    BY <2>1 DEF BeginPost, At
  <2>3. (\A d \in Call : d # c => scan'[d] = scan[d]) /\ ~At(c, "posting")'
    BY <1>11, <2>2, MoverStops DEF Deliver, Discord
  <2>4. R \subseteq P \ {c}
    BY <2>3, Still DEF Posting
  <2>5. CASE Held(c) # m
    <3>1. runs'[m] = runs[m]
        BY <2>1, <2>5 DEF TypeOK
    <3> HIDE DEF P, R
    <3> QED
        BY <1>1, <1>2, <2>1, <2>4, <3>1
  <2>6. CASE Held(c) = m
    <3>1. runs'[m] = runs[m] + 1 /\ c \in P
        BY <2>1, <2>6 DEF TypeOK, Posting
    <3> HIDE DEF P, R
    <3>2. IsFiniteSet(P \ {c}) /\ Cardinality(P \ {c}) = Cardinality(P) - 1
        BY <1>1, <3>1, FS_RemoveElement
    <3>3. Cardinality(R) \in Nat /\ Cardinality(R) <= Cardinality(P \ {c})
        BY <2>4, <3>2, BudgetFrom
    <3> QED
        BY <1>1, <2>1, <3>1, <3>2, <3>3
  <2> QED
    BY <2>5, <2>6
<1>12. CASE BotStarts \/ BotReady \/ SlackStarts \/ SlackStops \/ Start
    BY <1>3, <1>4, <1>12 DEF BotStarts, BotReady, SlackStarts, SlackStops, Start, history
<1>13. CASE BotStops
    BY <1>3, <1>5, <1>13 DEF BotStops
<1>14. CASE Crash
  <2>1. R = {}
    BY <1>14 DEF Crash, Posting, At
  <2> QED
    BY <1>5, <1>14, <2>1 DEF Crash
<1>15. CASE UNCHANGED vars
    BY <1>3, <1>4, <1>15 DEF vars, botVars
<1> QED
    BY <1>4, <1>6, <1>7, <1>8, <1>9, <1>10, <1>11, <1>12, <1>13, <1>14, <1>15 DEF Next

-----------------------------------------------------------------------------
(* Every variable keeps its type. *)
THEOREM TypeCorrect == Spec => []TypeOK
    BY InitInv, StepTypes, PTL DEF Spec

(* The agent of a Discord bot works on a message once per dedup window,      *)
(* however many lines of it were logged and however many calls hold them     *)
(* (AgentBotClient's window, marked before the post; a Slack bot has none).  *)
THEOREM OncePerWindow == Spec => []OneRunPerWindow
<1>1. TypeOK /\ Budget /\ [Next]_vars => (TypeOK /\ Budget)'
    BY StepTypes, StepBudget
<1>2. TypeOK /\ Budget => OneRunPerWindow
  <2> SUFFICES ASSUME TypeOK, Budget, NEW m \in Msg PROVE runs[m] <= 1 + windows[m]
    BY DEF OneRunPerWindow
  <2>1. runs[m] + Cardinality(Posting(m)) <= windows[m] + (IF m \in seen THEN 1 ELSE 0)
    BY DEF Budget
  <2>2. runs[m] \in Nat /\ windows[m] \in Nat /\ Cardinality(Posting(m)) \in Nat
    BY PostingFinite DEF TypeOK
  <2>3. CASE m \in seen
    BY <2>1, <2>2, <2>3
  <2>4. CASE m \notin seen
    BY <2>1, <2>2, <2>4
  <2> QED
    BY <2>3, <2>4
<1> QED
    BY <1>1, <1>2, InitInv, PTL DEF Spec

-----------------------------------------------------------------------------
(* What a call posts or failed to post, it goes on with, or it becomes known *)
(* as shown or missed.                                                       *)
LEMMA FlightEnds ==
  ASSUME TypeOK, NEW c \in Call, Deliver(c), c \in InFlight
  PROVE  Held(c) \in Reached'
<1>1. scan[c] # nothing /\ ~At(c, "turn")
    BY DEF InFlight, At
<1>2. ASSUME NEW p \in {"retry", "slackPosting"}, Closer(c, p) PROVE Held(c) \in Reached'
  <2>1. scan'[c] # nothing /\ scan'[c].phase = p /\ Held(c)' = Held(c)
    BY <1>1, <1>2, CloserKeeps DEF Phase, Held
  <2>2. (c \in InFlight)'
    BY <2>1 DEF InFlight, At
  <2> QED
    BY <2>1, <2>2 DEF Reached
<1>3. CASE Posted(c) \/ SlackPosted(c) \/ SlackHush(c)
    BY <1>3 DEF Posted, SlackPosted, SlackHush, Reached
<1>4. CASE NoSlack(c) \/ SlackFails(c)
    BY <1>1, <1>4 DEF NoSlack, SlackFails, Fallback, Reached
<1>5. CASE PostFails(c)
  <2>1. Closer(c, "retry")
    BY <1>5 DEF PostFails, Closer, Phase, Left, At
  <2> QED
    BY <1>2, <2>1
<1>6. CASE SlackPost(c)
  <2>1. Closer(c, "slackPosting")
    BY <1>1, <1>6 DEF SlackPost, SlackTurn, Closer, Phase, Left, At
  <2> QED
    BY <1>2, <2>1
<1>7. ~(Hush(c) \/ Duplicate(c) \/ BeginPost(c) \/ RunEnds(c) \/ SlackRunEnds(c))
    BY DEF InFlight, At, Hush, Duplicate, BeginPost, RunEnds, SlackRunEnds
<1> QED
    BY <1>3, <1>4, <1>5, <1>6, <1>7 DEF Deliver, Discord, Slack

(* What the agent got or is getting, it has got or is getting after any step, *)
(* or it is excused.                                                          *)
LEMMA ReachedGrows == ASSUME TypeOK, [Next]_vars PROVE Reached \subseteq Reached' /\ shown \subseteq shown'
<1>1. ASSUME scan' = scan, shown' = shown, missed' = missed PROVE Reached \subseteq Reached'
    BY <1>1 DEF Reached, InFlight, At, Held
<1>2. ASSUME NEW m \in Msg, Send(m) \/ Forget(m) PROVE Reached \subseteq Reached' /\ shown \subseteq shown'
    BY <1>1, <1>2 DEF Send, BusAccepts, Answered, GiveUp, Forget, history
<1>3. ASSUME NEW c \in Call, c \in InFlight => Held(c) \in Reached', shown \subseteq shown',
             missed \subseteq missed', \A d \in Call : d # c => scan'[d] = scan[d]
      PROVE  Reached \subseteq Reached'
  <2>1. \A d \in Call : d # c /\ d \in InFlight => (d \in InFlight)' /\ Held(d)' = Held(d)
    BY <1>3, Still DEF InFlight
  <2>2. \A d \in InFlight : d # c => Held(d) \in Reached'
    BY <2>1 DEF Reached, InFlight
  <2>3. \A d \in InFlight : Held(d) \in Reached'
    BY <1>3, <2>2
  <2> QED
    BY <1>3, <2>3 DEF Reached
<1>4. ASSUME NEW c \in Call, Tick(c) PROVE Reached \subseteq Reached' /\ shown \subseteq shown'
  <2>1. c \notin InFlight /\ shown' = shown /\ missed' = missed
    BY <1>4 DEF Tick, InFlight, At, history
  <2> QED
    BY <1>3, <1>4, <2>1, TickRests
<1>5. ASSUME NEW c \in Call, Deliver(c) PROVE Reached \subseteq Reached' /\ shown \subseteq shown'
  <2>1. shown \subseteq shown' /\ missed \subseteq missed'
    BY <1>5, DeliverShape DEF Notes
  <2> QED
    BY <1>3, <1>5, <2>1, FlightEnds, MoverStops
<1>6. CASE BotStarts \/ BotReady \/ BotStops \/ SlackStarts \/ SlackStops \/ Start
    BY <1>1, <1>6 DEF BotStarts, BotReady, BotStops, SlackStarts, SlackStops, Start, history
<1>7. CASE Crash
    BY <1>7 DEF Crash, Reached
<1>8. CASE UNCHANGED vars
    BY <1>1, <1>8 DEF vars
<1> QED
    BY <1>2, <1>4, <1>5, <1>6, <1>7, <1>8 DEF Next

(* A call that goes on with lines that tell the truth leaves only such lines. *)
LEMMA GoOnRecords ==
  ASSUME TypeOK, Recorded, NEW c \in Call, scan[c] # nothing, NEW lines \in Seq(Line),
         NEW wrote \in BOOLEAN, GoOn(c, lines, wrote), seen' = seen,
         Reached \subseteq Reached', shown \subseteq shown', Claims(lines) \subseteq Reached'
  PROVE  Recorded'
<1>1. /\ \A d \in Call : d # c => scan'[d] = scan[d]
      /\ scan'[c] # nothing => scan'[c].lines = lines /\ scan'[c].phase = "turn"
      /\ log' \in {log, lines}
    BY GoOnRests
<1>2. Claims(log)' \subseteq Reached'
    BY <1>1 DEF Recorded, Claims
<1>3. ASSUME NEW d \in Call, scan'[d] # nothing PROVE Claims(scan'[d].lines) \subseteq Reached'
    BY <1>1, <1>3 DEF Recorded
<1>4. ASSUME NEW d \in Call, At(d, "running")' \/ At(d, "slackRunning")'
      PROVE  Held(d)' \in shown'
  <2>1. d # c
    BY <1>1, <1>4 DEF At
  <2> QED
    BY <1>1, <1>4, <2>1, Still DEF Recorded
<1> QED
    BY <1>2, <1>3, <1>4 DEF Recorded, Claims

(* A call that marks its line as delivered tells the truth when the agent got *)
(* what the line holds.                                                       *)
LEMMA MarkRecords ==
  ASSUME TypeOK, Recorded, NEW c \in Call, scan[c] # nothing, Mark(c), seen' = seen,
         Reached \subseteq Reached', shown \subseteq shown', Held(c) \in Reached'
  PROVE  Recorded'
<1>1. PICK lines \in Seq(Line) :
        /\ GoOn(c, lines, TRUE)
        /\ Len(lines) = Len(scan[c].lines)
        /\ \A i \in 1 .. Len(lines) :
             /\ lines[i].msg = scan[c].lines[i].msg
             /\ lines[i].delivered => scan[c].lines[i].delivered \/ i = scan[c].at
    BY MarkRests
<1>2. Claims(lines) \subseteq Claims(scan[c].lines) \union {Held(c)}
    BY <1>1 DEF Claims, Held
<1>3. Claims(lines) \subseteq Reached'
    BY <1>2 DEF Recorded
<1> QED
    BY <1>1, <1>3, GoOnRecords

(* A call that comes closer to the end of its line keeps the record. *)
LEMMA CloserRecords ==
  ASSUME TypeOK, Recorded, NEW c \in Call, scan[c] # nothing, NEW p \in Phase, Closer(c, p),
         Reached \subseteq Reached', shown \subseteq shown',
         seen' = seen \/ BeginPost(c)
  PROVE  Recorded'
<1>1. /\ scan'[c] # nothing /\ scan'[c].phase = p
      /\ scan'[c].lines = scan[c].lines /\ scan'[c].at = scan[c].at
      /\ \A d \in Call : d # c => scan'[d] = scan[d]
      /\ log' = log /\ Held(c)' = Held(c)
    BY CloserKeeps DEF Closer, Held
<1>2. seen' \subseteq Reached'
  <2>1. CASE seen' = seen
    BY <2>1 DEF Recorded
  <2>2. CASE BeginPost(c)
    <3>1. scan[c].phase = "turn" /\ scan' = [scan EXCEPT ![c].phase = "posting"]
        BY <2>2 DEF BeginPost, At
    <3>2. scan'[c].phase = "posting"
      <4>1. scan[c] \in Scan /\ scan \in [Call -> Scan \union {nothing}]
        BY DEF TypeOK
      <4> QED
        BY <3>1, <4>1 DEF Scan
    <3>3. (c \in InFlight)'
        BY <1>1, <3>2 DEF InFlight, At
    <3>4. Held(c) \in Reached'
        BY <1>1, <3>3 DEF Reached
    <3> QED
        BY <2>2, <3>4 DEF BeginPost, Recorded
  <2> QED
    BY <2>1, <2>2
<1>3. \A d \in Call : scan'[d] # nothing => Claims(scan'[d].lines) \subseteq Reached'
    BY <1>1 DEF Recorded
<1>4. ASSUME NEW d \in Call, At(d, "running")' \/ At(d, "slackRunning")'
      PROVE  Held(d)' \in shown'
  <2>1. CASE d # c
    BY <1>1, <1>4, <2>1, Still DEF Recorded
  <2>2. CASE d = c
    <3>1. Posted(c) \/ SlackPosted(c)
        BY <1>1, <1>4, <2>2 DEF At, Closer
    <3> QED
        BY <1>1, <2>2, <3>1 DEF Posted, SlackPosted
  <2> QED
    BY <2>1, <2>2
<1> QED
    BY <1>1, <1>2, <1>3, <1>4 DEF Recorded, Claims

(* What a call does about its line keeps the record: a line it marks holds a *)
(* message that has reached its agent, or is excused.                        *)
LEMMA DeliverRecords ==
  ASSUME TypeOK, Recorded, NEW c \in Call, Deliver(c),
         Reached \subseteq Reached', shown \subseteq shown'
  PROVE  Recorded'
<1>1. scan[c] # nothing /\ Notes(c)
    BY DeliverShape
<1>2. scan[c].lines \in Seq(Line) /\ scan[c].wrote \in BOOLEAN
    BY <1>1 DEF TypeOK, Scan
<1>3. ASSUME Mark(c), seen' = seen, Held(c) \in Reached' PROVE Recorded'
    BY <1>1, <1>3, MarkRecords
<1>4. ASSUME GoOn(c, scan[c].lines, scan[c].wrote), seen' = seen PROVE Recorded'
  <2>1. Claims(scan[c].lines) \subseteq Reached'
    BY <1>1 DEF Recorded
  <2> QED
    BY <1>1, <1>2, <1>4, <2>1, GoOnRecords
<1>5. ASSUME NEW p \in Phase, Closer(c, p) PROVE Recorded'
    BY <1>1, <1>5, CloserRecords DEF Notes
<1>6. CASE Hush(c) \/ SlackHush(c)
    BY <1>3, <1>6 DEF Hush, SlackHush, Reached, botVars
<1>7. CASE Duplicate(c)
    BY <1>3, <1>7 DEF Duplicate, Recorded, botVars
<1>8. CASE BeginPost(c) \/ Posted(c) \/ PostFails(c)
  <2>1. \E p \in {"posting", "running", "retry"} : Closer(c, p)
    BY <1>8 DEF BeginPost, Posted, PostFails, Closer, Phase, Left, At
  <2> QED
    BY <1>5, <2>1 DEF Phase
<1>9. CASE RunEnds(c)
  <2>1. CASE Mark(c)
    BY <1>3, <1>9, <2>1 DEF RunEnds, Recorded, Reached, botVars
  <2>2. CASE scan' = [scan EXCEPT ![c].phase = "retry"] /\ log' = log
    <3>1. Closer(c, "retry")
        BY <1>9, <2>2 DEF RunEnds, Closer, Phase, Left, At
    <3> QED
        BY <1>5, <3>1 DEF Phase
  <2> QED
    BY <1>9, <2>1, <2>2 DEF RunEnds
<1>10. CASE NoSlack(c) \/ SlackFails(c)
  <2>1. Fallback(c) /\ seen' = seen
    BY <1>10 DEF NoSlack, SlackFails, botVars
  <2>2. CASE "ready" \in {bot, slack}
    <3>1. Mark(c) /\ Held(c) \in Reached'
        BY <2>1, <2>2 DEF Fallback, Reached
    <3> QED
        BY <1>3, <2>1, <3>1
  <2>3. CASE "ready" \notin {bot, slack}
    <3>1. GoOn(c, scan[c].lines, scan[c].wrote)
        BY <2>1, <2>3 DEF Fallback
    <3> QED
        BY <1>4, <2>1, <3>1
  <2> QED
    BY <2>2, <2>3
<1>11. CASE SlackPost(c) \/ SlackPosted(c)
  <2>1. \E p \in {"slackPosting", "slackRunning"} : Closer(c, p)
    BY <1>11 DEF SlackPost, SlackPosted, SlackTurn, Closer, Phase, Left, At
  <2> QED
    BY <1>5, <2>1 DEF Phase
<1>12. CASE SlackRunEnds(c)
    BY <1>3, <1>12 DEF SlackRunEnds, Recorded, Reached, botVars
<1> QED
    BY <1>6, <1>7, <1>8, <1>9, <1>10, <1>11, <1>12 DEF Deliver, Discord, Slack

(* Every step keeps the record. *)
LEMMA StepRecords ==
  ASSUME TypeOK, Recorded, [Next]_vars
  PROVE  Recorded'
<1>1. Reached \subseteq Reached' /\ shown \subseteq shown'
    BY ReachedGrows
<1>2. ASSUME scan' = scan, seen' \subseteq seen, Claims(log)' \subseteq Claims(log) PROVE Recorded'
  <2>1. \A d \in Call : At(d, "running")' \/ At(d, "slackRunning")' => Held(d)' \in shown'
    BY <1>1, <1>2 DEF Recorded, At, Held
  <2>2. seen' \subseteq Reached' /\ Claims(log)' \subseteq Reached'
    BY <1>1, <1>2 DEF Recorded
  <2>3. \A d \in Call : scan'[d] # nothing => Claims(scan'[d].lines) \subseteq Reached'
    BY <1>1, <1>2 DEF Recorded
  <2> QED
    BY <2>1, <2>2, <2>3 DEF Recorded, Claims
<1>3. ASSUME NEW m \in Msg, Send(m) PROVE Recorded'
  <2>1. /\ log' \in {log, Append(log, OpenLine(m, "bus")), Append(log, OpenLine(m, "tool"))}
        /\ scan' = scan /\ seen' = seen
    BY <1>3 DEF Send, BusAccepts, Answered, GiveUp, botVars
  <2>2. ASSUME NEW w \in Line, ~w.delivered PROVE Claims(Append(log, w)) \subseteq Claims(log)
    <3>1. log \in Seq(Line)
        BY DEF TypeOK
    <3>2. /\ Len(Append(log, w)) = Len(log) + 1
          /\ \A i \in 1 .. Len(log) : Append(log, w)[i] = log[i]
          /\ Append(log, w)[Len(log) + 1] = w
        BY <3>1
    <3>3. \A i \in 1 .. Len(log) + 1 : Append(log, w)[i].delivered => i \in 1 .. Len(log)
        BY <2>2, <3>1, <3>2
    <3> QED
        BY <3>2, <3>3 DEF Claims
  <2>3. \A by \in {"bus", "tool"} : OpenLine(m, by) \in Line /\ ~OpenLine(m, by).delivered
    BY DEF OpenLine, Line
  <2>4. Claims(log)' \subseteq Claims(log)
    BY <2>1, <2>2, <2>3 DEF Claims
  <2> QED
    BY <1>2, <2>1, <2>4
<1>4. ASSUME NEW m \in Msg, Forget(m) PROVE Recorded'
    BY <1>2, <1>4 DEF Forget, Claims
<1>5. ASSUME NEW c \in Call, Tick(c) PROVE Recorded'
  <2>1. /\ \A d \in Call : d # c => scan'[d] = scan[d]
        /\ scan'[c].lines = log /\ scan'[c].phase = "turn"
        /\ log' = log /\ seen' = seen
    BY <1>5, TickRests DEF Tick, botVars
  <2>2. \A d \in Call : scan'[d] # nothing => Claims(scan'[d].lines) \subseteq Reached'
    BY <1>1, <2>1 DEF Recorded
  <2>3. ASSUME NEW d \in Call, At(d, "running")' \/ At(d, "slackRunning")'
        PROVE  Held(d)' \in shown'
    <3>1. d # c
        BY <2>1, <2>3 DEF At
    <3> QED
        BY <1>1, <2>1, <2>3, <3>1, Still DEF Recorded
  <2> QED
    BY <1>1, <2>1, <2>2, <2>3 DEF Recorded, Claims
<1>6. ASSUME NEW c \in Call, Deliver(c) PROVE Recorded'
    BY <1>1, <1>6, DeliverRecords
<1>7. CASE BotStarts \/ BotReady \/ BotStops \/ SlackStarts \/ SlackStops \/ Start
    BY <1>2, <1>7 DEF BotStarts, BotReady, BotStops, SlackStarts, SlackStops, Start, EndAllWindows, Claims
<1>8. CASE Crash
    BY <1>1, <1>8 DEF Crash, EndAllWindows, Recorded, Claims, At
<1>9. CASE UNCHANGED vars
    BY <1>2, <1>9 DEF vars, botVars, Claims
<1> QED
    BY <1>3, <1>4, <1>5, <1>6, <1>7, <1>8, <1>9 DEF Next

(* What the log calls delivered has reached the agent, or a call is posting  *)
(* it, or a bot without a channel answered for it, or its post ended with    *)
(* the bots or the daemon: whatever copies of the log are written back, no   *)
(* call marks a line because another one failed to post the same text        *)
(* (deliverPending, receiveTeamMessage).                                     *)
THEOREM MarksAreTrue == Spec => []DeliveredWasShown
<1>1. TypeOK /\ Recorded /\ [Next]_vars => (TypeOK /\ Recorded)'
    BY StepTypes, StepRecords
<1>2. ASSUME TypeOK, Recorded PROVE DeliveredWasShown
  <2> SUFFICES ASSUME NEW m \in Msg, ClaimsOf(m) # {} PROVE m \in Reached
    BY DEF DeliveredWasShown, Reached
  <2>1. m \in Claims(log)
    BY DEF ClaimsOf, LinesOf, Claims
  <2> QED
    BY <1>2, <2>1 DEF Recorded
<1> QED
    BY <1>1, <1>2, InitInv, PTL DEF Spec

-----------------------------------------------------------------------------
(* The steps a call has left on its copy: six at most for each line to come, *)
(* and what it may still have to do with the line it is at.                  *)
StepsLeft(c) ==
  IF scan[c] = nothing THEN 0
  ELSE 6 * (Len(scan[c].lines) - scan[c].at) + Left(scan[c].phase)

CallCountsDown ==
  \A c \in Call : scan[c] # nothing =>
    /\ StepsLeft(c)' \in Nat /\ StepsLeft(c)' <= StepsLeft(c)
    /\ Deliver(c) => StepsLeft(c)' < StepsLeft(c)

(* A later line leaves fewer steps, whatever was left to do with this one. *)
LEMMA LaterIsLess ==
  ASSUME NEW n \in Nat, NEW at \in Nat, NEW next \in Nat, at < next, next <= n,
         NEW p \in 1 .. 6
  PROVE  /\ 6 * (n - next) + 6 \in Nat
         /\ 6 * (n - next) + 6 < 6 * (n - at) + p
    OBVIOUS

LEMMA LeftCounts == /\ \A p \in Phase : Left(p) \in 1 .. 6
                    /\ Left("turn") = 6
    BY DEF Left, Phase

(* What a call holds, in numbers. *)
LEMMA ScanCounted ==
  ASSUME TypeOK, NEW c \in Call, scan[c] # nothing
  PROVE  /\ Len(scan[c].lines) \in Nat /\ scan[c].at \in 1 .. Len(scan[c].lines)
         /\ scan[c].lines \in Seq(Line) /\ scan[c].wrote \in BOOLEAN
         /\ Left(scan[c].phase) \in 1 .. 6
         /\ StepsLeft(c) \in Nat
<1>1. scan[c] \in Scan /\ scan[c].at \in DOMAIN scan[c].lines
    BY DEF TypeOK
<1>2. scan[c].lines \in Seq(Line) /\ scan[c].wrote \in BOOLEAN /\ scan[c].phase \in Phase
    BY <1>1 DEF Scan
<1>3. Len(scan[c].lines) \in Nat /\ scan[c].at \in 1 .. Len(scan[c].lines)
    BY <1>1, <1>2
<1>4. PICK p \in 1 .. 6 : Left(scan[c].phase) = p
    BY <1>2, LeftCounts
<1>5. PICK n \in Nat, at \in Nat : n = Len(scan[c].lines) /\ at = scan[c].at /\ at <= n
    BY <1>3
<1>6. StepsLeft(c) = 6 * (n - at) + p
    BY <1>4, <1>5 DEF StepsLeft
<1>7. n - at \in Nat
    BY <1>5
<1>8. 6 * (n - at) + p \in Nat
    BY <1>7
<1> QED
    BY <1>2, <1>3, <1>4, <1>6, <1>8

(* A call that delivers goes on to a later line of its copy, or to its end,  *)
(* or comes closer to the end of the line it is at.                          *)
LEMMA DeliverCountsDown ==
  ASSUME TypeOK, NEW c \in Call, Deliver(c)
  PROVE  StepsLeft(c)' \in Nat /\ StepsLeft(c)' < StepsLeft(c)
<1> DEFINE n == Len(scan[c].lines)
           at == scan[c].at
<1>1. scan[c] # nothing /\ Moves(c)
    BY DeliverShape
<1>2. /\ n \in Nat /\ at \in 1 .. n /\ scan[c].lines \in Seq(Line) /\ scan[c].wrote \in BOOLEAN
      /\ StepsLeft(c) \in Nat
    BY <1>1, ScanCounted
<1>3. PICK p \in 1 .. 6 : p = Left(scan[c].phase) /\ StepsLeft(c) = 6 * (n - at) + p
    BY <1>1, ScanCounted DEF StepsLeft
<1>4. ASSUME NEW lines \in Seq(Line), NEW wrote \in BOOLEAN, GoOn(c, lines, wrote), Len(lines) = n
      PROVE  StepsLeft(c)' \in Nat /\ StepsLeft(c)' < StepsLeft(c)
  <2>1. scan'[c] # nothing => /\ scan'[c].lines = lines /\ scan'[c].at \in DOMAIN lines
                              /\ scan'[c].at > at /\ scan'[c].phase = "turn"
    BY <1>1, <1>4, GoOnRests
  <2>2. CASE scan'[c] = nothing
    <3>1. StepsLeft(c)' = 0
        BY <2>2 DEF StepsLeft
    <3>2. n - at \in Nat
        BY <1>2
    <3>3. 6 * (n - at) + p > 0
        BY <3>2
    <3> HIDE DEF n, at
    <3> QED
        BY <1>3, <3>1, <3>3
  <2>3. CASE scan'[c] # nothing
    <3>1. StepsLeft(c)' = 6 * (n - scan'[c].at) + 6
        BY <1>4, <2>1, <2>3, LeftCounts DEF StepsLeft
    <3>2. scan'[c].at \in Nat /\ at \in Nat /\ n \in Nat /\ at < scan'[c].at /\ scan'[c].at <= n
        BY <1>2, <1>4, <2>1, <2>3
    <3> HIDE DEF n, at
    <3>3. /\ 6 * (n - scan'[c].at) + 6 \in Nat
          /\ 6 * (n - scan'[c].at) + 6 < 6 * (n - at) + p
        BY <3>2, LaterIsLess
    <3> QED
        BY <1>3, <3>1, <3>3
  <2> QED
    BY <2>2, <2>3
<1>5. CASE Mark(c)
  <2>1. PICK lines \in Seq(Line) : GoOn(c, lines, TRUE) /\ Len(lines) = n
    BY <1>1, <1>5, MarkRests
  <2> QED
    BY <1>4, <2>1
<1>6. CASE GoOn(c, scan[c].lines, scan[c].wrote)
    BY <1>2, <1>4, <1>6
<1>7. ASSUME NEW q \in Phase, Closer(c, q)
      PROVE  StepsLeft(c)' \in Nat /\ StepsLeft(c)' < StepsLeft(c)
  <2>1. /\ scan'[c] # nothing /\ scan'[c].phase = q
        /\ scan'[c].lines = scan[c].lines /\ scan'[c].at = at
    BY <1>1, <1>7, CloserKeeps
  <2>2. PICK k \in 1 .. 6 : k = Left(q) /\ k < p
    BY <1>3, <1>7, LeftCounts DEF Closer
  <2>3. StepsLeft(c)' = 6 * (n - at) + k
    BY <2>1, <2>2 DEF StepsLeft
  <2>4. n - at \in Nat
    BY <1>2
  <2> HIDE DEF n, at
  <2>5. 6 * (n - at) + k \in Nat /\ 6 * (n - at) + k < 6 * (n - at) + p
    BY <2>2, <2>4
  <2> QED
    BY <1>3, <2>3, <2>5
<1> QED
    BY <1>1, <1>5, <1>6, <1>7 DEF Moves

(* A call of deliverPending comes to its end: whatever is sent, forgotten,   *)
(* stopped or delivered by other calls meanwhile, nothing sends it back to a *)
(* line it has left, and each of its own steps brings it nearer to the end   *)
(* of the copy it read.                                                      *)
THEOREM CallsEnd == Spec => [][CallCountsDown]_vars
<1>1. ASSUME TypeOK, TypeOK', [Next]_vars PROVE CallCountsDown
  <2> SUFFICES ASSUME NEW c \in Call, scan[c] # nothing
               PROVE  /\ StepsLeft(c)' \in Nat /\ StepsLeft(c)' <= StepsLeft(c)
                      /\ Deliver(c) => StepsLeft(c)' < StepsLeft(c)
    BY DEF CallCountsDown
  <2>1. StepsLeft(c) \in Nat
    BY <1>1, ScanCounted
  <2>2. CASE Deliver(c)
    <3>1. StepsLeft(c)' \in Nat /\ StepsLeft(c)' < StepsLeft(c)
      BY <1>1, <2>2, DeliverCountsDown
    <3> HIDE DEF StepsLeft
    <3> QED
      BY <2>1, <3>1
  <2>3. CASE ~Deliver(c) /\ Crash
    <3>1. scan'[c] = nothing
      BY <2>3 DEF Crash
    <3>2. StepsLeft(c)' = 0
      BY <3>1 DEF StepsLeft
    <3> QED
      BY <2>1, <2>3, <3>2
  <2>4. CASE ~Deliver(c) /\ ~Crash
    <3>1. ASSUME NEW d \in Call, Deliver(d) PROVE scan'[c] = scan[c]
      BY <1>1, <2>4, <3>1, MoverStops
    <3>2. ASSUME NEW d \in Call, Tick(d) PROVE scan'[c] = scan[c]
      <4>1. c # d
        BY <3>2 DEF Tick
      <4> QED
        BY <1>1, <3>2, <4>1, TickRests
    <3>3. ASSUME NEW m \in Msg, Send(m) \/ Forget(m) PROVE scan'[c] = scan[c]
      BY <3>3 DEF Send, BusAccepts, Answered, GiveUp, Forget
    <3>4. ASSUME BotStarts \/ BotReady \/ BotStops \/ SlackStarts \/ SlackStops \/ Start \/ UNCHANGED vars
          PROVE  scan'[c] = scan[c]
      BY <3>4 DEF BotStarts, BotReady, BotStops, SlackStarts, SlackStops, Start, vars
    <3>5. scan'[c] = scan[c]
      BY <1>1, <2>4, <3>1, <3>2, <3>3, <3>4 DEF Next
    <3>6. StepsLeft(c)' = StepsLeft(c)
      BY <3>5 DEF StepsLeft
    <3> QED
      BY <2>1, <2>4, <3>6
  <2> QED
    BY <2>2, <2>3, <2>4
<1>2. TypeOK /\ TypeOK' /\ [Next]_vars => [CallCountsDown]_vars
    BY <1>1
<1> QED
    BY <1>2, TypeCorrect, PTL DEF Spec
=============================================================================
