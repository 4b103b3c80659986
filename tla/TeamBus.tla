------------------------------ MODULE TeamBus ------------------------------
(* Messages between team agents.  The tool that sends one runs in a process  *)
(* of its own: it asks the dashboard, and writes a line to the shared log    *)
(* itself when no answer comes.  The dashboard has no bots, so its bus only  *)
(* logs the message.  The daemon reads the log every 15 s, hands each open   *)
(* line to the recipient's Discord bot, else to its Slack bot, else to its   *)
(* session, awaiting each, and then writes back the whole file.  Nothing     *)
(* keeps two of these calls from overlapping.                                *)
EXTENDS Integers, Sequences, FiniteSetsExt

CONSTANTS Msg,          \* messages, all to one agent, with different contents
          MaxCalls,     \* bound on the calls of deliverPending that overlap
          Bots,         \* the bots the agent has tokens for, of "discord" and "slack"
          MaxFaults,    \* bound on crashes, stops of a bot and dedup windows that end
          MaxLines,     \* bound on the lines of the log
          nothing       \* the scan of a call that is not running

Call == 1 .. MaxCalls
Line == [msg : Msg, by : {"bus", "tool"}, delivered : BOOLEAN]
Phase == {"turn", "posting", "running", "retry", "slackPosting", "slackRunning"}
Scan == [lines : Seq(Line), at : Nat, wrote : BOOLEAN, phase : Phase]

ASSUME TeamAssumption == /\ {MaxCalls, MaxFaults, MaxLines} \subseteq Nat
                         /\ nothing \notin Scan

VARIABLES
  tool,      \* the sender's call of team_message: "new", "logged" by the dashboard
             \* but not answered, "gone" on while the dashboard may yet log it, "told"
  log,       \* the file: lines [msg, by, delivered]
  scan,      \* per call: nothing, or its copy of the lines, its place, its phase
  seen,      \* messages whose hash is in the Discord bot's five-minute window
  bot,       \* the Discord bot: "none", "mute" while it has no channel, or "ready"
  slack,     \* the Slack bot, likewise
  up,        \* the daemon runs
  faults,    \* crashes, stops and windows that ended, for the bound
  runs,      \* history: agent runs started per message by the Discord bot
  windows,   \* history: windows of a message that ended, by time or by a crash
  shown,     \* history: messages the agent got, in its channel or its context
  missed     \* history: messages a bot without a channel answered for, and those
             \* whose post ended with the bots or with the daemon
botVars == <<seen, bot, slack, up, faults>>
vars == <<tool, log, scan, botVars, runs, windows, shown, missed>>

history == <<runs, windows, shown, missed>>

Init == /\ tool = [m \in Msg |-> "new"] /\ log = <<>>
        /\ scan = [c \in Call |-> nothing]
        /\ seen = {} /\ bot = "none" /\ slack = "none"
        /\ up = TRUE /\ faults = 0
        /\ runs = [m \in Msg |-> 0]
        /\ windows = [m \in Msg |-> 0]
        /\ shown = {} /\ missed = {}

-----------------------------------------------------------------------------
(* The sender's process and the dashboard's. *)

OpenLine(m, by) == [msg |-> m, by |-> by, delivered |-> FALSE]

(* TeamBus.send in the dashboard, asked by the tool: no bot, no session, so  *)
(* the message is logged as undelivered.  The tool may still be waiting.     *)
BusAccepts(m) == /\ tool[m] \in {"new", "gone"} /\ Len(log) < MaxLines
                 /\ tool' = [tool EXCEPT ![m] = IF @ = "new" THEN "logged" ELSE "told"]
                 /\ log' = Append(log, OpenLine(m, "bus"))
                 /\ UNCHANGED <<scan, botVars, history>>

(* The dashboard's answer reaches the tool: the message is logged, or send   *)
(* threw before that (permission, depth, cooldown, same content).            *)
Answered(m) == /\ tool[m] \in {"new", "logged"}
               /\ tool' = [tool EXCEPT ![m] = "told"]
               /\ UNCHANGED <<log, scan, botVars, history>>

(* The POST fails or times out: the tool writes its own line.  The dashboard *)
(* may have written one, may still write one, or never got the request.      *)
GiveUp(m) == /\ tool[m] \in {"new", "logged"} /\ Len(log) < MaxLines
             /\ tool' \in {[tool EXCEPT ![m] = t] :
                            t \in IF tool[m] = "new" THEN {"gone", "told"} ELSE {"told"}}
             /\ log' = Append(log, OpenLine(m, "tool"))
             /\ UNCHANGED <<scan, botVars, history>>

-----------------------------------------------------------------------------
(* deliverPending in the daemon. *)

At(c, phase) == scan[c] # nothing /\ scan[c].phase = phase
Held(c) == scan[c].lines[scan[c].at].msg

(* Between the end of one line and the bot of the next, or from Discord to   *)
(* Slack, a call awaits nothing that takes time: no event comes in between.  *)
Idle == \A c \in Call : ~At(c, "turn") /\ ~At(c, "retry")
OpenFrom(lines, i) == {j \in i .. Len(lines) : ~lines[j].delivered}

(* The call goes on with its next open line.  Behind the last one it writes  *)
(* its copy over the file, unless it delivered nothing.                      *)
GoOn(c, lines, wrote) ==
  LET rest == OpenFrom(lines, scan[c].at + 1) IN
  IF rest # {}
  THEN /\ scan' = [scan EXCEPT ![c] = [lines |-> lines, at |-> Min(rest),
                                       phase |-> "turn", wrote |-> wrote]]
       /\ log' = log
  ELSE /\ scan' = [scan EXCEPT ![c] = nothing]
       /\ log' = IF wrote THEN lines ELSE log

(* Mutant: the delivery is not counted. *)
MarkUncounted(c) ==
  GoOn(c, [scan[c].lines EXCEPT ![scan[c].at].delivered = TRUE], scan[c].wrote)

Mark(c) == GoOn(c, [scan[c].lines EXCEPT ![scan[c].at].delivered = TRUE], TRUE)

(* The 15 s tick: the file is read as a whole.  (The calls are alike: the    *)
(* first number that is free names the new one.)                             *)
Tick(c) ==
  /\ up /\ Idle /\ scan[c] = nothing /\ \A d \in 1 .. c - 1 : scan[d] # nothing
  /\ OpenFrom(log, 1) # {}
  /\ scan' = [scan EXCEPT ![c] = [lines |-> log, at |-> Min(OpenFrom(log, 1)),
                                  phase |-> "turn", wrote |-> FALSE]]
  /\ UNCHANGED <<tool, log, botVars, history>>

(* The Discord bot answers that it has no channel, which is so from its      *)
(* login until ClientReady, or that the channel is not to be found.  Any     *)
(* answer counts as delivered.                                               *)
Hush(c) == /\ At(c, "turn") /\ bot # "none"
           /\ Mark(c)
           /\ missed' = missed \union {Held(c)}
           /\ UNCHANGED <<tool, botVars, runs, windows, shown>>

(* It has the same text in its window: a remark that counts as delivered too. *)
Duplicate(c) == /\ At(c, "turn") /\ bot = "ready" /\ Held(c) \in seen
                /\ Mark(c)
                /\ UNCHANGED <<tool, botVars, history>>

(* Mutant: the text is remembered only when it has been posted. *)
BeginPostUnmarked(c) ==
  /\ At(c, "turn") /\ bot = "ready" /\ Held(c) \notin seen
  /\ scan' = [scan EXCEPT ![c].phase = "posting"]
  /\ UNCHANGED <<tool, log, botVars, history>>

(* The bot remembers the text and begins to post it. *)
BeginPost(c) ==
  /\ At(c, "turn") /\ bot = "ready" /\ Held(c) \notin seen
  /\ seen' = seen \union {Held(c)}
  /\ scan' = [scan EXCEPT ![c].phase = "posting"]
  /\ UNCHANGED <<tool, log, bot, slack, up, faults, history>>

(* The message is in the channel; the agent's run on it starts. *)
Posted(c) == /\ At(c, "posting")
             /\ scan' = [scan EXCEPT ![c].phase = "running"]
             /\ runs' = [runs EXCEPT ![Held(c)] = @ + 1]
             /\ shown' = shown \union {Held(c)}
             /\ UNCHANGED <<tool, log, botVars, windows, missed>>

(* Mutant: a failed post is reported like any other answer. *)
PostFailsSilently(c) == /\ At(c, "posting")
                        /\ Mark(c)
                        /\ UNCHANGED <<tool, botVars, history>>

(* channel.send throws: deliverTeamMessage returns null, and Slack is tried. *)
PostFails(c) == /\ At(c, "posting")
                /\ scan' = [scan EXCEPT ![c].phase = "retry"]
                /\ UNCHANGED <<tool, log, botVars, history>>

(* The run ends, with a result or with the text of its error.  Slack is tried *)
(* as well if that text is empty, or cannot be shown in the channel.          *)
RunEnds(c) == /\ At(c, "running")
              /\ \/ Mark(c)
                 \/ scan' = [scan EXCEPT ![c].phase = "retry"] /\ log' = log
              /\ UNCHANGED <<tool, botVars, history>>

-----------------------------------------------------------------------------
(* The Slack bot, and the session when neither bot took the message. *)

SlackTurn(c) == At(c, "retry") \/ (At(c, "turn") /\ bot = "none")

(* injectContext, if either bot has a channel to make a session key of: the  *)
(* agent sees the message in its next turn.  Else the line stays open.       *)
Fallback(c) ==
  IF "ready" \in {bot, slack}
  THEN Mark(c) /\ shown' = shown \union {Held(c)} /\ missed' = missed
  ELSE /\ GoOn(c, scan[c].lines, scan[c].wrote) /\ shown' = shown
       /\ missed' = IF At(c, "turn") THEN missed ELSE missed \union {Held(c)}

NoSlack(c) == /\ SlackTurn(c) /\ slack = "none"
              /\ Fallback(c)
              /\ UNCHANGED <<tool, botVars, runs, windows>>

SlackHush(c) == /\ SlackTurn(c) /\ slack = "mute"
                /\ Mark(c)
                /\ missed' = missed \union {Held(c)}
                /\ UNCHANGED <<tool, botVars, runs, windows, shown>>

(* The Slack bot remembers nothing: it posts whatever it is given. *)
SlackPost(c) == /\ SlackTurn(c) /\ slack = "ready"
                /\ scan' = [scan EXCEPT ![c].phase = "slackPosting"]
                /\ UNCHANGED <<tool, log, botVars, history>>

SlackPosted(c) == /\ At(c, "slackPosting")
                  /\ scan' = [scan EXCEPT ![c].phase = "slackRunning"]
                  /\ shown' = shown \union {Held(c)}
                  /\ UNCHANGED <<tool, log, botVars, runs, windows, missed>>

(* The post, or the showing of the result, throws; or the result is empty. *)
SlackFails(c) == /\ At(c, "slackPosting") \/ At(c, "slackRunning")
                 /\ Fallback(c)
                 /\ UNCHANGED <<tool, botVars, runs, windows>>

SlackRunEnds(c) == /\ At(c, "slackRunning")
                   /\ Mark(c)
                   /\ UNCHANGED <<tool, botVars, history>>

-----------------------------------------------------------------------------
(* Time, bots and crashes. *)

Forget(m) == /\ Idle /\ m \in seen /\ faults < MaxFaults
             /\ faults' = faults + 1
             /\ seen' = seen \ {m}
             /\ windows' = [windows EXCEPT ![m] = @ + 1]
             /\ UNCHANGED <<tool, log, scan, bot, slack, up, runs, shown, missed>>

EndAllWindows == /\ seen' = {}
                 /\ windows' = [m \in Msg |-> windows[m] + IF m \in seen THEN 1 ELSE 0]

(* The Discord bot logs in; its channels come with ClientReady, if it has any. *)
BotStarts == /\ up /\ Idle /\ bot = "none" /\ "discord" \in Bots
             /\ bot' = "mute"
             /\ UNCHANGED <<tool, log, scan, seen, slack, up, faults, history>>
BotReady == /\ Idle /\ bot = "mute" /\ bot' = "ready"
            /\ UNCHANGED <<tool, log, scan, seen, slack, up, faults, history>>

(* A bot is stopped and its memory with it; the message it was handling goes *)
(* on.                                                                       *)
BotStops == /\ Idle /\ bot # "none" /\ bot' = "none"
            /\ faults < MaxFaults /\ faults' = faults + 1
            /\ EndAllWindows
            /\ UNCHANGED <<tool, log, scan, slack, up, runs, shown, missed>>

(* The Slack bot has looked for its channels when it is entered among the bots. *)
SlackStarts == /\ up /\ Idle /\ slack = "none" /\ "slack" \in Bots
               /\ slack' \in {"mute", "ready"}
               /\ UNCHANGED <<tool, log, scan, seen, bot, up, faults, history>>
SlackStops == /\ Idle /\ slack # "none" /\ slack' = "none"
              /\ faults < MaxFaults /\ faults' = faults + 1
              /\ UNCHANGED <<tool, log, scan, seen, bot, up, history>>

(* Calls that have begun to post a message and know of no result. *)
InFlight == {c \in Call : \E p \in {"posting", "retry", "slackPosting"} : At(c, p)}

Crash == /\ up /\ up' = FALSE
         /\ faults < MaxFaults /\ faults' = faults + 1
         /\ bot' = "none" /\ slack' = "none"
         /\ EndAllWindows
         /\ missed' = missed \union {Held(c) : c \in InFlight}
         /\ scan' = [c \in Call |-> nothing]
         /\ UNCHANGED <<tool, log, runs, shown>>

Start == /\ ~up /\ up' = TRUE
         /\ UNCHANGED <<tool, log, scan, seen, bot, slack, faults, history>>

Discord(c) == Hush(c) \/ Duplicate(c) \/ BeginPost(c) \/ Posted(c) \/ PostFails(c) \/ RunEnds(c)
Slack(c) == NoSlack(c) \/ SlackHush(c) \/ SlackPost(c) \/ SlackPosted(c) \/ SlackFails(c) \/ SlackRunEnds(c)
Deliver(c) == Discord(c) \/ Slack(c)
Send(m) == BusAccepts(m) \/ Answered(m) \/ GiveUp(m)

Next == \/ \E m \in Msg : Send(m) \/ Forget(m)
        \/ \E c \in Call : Tick(c) \/ Deliver(c)
        \/ BotStarts \/ BotReady \/ BotStops \/ SlackStarts \/ SlackStops
        \/ Crash \/ Start

Spec == Init /\ [][Next]_vars

(* The interval ticks as long as the daemon lives, posts and runs settle,    *)
(* the supervisor restarts the daemon.                                       *)
Fairness == /\ WF_vars(\E c \in Call : Tick(c))
            /\ \A c \in Call : WF_vars(Deliver(c))
            /\ WF_vars(Start)
FairSpec == Spec /\ Fairness

-----------------------------------------------------------------------------
TypeOK == /\ tool \in [Msg -> {"new", "logged", "gone", "told"}]
          /\ log \in Seq(Line)
          /\ scan \in [Call -> Scan \union {nothing}]
          /\ \A c \in Call : scan[c] # nothing => scan[c].at \in DOMAIN scan[c].lines
          /\ seen \subseteq Msg /\ shown \subseteq Msg /\ missed \subseteq Msg
          /\ {bot, slack} \subseteq {"none", "mute", "ready"}
          /\ up \in BOOLEAN /\ faults \in 0 .. MaxFaults
          /\ runs \in [Msg -> Nat] /\ windows \in [Msg -> Nat]

LinesOf(m) == {i \in 1 .. Len(log) : log[i].msg = m}

(* The Discord bot's agent works on a message once per dedup window, however *)
(* many lines the two senders' processes logged for it, and although calls   *)
(* that overlap hold it open in their copies while its run outlasts the 15 s. *)
OneRunPerWindow == \A m \in Msg : runs[m] <= 1 + windows[m]

ClaimsOf(m) == {i \in LinesOf(m) : log[i].delivered}

(* A message marked as delivered has reached the agent, in its channel or in *)
(* its context, or a call is just posting it, unless a bot without a channel *)
(* answered for it or its post ended with the bots or the daemon: the remark *)
(* that it is a duplicate never hides a message whose post failed.           *)
DeliveredWasShown ==
  \A m \in Msg : ClaimsOf(m) # {} =>
     m \in shown \union missed \union {Held(c) : c \in InFlight}

(* When the recipient has a bot for good, no line stays open for ever: stale *)
(* copies written back by slower calls do not undo deliveries endlessly.     *)
EveryLineSettles ==
  <>[]({bot, slack} # {"none"}) => \A m \in Msg : []<>(ClaimsOf(m) = LinesOf(m))

(* What a sender was told is queued is in the log: a rewrite by the daemon   *)
(* never drops a line another process appended.                              *)
NoMessageForgotten ==
  [][\A m \in Msg : LinesOf(m) # {} => LinesOf(m)' # {}]_vars
=============================================================================
