--------------------------- MODULE DeliveryQueue ---------------------------
(***************************************************************************)
(* The retry queue behind NotificationDispatcher.send                      *)
(* (gateway/delivery-queue.ts, gateway/notifications.ts): a message that   *)
(* reached no channel is queued, saved, retried by drains that a timer     *)
(* starts, and moved to the dead-letter queue after too many attempts.     *)
(*                                                                         *)
(* A drain walks the array that was the queue when it began, awaits a send *)
(* per message, and replaces the queue by the array of what it kept.       *)
(* Nothing keeps a second drain from starting meanwhile, so arrays have an *)
(* identity here, as message objects have: the attempts of a message are   *)
(* counted by every drain that meets it.  The file is overwritten in       *)
(* place: a crash, or a full disk, in the middle of a save tears it, and a *)
(* start takes a torn file for an empty one.                               *)
(***************************************************************************)
EXTENDS Naturals, Sequences, FiniteSets

CONSTANTS Msg,          \* messages
          Drain,        \* drains that can be in flight together
          MaxAttempts,  \* MAX_ATTEMPTS: 3
          MaxFaults     \* bound on the crashes and failed saves of a behaviour

ASSUME QueueAssumption ==
    /\ IsFiniteSet(Drain)
    /\ MaxAttempts \in Nat \ {0}
    /\ MaxFaults \in Nat

VARIABLES up,         \* the daemon runs
          failed,     \* messages whose first send reached no channel
          queue,      \* the array this.queue refers to
          content,    \* what each array holds
          drain,      \* per drain: the array it walks, where it is, what it kept
          attempts,   \* msg.attempts
          delivered,  \* messages that reached a channel after all
          dlq,        \* the dead-letter queue, in memory and on disk alike
          disk,       \* what a start would read in delivery-queue.json
          file,       \* "saved", "saving", or "failed" since the last save threw
          faults,     \* crashes and failed saves so far
          exposed,    \* messages a fault of the file, or a drain of an older array, met
          shared,     \* messages that two drains had in hand together
          revived     \* settled messages that a start brought back

hist == <<exposed, shared, revived>>
vars == <<up, failed, queue, content, drain, attempts, delivered, dlq, disk, file, faults, hist>>

\* Enough arrays for the queue and for those a drain still walks.
Array == 1..(Cardinality(Drain) + 1)
Off == [list |-> 0, at |-> 0, kept |-> <<>>]
Walking == {d \in Drain : drain[d] # Off}
Settled == delivered \cup dlq

Elements(s) == {s[i] : i \in DOMAIN s}
OnDisk == {disk[i].msg : i \in DOMAIN disk}

Init ==
    /\ up = TRUE
    /\ failed = {} /\ delivered = {} /\ dlq = {}
    /\ queue = 1
    /\ content = [a \in Array |-> <<>>]
    /\ drain = [d \in Drain |-> Off]
    /\ attempts = [m \in Msg |-> 0]
    /\ disk = <<>> /\ file = "saved"
    /\ faults = 0
    /\ exposed = {} /\ shared = {} /\ revived = {}

\* save() is synchronous: while it writes, only the end of the daemon can come.
Idle == up /\ file # "saving"

-----------------------------------------------------------------------------
\* Of a message that is queued while drains walk: one that walks an older array
\* will replace the queue without it, two that walk the queue will both meet it.
Walkers(old) == {d \in Walking : (drain[d].list # queue) = old}
Pushed(m) ==
    /\ content' = [content EXCEPT ![queue] = Append(@, m)]
    /\ attempts' = [attempts EXCEPT ![m] = 1]
    /\ failed' = failed \cup {m}
    /\ exposed' = IF Walkers(TRUE) # {} THEN exposed \cup {m} ELSE exposed
    /\ shared' = IF \E d, e \in Walkers(FALSE) : d # e THEN shared \cup {m} ELSE shared

\* Mutant: the queue is not saved.
EnqueueUnsaved(m) ==
    /\ Idle /\ m \notin failed
    /\ Pushed(m)
    /\ UNCHANGED <<up, queue, drain, delivered, dlq, disk, file, faults, revived>>

\* send() found no channel that takes the message: enqueue.
Enqueue(m) ==
    /\ Idle /\ m \notin failed
    /\ Pushed(m)
    /\ file' = "saving"
    /\ UNCHANGED <<up, queue, drain, delivered, dlq, disk, faults, revived>>

\* save(): the queue with the attempts of its messages.
Saved(q) == [i \in DOMAIN q |-> [msg |-> q[i], attempts |-> attempts[q[i]]]]

Save ==
    /\ up /\ file = "saving"
    /\ disk' = Saved(content[queue])
    /\ file' = "saved"
    /\ UNCHANGED <<up, failed, queue, content, drain, attempts, delivered, dlq, faults, hist>>

\* The catch of save(): the file is as it was, or torn.
SaveFails ==
    /\ up /\ file = "saving" /\ faults < MaxFaults
    /\ faults' = faults + 1
    /\ disk' \in {disk, <<>>}
    /\ file' = "failed"
    /\ UNCHANGED <<up, failed, queue, content, drain, attempts, delivered, dlq, hist>>

-----------------------------------------------------------------------------
\* The drain counts the attempt and calls sendFn.
Attempt(m) ==
    attempts' = [attempts EXCEPT ![m] = @ + 1]

\* The timer fires; nothing keeps it from firing while an earlier drain sends.
StartDrain(d) ==
    /\ Idle /\ drain[d] = Off
    /\ content[queue] # <<>>
    /\ drain' = [drain EXCEPT ![d] = [list |-> queue, at |-> 1, kept |-> <<>>]]
    /\ Attempt(Head(content[queue]))
    /\ shared' = IF Walking = {} THEN shared ELSE shared \cup Elements(content[queue])
    /\ UNCHANGED <<up, failed, queue, content, delivered, dlq, disk, file, faults, exposed, revived>>

\* The message whose send drain d awaits.
Current(d) == content[drain[d].list][drain[d].at]

Expired(m) == attempts[m] >= MaxAttempts

\* Mutant: a message that was delivered stays for the next drain.
KeptWhenDelivered(d, ok) ==
    IF Expired(Current(d)) THEN drain[d].kept ELSE Append(drain[d].kept, Current(d))

\* What a drain keeps once it knows whether the current message was delivered.
Kept(d, ok) ==
    IF ok \/ Expired(Current(d)) THEN drain[d].kept ELSE Append(drain[d].kept, Current(d))

\* A failed message with no attempt left goes to the dead-letter queue.
Settle(d, ok) ==
    /\ delivered' = IF ok THEN delivered \cup {Current(d)} ELSE delivered
    /\ dlq' = IF ~ok /\ Expired(Current(d)) THEN dlq \cup {Current(d)} ELSE dlq

\* The walk goes on: the array may have grown since it began.
NextMessage(d, ok) ==
    /\ Idle /\ drain[d] # Off
    /\ drain[d].at < Len(content[drain[d].list])
    /\ Settle(d, ok)
    /\ drain' = [drain EXCEPT ![d] = [list |-> @.list, at |-> @.at + 1, kept |-> Kept(d, ok)]]
    /\ Attempt(content[drain[d].list][drain[d].at + 1])
    /\ UNCHANGED <<up, failed, queue, content, disk, file, faults, hist>>

\* An array no other drain walks, for the kept messages.
FreshArray(d) == CHOOSE a \in Array : \A e \in Walking \ {d} : drain[e].list # a

\* The end of the walk: this.queue = remaining, whatever it is by now.
FinishDrain(d, ok) ==
    /\ Idle /\ drain[d] # Off
    /\ drain[d].at = Len(content[drain[d].list])
    /\ Settle(d, ok)
    /\ queue' = FreshArray(d)
    /\ content' = [content EXCEPT ![queue'] = Kept(d, ok)]
    /\ file' = "saving"
    /\ drain' = [drain EXCEPT ![d] = Off]
    /\ UNCHANGED <<up, failed, attempts, disk, faults, hist>>

Answer(d) == \E ok \in BOOLEAN : NextMessage(d, ok) \/ FinishDrain(d, ok)

-----------------------------------------------------------------------------
\* The daemon dies in the middle of anything, a save included.
Crash ==
    /\ up /\ faults < MaxFaults
    /\ up' = FALSE
    /\ faults' = faults + 1
    /\ drain' = [d \in Drain |-> Off]
    /\ disk' \in IF file = "saving" THEN {disk, <<>>} ELSE {disk}
    /\ file' = "saved"
    /\ exposed' = IF file = "saved" THEN exposed ELSE exposed \cup failed
    /\ UNCHANGED <<failed, queue, content, attempts, delivered, dlq, shared, revived>>

\* Mutant: a start forgets the file.
LoadNothing ==
    /\ ~up
    /\ up' = TRUE
    /\ content' = [content EXCEPT ![queue] = <<>>]
    /\ UNCHANGED <<failed, queue, drain, attempts, delivered, dlq, disk, file, faults, hist>>

\* load(): the queue and the attempts as the file has them.
Load ==
    /\ ~up
    /\ up' = TRUE
    /\ content' = [content EXCEPT ![queue] = [i \in DOMAIN disk |-> disk[i].msg]]
    /\ attempts' = [m \in Msg |->
          IF \E i \in DOMAIN disk : disk[i].msg = m
          THEN disk[CHOOSE i \in DOMAIN disk : disk[i].msg = m].attempts
          ELSE attempts[m]]
    /\ revived' = revived \cup (OnDisk \cap Settled)
    /\ UNCHANGED <<failed, queue, drain, delivered, dlq, disk, file, faults, exposed, shared>>

Next ==
    \/ \E m \in Msg : Enqueue(m)
    \/ \E d \in Drain : StartDrain(d) \/ Answer(d)
    \/ Save \/ SaveFails
    \/ Crash \/ Load

Spec == Init /\ [][Next]_vars

\* The timer is periodic, every send settles, a write ends, the daemon is restarted.
Fairness ==
    /\ \A d \in Drain : WF_vars(StartDrain(d)) /\ WF_vars(Answer(d))
    /\ WF_vars(Save \/ SaveFails)
    /\ WF_vars(Load)
FairSpec == Spec /\ Fairness

-----------------------------------------------------------------------------
\* What drain d has yet to visit, the message whose send it awaits included, and
\* all it has in hand.
Ahead(d) == {content[drain[d].list][i] : i \in drain[d].at..Len(content[drain[d].list])}
InHand(d) == Elements(drain[d].kept) \cup Ahead(d)

TypeOK ==
    /\ up \in BOOLEAN
    /\ failed \subseteq Msg /\ delivered \subseteq failed /\ dlq \subseteq failed
    /\ queue \in Array
    /\ content \in [Array -> Seq(Msg)]
    /\ drain \in [Drain -> {Off} \cup [list : Array, at : Nat \ {0}, kept : Seq(Msg)]]
    /\ attempts \in [Msg -> Nat]
    /\ disk \in Seq([msg : Msg, attempts : Nat])
    /\ file \in {"saved", "saving", "failed"}
    /\ faults \in 0..MaxFaults
    /\ exposed \subseteq failed /\ shared \subseteq failed /\ revived \subseteq failed

\* However many drains overlap and wherever the daemon crashes, a message that is
\* not settled is in the queue of the running daemon and in a file that was saved,
\* unless it was queued behind the back of a drain of an older array, or the
\* daemon died with the file unsaved.
NothingLost ==
    \A m \in failed \ (Settled \cup exposed) :
        /\ up => m \in Elements(content[queue])
        /\ file = "saved" => m \in OnDisk

\* No message that was delivered or given up is sent again, unless two drains had
\* it in hand together or a restart read it back from the file.
SentOnce == \A d \in Walking : Current(d) \in Settled => Current(d) \in shared \cup revived

\* Every failed message is settled: delivered, or given up and kept for the
\* dashboard; none is retried for ever, through overlaps, crashes and restarts,
\* with the exception of NothingLost.
EveryMessageSettled == \A m \in Msg : m \in failed ~> m \in Settled \cup exposed
=============================================================================
